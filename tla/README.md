# A TLA+ development of crosspoint-simulator

crosspoint-simulator runs the CrossPoint e-reader firmware, unchanged, on a
desktop, a Mac or an iPhone. The firmware is written for an ESP32: it calls
FreeRTOS, an HTTP client, GPIO buttons and an e-ink panel. The simulator
implements those calls with host threads, curl or NSURLSession, SDL and UIKit.
The modules here specify the parts of it in which the order of steps decides
whether it works: locks and tasks that live through a reboot that is only a
`longjmp`, a byte stream between a transport's thread and the firmware's, buttons
fed from five sources into a firmware that sleeps, a picture on its way through
three threads to the glass, two servers whose threads hand their requests to the
main loop, the books the phone hands over, the idle timer they all write, and
three ways of reading without hands that share one page channel, one page-forward
button and one audio session.

`PROJECT.json` lists the components, runs, mutants, theorems and hazards, and maps
each definition to the lines it models.

    tlc -workers 2 -config ButtonInput_typing.cfg ButtonInput
    tlapm SimRtosProofs.tla

## 1. The system

Paths are relative to `src/`, the repository. The simulator is `src/src` (the
shims, about 38,000 lines with vendored code) and `src/ios` (the phone's harness,
about 18,000).

### Parts, state and operations

| Part | State it keeps | Operations | Who calls |
|---|---|---|---|
| HTTP streaming, `src/SimHttpStream.h`, `src/esp_http_client.h` | a bounded byte buffer and a read offset, head, done/error/aborted flags under one mutex and one condition variable | setHeaders, push, finish, abort, waitHeaders, read | the transport's thread (libcurl) or queue (NSURLSession) on one side, the firmware on the other |
| Buffered fetch, `src/SimHttpFetch.h`, `src/HTTPClient.h` | a whole response | fetch, fixtures | the firmware |
| FreeRTOS shim, `src/freertos/` | per mutex: owner, reported holder, count; per task: notification count; a registry by task name | take, give, create, delete, notify, wait | the firmware's threads and the host's |
| Reboot lifecycle, `src/SimulatorLifecycle.cpp` | the jump buffer, the wake reason in the environment, the registrars | power wake, firmware restart, document open | the main thread |
| Buttons and sleep, `src/HalGPIO.cpp` | edges of the frame, levels, press times, queued taps, wake edge, foreground latch | update, isPressed, injectButtonDown/Up, queueButtonTap, startDeepSleep | the main thread: the firmware's loop(), SDL's watches |
| Text entry, `src/TextEntryKeyRouting.h`, HalGPIO | whether a field is open and its shape, Return's claim, typed text | setTextEntryActive, consumeTypedText | the firmware |
| Touch and Home, HalGPIO, `ios/TapCandidate.h` | contacts, the Home key | touch events | SDL's watches |
| Host keyboard, `src/HostKeyboardState.h` | suppressed, restart armed, applied | requestVisible, onFieldEdge, poll | UIKit, firmware and main threads |
| Page presenting, `src/HalDisplay.cpp` | the pixel buffer, its number, polarity and stamp; the cached 1-bit base and gray planes; the hold; owed-present and reconvert flags | refresh, plane strips, compose, setInverted, presentIfNeeded | the render task writes, main presents, anybody flips |
| Reader insets, `src/ReaderInsetsChannel.h` | staged, pending, armed and live insets | publish, markPageDrawing, commit, current | render task, pixel writers, the harness's poll |
| Hand-off channels, `src/*Channel.h` | one slot each | inject, peek, consume | harness to firmware |
| Sheet identity, `src/SheetIdentity.h`, `src/SurfaceSheet.cpp` | seed and kind of the announced sheet; recto and verso maps | publish, sample, promote | render task, main |
| Power and trails, `src/SurfacePower.cpp`, `src/PowerOffCollapse.h`, ... | phase of the collapse or warm-up, the frozen page, the trail | begin, step, end | main |
| Storage, `src/HalStorage.cpp`, `src/SimCompressedFile.h` | open files, a chunk cache | open, read, seek | the firmware |
| HTTP server, `src/WebServer.cpp` | a worker, its connection, a parked request, the upload under way | begin, handleClient, stop | the firmware's loop; a reboot's hook |
| WebSocket server, `src/WebSocketsServer.cpp` | an acceptor, a thread and a number per connection, a queue of events | begin, loop, close | the firmware's loop |
| Documents, `ios/CrossPointBookImport.mm`, `src/SimulatorDocumentOpen.cpp` | `books/` and `Inbox/` on the card, two pending paths, the path the state file opens | import, sweep, request, stage, relaunch | drop events, the main queue, the launch, the main loop |
| Screen-on lease, `src/SimKeepAwake.h`, `src/SimHostScreen.h`, `ios/CrossPointScreen.mm` | a request, a lease, an applied preference, the phone's idle timer | step, request, setKeepAwake, applyKeepScreenAwake | update runs, file transfers, the main loop |
| Host values, `src/SimHostBattery.h` | atomics | edges | both sides |
| Settings, reading records | files and their watches | load, save, poll | both sides |
| Page channel, `src/ReadAloudChannel.h` | one page, whether it was drained, a generation | publish, consume, peek, resetForReboot | the render task publishes, main drains and peeks |
| Read aloud, `ios/ReadAloudCore.cpp`, `ios/CrossPointReadAloud.mm` | the core's state, page and count of blank pages; the adapter's page, serial, countdowns and queue of engine events; the audio session | perFrame, magicTap, tapAtScreen, resetForReboot, the delegate | the frame, UIKit's touches, AVSpeechSynthesizer's thread |
| Speed read, `src/SpeedRead.h`, `src/SurfaceSpeedRead.h` | the page it has, the page that is settling, its cursor and clock | step, setEnabled, takeTap | the presenter's pass, the frame, a touch |
| Volume rocker, `ios/CrossPointVolumeButtons.mm` | armed, and whether it took the session | perFrame, takeAudioSession | the frame, read aloud's release |
| Colour and texture, `src/PanelPalette.h` and about 20 headers | none | pixel arithmetic | main |

### How they interact

The **main thread** runs a frame: `HalGPIO::beginFrame`, the firmware's `loop()`
(which calls `HalGPIO::update` itself, sometimes more than once), the harness's
end-of-frame hooks, `HalDisplay::presentIfNeeded`. The **render task**, a thread
that `xTaskCreate` made, draws under the firmware's RenderLock (a SimRtos mutex)
and calls the display's writers, which take `pixelBufMutex`. **Transport threads**
push into the HTTP stream. **SDL's event watches** run on the main thread while it
pumps and put taps, pad presses and lifecycle changes into HalGPIO. A **reboot**
on the phone is a `longjmp` of the main thread back to `main()`: registrars reset
the statics that are a boot's state, every mutex is force-released, and every
other thread runs on.

### What is hard, and what makes each part correct

- *HTTP streaming*: two threads, one condition variable, a buffer that is compacted
  while partly read, aborts, a transport that fails with bytes unread. Correct: the
  bytes come in order, once; a clean end is only told of a clean transfer; nobody
  sleeps for ever; memory is bounded.
- *FreeRTOS shim*: recursion, waiters, and a reboot between any two steps, with
  threads that do not know they were rebooted. Correct: a lock that is taken has
  a holder inside it; a late give frees nobody else's lock; a free lock is taken; a
  task is not started twice.
- *Buttons*: edges that must outlive several `update()`s, presses that must not wake
  the device they put to sleep, taps in flight while the app is put away, a reboot
  with a finger down. Correct: no phantom press, no level nobody will end, every
  call to a sleeping device wakes it.
- *Typing*: one key that is text or a button depending on a field that may close
  between its DOWN and UP. Correct: text does not leak, Return is not split.
- *Presenting*: a lock that covers pixels but not the flags around them, a hold
  that must swallow the 1-bit pass of an antialiased page without swallowing the
  page, a cached base read without the lock. Correct: the last picture lands, in
  the polarity set last, laid out for the page it is, and never backwards.
- *File transfer*: a request that one thread reads and another handles, a stop()
  that joins threads which may be waiting for the caller or for a peer that never
  ends, client numbers handed out again, a restart from inside a handler. Correct:
  a handler works on its own request, an upload that began is told how it ended,
  events of one number never mix two connections, main always comes back.
- *Documents*: one drop seen by two watches, namesakes, a copy or a write cut
  short, a kill anywhere. Correct: what was handed over is kept, and what opens is
  what was handed over.
- *Idle timer*: four writers that each remember what they wrote last. Correct: an
  update that works holds it; when nothing does, the owner's preference applies.
- *Reading without hands*: an engine that reports on its own thread about utterances
  that may be long stopped, two readers of one page that can each ask for its turn,
  pages that never come, a session that another part borrows, a reboot or a sleep in
  mid-sentence. Correct: what is spoken is the page that is held, a page is turned
  only when it is done with and once, and the phone's audio is given back.

## 2. The plan

| # | Module | Models | Composes / refines | State |
|---|---|---|---|---|
| 1 | `BytePipe` | what a reader of a stream is promised | abstract | done |
| 1 | `HttpStream`, `HttpStreamProofs` | stream, transports, client | implements `BytePipe` | done, proved |
| 2 | `RevocableLocks` | what a mutex promises when a reboot may release it under its holder | abstract | done |
| 2 | `SimRtos`, `SimRtosProofs` | mutexes, tasks, reboot | implements `RevocableLocks` | done, proved |
| 3 | `ButtonInput`, `ButtonInputProofs` | buttons, taps, sleep, text routing, reboot registrar | | done, proved |
| 4 | `PagePresent`, `PagePresentProofs` | writers, hold, flips, insets, presenter | display with insets channel and harness | done, proved |
| 5 | `WebServer`, `WebSocketsServer`, `WebSocketsServerProofs`, `Peers` | the two servers of a file transfer | | done, proved (the HTTP server in 8) |
| 6 | `KeepAwake` | the lease and the preference that share one timer | | done |
| 7 | `DocumentOpen` | import, sweep, staging, kills | | done, proved in 8 |
| 8 | `FileTransfer`, `FileTransferProofs` | the firmware's loop over 5 to 7, reboots | composes `WebServer`, `WebSocketsServer`, `KeepAwake`, `DocumentOpen` | done, safety proved |
| 9 | `PageChannel` | the page on its way to its readers | | done |
| 9 | `ReadAloud`, `SpeedRead`, `VolumeRocker` | the core and its adapter; RSVP; the keys' session | over `PageChannel` | done |
| 10 | `HandsFree`, `HandsFreeProofs` | the frame over 9, the firmware's reader, the phone | composes 9 | done, proved |
| 11 | `Phone`, `MCPhone`, `PhoneProofs` | the app: 8 and 10 on one main thread | composes `FileTransfer` and `HandsFree`, implements `HandsSpec`, `DocSpec` and `WsSpec` | done, proved |

The parts whose order of steps matters most, and in which a mistake shows as a
hang or a wrong page, came first. `PagePresent` composes three pieces of code
(display, insets channel, harness poll) in one module since they share the pixel
lock and the present; `ButtonInput` has the sleep loop, the text routing and the
registrar in one since all act on the same edges. `SimRtos` keeps what the firmware
does inside a lock abstract, so it holds for the RenderLock of `PagePresent` as for
any other. `FileTransfer` is four modules over disjoint
variables; what it adds is what makes them one program: they share the main thread,
so a handler, a join, an import and a pass over the idle timer exclude each other,
begin() and stop() write the idle timer, and a reboot, wherever it comes from, runs
the reset hooks of all. `Phone` adds in the same way the parts that read to the
owner, whose frame stands still while a handler, an import or a stop() runs and while
the device sleeps.

What an earlier plan named and a closer look did not bear out: the font-step, menu
and turned-page channels and the host keyboard are posted, polled and consumed on one
thread in these builds, and the sheet's leaves are a function of the page (section
7). What is left that would pay: the tube's collapse and warm-up as a part of
`PagePresent`'s presenter, and the touch and Home-key paths of `HalGPIO` inside
`ButtonInput`.

## 3. The modules and the code

### HttpStream and BytePipe

`HttpStream` is `simhttp::Stream` with its two users. Each critical section of
`mutex_` is one action; the three `cv_.wait` calls are explicit: a thread whose
predicate is false goes into `parked`, and only a `notify_all` takes it out, so a
missing notify is a reachable hang, not something the model rules out. The producer
(`pp`) is `curl_easy_perform` on its thread or the delegate queue of
`CrossPointHttp.mm`; the `subprocess` and `fixture` transports fill the stream
before the caller has it (`fillBuffered`). The consumer (`cp`) is the firmware
through `esp_http_client_open`, `_read` and `_close`.

A byte is its position in the body, so "in order, none lost, none twice" is a
statement about numbers. Compaction follows `push()`: a buffer wholly read is
cleared, one whose read prefix is larger than the cap is shifted. `Cap` stands for
`kStreamCapBytes`.

`BytePipe` is five variables: what was sent, what was delivered, how the sender
ended, whether the reader gave up, what the reader was last told. It promises that a
reader is told "end" only after everything sent was delivered and the sender ended
clean. `HttpStream` implements it under the mapping `Pipe`.

Left out: header fields, URLs, the text of errors (an error code is 0 or `Failed`).

### SimRtos

A mutex is `owner` (the identity token of the thread), `holder` (the task handle
`xSemaphoreGetMutexHolder` would report), `holdCount`. `inside[t][m]` is the
program's side: how many takes the stack of `t` is in. The firmware gives what it
took (RenderLock is RAII), in any interleaving; otherwise it may do anything. Host
threads share main's handle, as `xTaskGetCurrentTaskHandle` gives it to any thread
the shim did not start; they do not share its identity.

The reboot is three actions: begin, release each mutex under its own lock (others run
in between), and `Jump`, which empties main's stack of takes and nobody else's.
`stale` remembers which takes a reboot released under a live stack: those threads
will give late. `Create` returns the live handle for a known name; `Delete` detaches
and never stops. `DeletesRunning` is a client assumption, FALSE in the runs: the
firmware's tasks return before they are deleted.

`RevocableLocks` is what is left of mutual exclusion across reboots, in two variables:
who is within each mutex, and which of them are strays, threads under whom a reboot
released it. It lets a thread enter only beside strays, and a thread becomes one only
when the mutex is released under all that are within. `SimRtos` implements it under the
mapping `Promise` of `SimRtosProofs`; that is proved, and has no run of its own.

Not modelled: `portMUX` critical sections. The timeout argument of a take has no
effect in the shim, which always waits, and so none here.

### ButtonInput

Two sets for the edges of the frame, one for synthetic levels, SDL's own key state,
a press time per button, taps before and after they fired. Ticks are abstracted to
what a hold computed from them would be worth: `held` (the press still going on) or
`over` (of a press that ended). Key events are queued and polled one by one as in
`update()`; pad and tap calls come from SDL's watches, hence only while the thread
pumps (`Pumping`).

`BeginFrame`, `BeginUpdate`, the polls, `Check` (the firmware's inactivity check,
external), firmware calls in `loop()`, `StartDeepSleep`, then one iteration of
its loop in the code's order: foreground latch, queued taps turned to an edge, quit,
edge, then the queue. `Restart` is the registrar `gGpioRebootReset`: exactly the
statics it resets are reset, and the others (`simulatorSleepRequested`, a finger on a
key or the pad) are UNCHANGED.

History variables: `called` (what was asked of a sleeping device), `asked` (what
anyone pressed since this boot), `returned`, `shortcut`, `route` and `moved`
(Return's DOWN and what happened to the field since).

### PagePresent

The render task (`rpc`) follows the firmware's page: publish the insets, perhaps a
popup over the old page, announce the page, 1-bit pass, plane strips, compose,
clean-up. A writer's critical section is two steps, `WriteNew` and `Written`,
because the seq, the stamp and the insets are read or changed by others who do not take
`pixelBufMutex`. The presenter (`mpc`) is `presentIfNeeded` in its own order: the
flip flag is exchanged, the reconvert done, the hold loaded, cleared by a separate
store, the owed flag exchanged, the lock taken, the hold asked again (`Decline`), the
frame uploaded, and after the lock is dropped and retaken, drawn. A flip is two
stores. Time is only whether a deadline has passed (`HoldComesDue`).

A picture is `[draw, what, pass, inv]`: which drawing, page / screen / popup,
1-bit / partly gray / gray, and polarity. `placed` is the page whose insets the panel
is laid out for.

Left out: the deliberate flash (off by default), the e-ink waveform (off by default),
the lent frame buffer, a due screenshot (which presents through the hold on
purpose) and the veto while asleep.

### WebServer

The worker (`worker`) is the lambda of `begin()` (`WebServer.cpp:553-786`) and what
it calls: accept, publish the descriptor, ask `active` again, read the head, read
the body, park the request, wait, release, close. Each place is a point another
thread can see. Main (`caller`) is in loop(), in a handler, or at one of stop()'s six
steps. `sock` is a connection's socket; a shutdown makes it "cut", after which a
receive fails. A route is "plain", "raw" (told of start and end by the worker) or
"multipart" (told by the handler, or of an abort by the worker). A body is
`BodyChunks` pieces; a peer may stop anywhere, or dribble for ever, which is what
the re-arming timeout allows. `begin()` may fail at any of its three calls
(`WebBeginFails`): there is no worker then, and the firmware, which is not told,
polls and stops the server as usual.

`upload` records what the handlers were told. A multipart handler is told of START
and END in two steps (`PartStarts`, `PartEnds`), and may throw (`HandlerThrows`, the
guard signals the worker all the same) or restart before the first, between them or
after. One that does so between them has left its upload itself: the worker closes
the connection and nobody tells it more. That upload is marked "left", and it is the
exception `UploadsEnd` names. `Leave` is both ways into stop(): the transfer is left,
or a handler calls `ESP.restart()` and the hook stops the server from within.

`begin()` sets none of the dispatch flags and nothing takes down the one that stop()
raises, so a server that is begun again lets go of each request as soon as it is
parked, and closes it under its handler. Whether that happens is the client's choice:
the constant `BeginsAgain`, FALSE in the run. The firmware is not in the repository;
`docs/network-surface-hunt-2026-09-04.md:27` records the defect and that its
`CrossPointWebServer::begin` constructs a fresh object each time. `Server` then gives
a transfer the initial values. The mutant `WebBeginStopped`, `begin()` on the server
that was stopped, violates `DispatchOwnsRequest`.

Left out: headers, routing, the text of answers, several servers at once, further file
parts of a form (each takes the same two steps again), and a raw handler that throws,
which is on the worker, where nothing catches it: the process ends.

### WebSocketsServer

`at[p]` is where a connection's thread is: shaking hands, joined, reading, leaving,
removing. `FreeNum` is `addClient`'s search from `nextClient`, including its last
resort when no number is free. A frame is an opcode and FIN; `wire` is what the peer
has sent since its last whole message and `message` the positions put together so
far, so that a wrong order, a lost part or a part too many is seen. close() is five
steps, two of them joins. `Orphan` is the reboot, which has no hook for this server.

Left out: the handshake's text, masking, payloads, sends.

### KeepAwake

`Lease::step` with the iOS host's answer is `LeaseStep`; `applyKeepScreenAwake` is
`PreferenceStep`; one pass of the main loop runs both, the deep-sleep loop the first
only. `setKeepAwake` goes over the main queue (`hops`). SDL's screen-saver calls are
taken to write the same timer whenever they are made, which is what
`applyKeepScreenAwake` relies on; SDL itself is not in the repository. Lease and
`applied` are statics a reboot leaves alone.

### DocumentOpen

The import, the sweep, the request and the staging run on the main thread, so they
interleave with kills and with failures, not with each other: `docAt` is where main
is, and each step is one a kill can follow. All documents share one file name, the
hard case; attempt n of the import is name n, and two files of one size are one
document, as the import takes them. `StagesRaw` opens and truncates a copy that
`WriteEnds` fills; `WriteFails` leaves it short.

### FileTransfer

Next is every module's actions, with main's gated by `MainIsFree`. `RebootAll` is the
reset hooks; three actions run it: a handler's restart, a handed-over book and the
firmware or the sleep loop. `Budgets` bounds what the outside does; nothing else is
bounded. The firmware that calls the servers is not in the repository: it is taken to
call begin on both, poll both in its loop, and leave, which is what their comments
say of it (`WebServer.cpp:328-331`, `:875-883`). `src/CrossPointWebServer.cpp` is not
such a caller: it is a substitute with an accept loop of its own, which no current
build compiles, and is not modelled.

### PageChannel

One slot: the page, whether it was drained, and whether the peeker has seen it (its
generation cursor is behind). A page is its place in `Book`, which says for each page
whether there are words on it: two pages compare equal when they are the same or both
blank, which is what comparing texts and rectangles comes to when a page that is laid
out anew counts as another page. The firmware's reader
is not in the repository; it opens, turns, leaves, and its render task publishes
what it was last asked to draw, also after a reboot that it survived.

### ReadAloud

`aloud` is one record: the core's fields, the adapter's, the engine's queue and the
audio session. Each function of the core is an operator from a state to the one it
leaves, with the actions the adapter applies for it inside, in the order
`applyActions` runs them; `perFrame` is `AloudFrame`: the setting, the page, the
events. A frame that handles two events is two frames between which nothing happens,
and its two countdowns are actions of their own, so that each may end in any frame.
What the phone decides (whether a stop leaves the paused flag up, whether the session
activates, whether an offset taken from another page fits) is `Lucks`.

An utterance is current until a new serial is drawn; an event carries whether its
utterance is. `heardOut` and `blanks` are history: was the page spoken to its end,
how many turns since there were words.

Left out: which word is lit (a tap on it, or on another, is chosen freely), rates,
voices, the highlight, what assistive technology is shown.

### SpeedRead and VolumeRocker

`SpeedStep` is one pass of `simspeedread::step`: the channel, the page that settles,
the tap, the clock. Whether a page has settled and whether a word's time is over are
left to chance. `asks` is history. `VolumeRocker` is the borrowing of the session and
its return; the resignation of the app, which disarms it, is the same step as a
setting that goes off. What a key press does is left out.

### HandsFree and Phone

`HandsFree` is the frame's parts as steps (the firmware's loop takes the queued
taps, `pollSpeedRead`, `CrossPointReadAloud_perFrame`, the rocker's, the presenter's
step), the render task, the engine, and the owner. Two orders of the code are guards:
read aloud's perFrame comes after the poll that tells speed read who turns pages, and
no presenter's pass falls between the two.

`Phone` puts it under `FileTransfer`'s main thread: the frame needs `MainInLoop`
(neither asleep nor in a call), a magic tap only `MainIsFree`, since the sleep loop
polls events. Going to sleep drops the queued taps (`HandsSleep`); every reboot of
`FileTransfer` is one of `HandsFree` (`HandsReboot`: the page channel's reset and
`CrossPointReadAloud_resetForReboot`).

## 4. The runs

Every run bounds only what TLC needs; "Bounds" says why the interesting cases fit.

| Run | Checks | Shows | Bounds |
|---|---|---|---|
| `http_stream` | BufferBounded, EndIsHonest, PipeSpec, CallsReturn, AbortEndsTransfer | both threaded transports and the fixtures, aborts and failures at every point: memory, honest ends, refinement of BytePipe (and with it the order of the bytes), and no call or transfer that hangs | Cap 2, chunks up to 3, body 7, reads up to 2. A chunk larger than the cap, a full buffer, a prefix longer than the cap (so both compactions) and a partial read all occur; 7 bytes are more than two caps and a chunk |
| `http_complete` | CompleteMeansClean (violated) | finding 1 | the same sizes, the subprocess transport only |
| `rtos` | HolderIsInside, CountIsDepth, OneThreadPerName, OnlyOwnersGive, FreeLocksAreTaken, NotifiedTasksRun | the lock and the registry across reboots at any point | main, a host thread, two task threads wanting one name, one mutex nested twice, one pending notification. The recursive case, a waiter, a stale holder and a second holder all fit. Two mutexes add nothing the definitions can tell: each refers to one mutex only; the proofs cover any number |
| `rtos_exclusion` | MutualExclusion (violated) | finding 2 | main, one task, one mutex: the smallest instance that shows it |
| `buttons_sleep` | TypeOK, WakesAreCalledFor, LevelsHaveAHand, PressesAreAsked, PressesReachTheFirmware, CallsWake | POWER from a key, the pad and a queued tap, with sleep, wake, restart, resign, foreground and quit at any point | one queued key event, one tap in flight: a press, its release and a tap overlap; repeated update()s in a frame are on |
| `buttons_typing` | TextStaysInItsField, ClaimIsHeld, ReturnKeepsItsRoute | Return with and without its modifier and the S key, over fields of both shapes, reboots and sleeps | two queued key events: a DOWN and its UP, or two keys, between two field edges |
| `buttons_holds`, `buttons_resume` | HoldsAreCurrent, ReturnIsSeen (violated) | findings 3 and 4 | |
| `page_safety` | PlacementFollowsPage, FlipIsQueued, NoOldPictureComesBack | two drawings of any kind with a flip at any point | an older and a newer page, a popup between them, gray planes of both. One flip suffices for each race: a flip against a page, a flip against a reconvert's read of the base |
| `page_liveness` | FramesLand, FlipsLand, PlacementLands | the last picture, polarity and placement reach the glass | one drawing, one flip, one foreign request, one trip to the background; the drawing may stop at any point |
| `phone` | PhoneTypeOK, SpeechFollows, DispatchOwnsRequest, UploadsEnd, EventsAlternate, MessagesWhole, ClosedIsQuiet, OpensWhatWasGiven, TurnsAreEarned, AudioIsGivenBack, MainComesBack, UpdateStaysAwake, OwnerGetsItBack, HeldIsKept | both servers, the books, the idle timer and the readers under one main thread, with transfers left, peers that stall, restarts, sleeps and kills at any point | see below |
| `page_flash` | FlashOnlyAfterDeadline (violated) | finding 5 | two drawings and no flip: the first hold has to run out and the second to be armed |

The bounds of `phone` are the constant `Budgets`, twelve ways to share out what
the outside may do, so that every part is explored in depth alone and every two
that share something are explored together: two transfers with two HTTP
connections; three WebSocket connections over two numbers, so that a number is
handed out again while its last owner's events are queued, and the search wraps;
three frames on one connection, enough for a message in parts with a control frame
inside; a transfer with a reboot, a sleep or a change of preference; four events of
the update run, the preference and the foreground; both servers at once; a transfer
and a drop, whose relaunch comes in mid-transfer; two drops and a kill, with two
documents of one name and two names, so that the names run out. One piece of body
tells a whole body from none. Nothing limits how long a peer dribbles.

Two budgets are for reading: one or two moves of the owner or the phone (a tap, a
setting, a page turned by hand, an interruption, a sleep, a reboot), over a page of
words and a blank one, with one blank page walked past (`MaxSkips`). One move starts
from speed read alone, or from read aloud with the rocker on, so each pair that shares
something meets; two moves start from read aloud alone, whose stale callbacks and
late pages need the second. Everything the parts do by themselves, the engine's
and the render task's timing included, is unbounded. With a third move or all three
settings on at once the run outgrows its time; the theorems of section 5 have no such
bound. The parts of `FileTransfer` are at rest in these two budgets and the readers in
the others: what they share, the main thread, the sleep and the reboot, is in
both.

The type invariants are theorems of every module; those of `ButtonInput` and `Phone`
are checked by a run as well.

`CHECK_DEADLOCK FALSE` everywhere: the firmware may stop calling, the app may quit,
the drawing bound is used up.

### Fairness

- `HttpStream`: WF of the producer (the idle timeouts of both transports end a
  stalled transfer, so it always takes another step) and of a thread inside a call.
  Nothing obliges the firmware to call again.
- `SimRtos`: WF of each thread's retry inside a take, or inside a wait for
  notifications, and of a reboot under way. Not of a give: a firmware that keeps
  a lock is its own affair, so FreeLocksAreTaken speaks of locks that are free.
- `ButtonInput`: WF of the frame and of the sleep loop; SF of the ends of the two
  poll loops, as a host that never leaves SDL's queue empty, for ever, is no host. A
  waiting tap's hold ends in real time.
- `PagePresent`: WF of the presenter, of a writer inside the lock, of the clock, of
  the second store of a flip, of the return from the background; SF of the inset
  poll, which the main loop makes once between two presents. No fairness for
  drawing: the render task may stop after any picture, which is what makes FramesLand
  a strong statement.
- `FileTransfer`: one WF for the servers' threads together, one for the main thread:
  less than the scheduler gives each of them. Nothing obliges a peer to send, to end
  or to leave, nor the firmware to leave a transfer. What a thread does when its peer
  acts (`WorkerHears`, `PeerActs`) is under no fairness, so MainComesBack holds
  although a peer never ends its body. MainComesBack is `[]<>`: main is free again and
  again, whatever it enters.
- `Phone`: the same, and WF of the harness's perFrame while the main loop runs, which
  is once a frame. Nothing is asked of the engine, the render task or the owner, so
  AudioIsGivenBack holds though a page asked for is never drawn. It excludes a device
  that sleeps: no frame runs then, and nothing gives the session back.

### Mutants

Each property of a passing run has a mutant: a definition in the module, before the
one it stands in for, with a plausible mistake (a notify forgotten, a flag taken down
early, a registrar that misses a static). With it in place TLC finds the property
violated under the same configuration.

## 5. What is proved

The proofs are in eight modules: the theorems below, 60 of which `PROJECT.json` lists,
and the lemmas under them. They hold for every value of the constants, from the assumptions the modules name
(each is an ASSUME beside its constants; all are about types, sizes being positive,
names being distinct, or the absence of a peer or a book being none of them):

| Module | Theorem | Says |
|---|---|---|
| `HttpStreamProofs` | TypeCorrect | the types |
| | Memory, HonestEnd | the invariants of the run |
| | OnlySubprocessLies | EndIsHonest and CompleteMeansClean of any stream that no curl subprocess fetched |
| | InOrder | the bytes come in order, none lost, none twice (BytesInOrder) |
| | Wakeups | no thread sleeps on a condition that holds (NoLostWakeup) |
| | StableHead | status and length never change once ready (HeadIsStable) |
| | StreamIsPipe | `HttpStream` implements `BytePipe` |
| | NobodyIsStranded | reader and transport are never both asleep, nor one asleep beside one that is gone (SleepersHaveAWaker) |
| `SimRtosProofs` | TypeCorrect, HoldersAreInside, CountsAreDepths, OneThread, GivesAreTheOwners | the properties of the run |
| | Wakeups, HandlesAreGood | no lost wakeup; the registry never holds a deleted handle |
| | LocksAreRevocable | `SimRtos` implements `RevocableLocks` |
| `ButtonInputProofs` | TypeCorrect, EveryWakeIsCalledFor, EveryLevelHasAHand, EveryPressIsAsked, EveryPressReaches | the safety properties of `buttons_sleep`, for queues and taps of any number |
| | TextKeepsToItsField, ClaimsAreHeld, ReturnStaysOnItsRoute | the properties of `buttons_typing` |
| | EveryCallIsKept | what calls a sleeping device stands before its loop until it is answered (CallsAreKept) |
| | HoldsNeedAField | HoldsAreCurrent, in every behaviour in which no field opens over a timed press (OpensOverNoHold) |
| | ReturnsAreSeen | ReturnIsSeen, where no activity calls update() itself (`~Repolls`) |
| `PagePresentProofs` | TypeCorrect, GlassTrailsItsPage, FlipsAreQueued, GlassOnlyMovesOn | the safety properties of the run |
| | GlassAtRestIsCurrent | with nothing owed the glass is the last picture, polarity and placement (GlassIsCurrent) |
| | FlashNeedsARace | FlashOnlyAfterDeadline, in every behaviour without the two races it names |
| `WebSocketsServerProofs` | SocketsTyped | the types, for any number of connections and client numbers |
| | NumbersLive, MessagesAreWhole, CloseIsQuiet | EventsAlternate, MessagesWhole, ClosedIsQuiet of the server alone (`WsSpec`) |
| | CloseComesBack | no client keeps close() waiting (CloseIsNotKept) |
| `FileTransferProofs` | TransferKeepsWebInv | the inductive invariant of the HTTP server, inside the whole transfer |
| | HandlerOwnsItsRequest, EveryUploadEnds | DispatchOwnsRequest and UploadsEnd, for any number of connections and pieces, where each transfer begins a new server (`~BeginsAgain`) |
| | DocumentsTyped, OpensTheGiven, HeldStaysHeld | types, OpensWhatWasGiven and HeldIsKept of the documents alone (`DocSpec`) |
| | TransferTyped | the types of all four parts |
| | JoinsAreNotKept | no peer, and not the main thread itself, keeps stop() or close() waiting (StopIsNotKept, CloseIsNotKept) |
| | OnePassGivesItBack | without transfers, the first pass after the lease may go leaves the idle timer to the owner's preference |
| | PassesHold | while an update works every pass leaves the idle timer held, but one that applies a preference just turned off |
| `HandsFreeProofs` | HandsInvariant, HandsTyped | the inductive invariant of the readers; their types |
| | SpeechAlwaysFollows, TurnsAreAlwaysEarned | SpeechFollows and TurnsAreEarned, for any book, settings and number of moves |
| | AwaitsEnd | read aloud never waits for a page without a deadline (AwaitIsTimed) |
| `PhoneProofs` | PhoneImplementsHands, PhoneImplementsDocuments, PhoneImplementsSockets | every behaviour of the phone is one of `HandsSpec`, of `DocSpec` and of `WsSpec` |
| | PhoneJoinsAreNotKept, PhoneOnePassGivesItBack, PhoneAwaitsEnd | the same three facts, in the phone as a whole |
| | PhoneTyped, PhoneSpeechFollows, PhoneTurnsAreEarned, PhoneHandlerOwns, PhoneUploadsEnd, PhoneNumbersLive, PhoneMessagesAreWhole, PhoneCloseIsQuiet, PhoneOpensTheGiven, PhoneKeepsTheHeld | all the safety properties of the run, in the phone as a whole (PhoneHandlerOwns and PhoneUploadsEnd under `~BeginsAgain`) |

**HttpStream.** `BytesInOrder` is not inductive alone: that a chunk continues the
numbering needs the buffer's content tied to `received`, and the unread part to
`got`. The invariant adds the program-point facts (what a parked thread waits for,
what `pp = "over"` says about `done`) and that an error recorded is the transport's.
`AppendBytes` and `ReadNext` are the lemmas on sequences: whatever push() decides to
keep, the buffer is the unread bytes with the chunk behind. `HonestEnd` is stated for
builds without the curl subprocess, the one transport for which finding 1 holds;
`OnlySubprocessLies` says the same stream by stream, in any build.
`NobodyIsStranded` goes beyond Wakeups: a thread that sleeps with nothing to wake
for still has a partner, awake, whose own way leads to the notify. It needs that a
reader that is done has marked the stream (`GaveUp`).

**SimRtos.** The core is that an owner is a thread really inside, at a depth that is
the count unless the take is stale, and that a sleeping thread's predicate is false.
The second needs that a mutex with count 0 has no owner, so that a release or last
give, the only steps that make the predicate true, are exactly those that wake.
`OneThread` needs `registry[taskName[w]] = w` for every live `w`, hence
`~DeletesRunning`.

`LocksAreRevocable` says how wide finding 2 is. The comment's mutual exclusion is false;
what is true for any threads, mutexes, depth of nesting and moments of rebooting is
that a take lets a thread in only when all who are inside are strays. The step that
carries it is a give: a stray's late give frees nothing, and the last give of an owner
leaves only strays behind.

**ButtonInput.** The invariant is built in layers, each closed under the steps on its
own. `Typed` adds to the types that the queue and the taps under way fit their button
(`TapsFit`). `LevelInv` adds that no tap is fired and unfinished while the device
sleeps, since nothing in the sleep loop would finish it. `AskedInv` says that
every press in the queue of events was asked for by a hand, `CallInv` that in the sleep
loop an edge means somebody pressed and a queued tap that somebody tapped, which is
what makes a wake a called one. `ReturnInv` is the one that relates three places of the
same key: where Return is down, what of it is still in the queue, and the field as it
was when its DOWN was routed. `KeptInv` follows each call from the finger to the three
places the sleep loop looks at, and needs `CallInv`'s counterpart awake: nobody has
called. `SeenInv`, for `ReturnsAreSeen`, says that a return the firmware does not know
of is in the latch or in a flag of the very frame whose check is still to come; only a
second update() in a frame breaks it, so finding 4 has that cause alone.
`TimesInv`, for `HoldsNeedAField`, reuses the tracking of Return: in an open field the
only key with a running press time is a Return that was claimed and is still down as
polled, so an UP taken as text never finds a time to leave behind. Its hypothesis is
about the firmware, and nothing in `HalGPIO` enforces it: finding 3 is real.

**PagePresent.** `PlacementFollowsPage` looks at the glass only; the insets go through
staged, live, placed, frame. The invariant says of each how far it may be ahead of
the pictures at its place: live insets are those of the picture being written or
older, `placed` is at most `live`, and a popup is younger than every committed inset.
`NoOldPictureComesBack` orders the whole pipeline by `Age`: glass, then frame,
pixels, what is being written, the base, the drawing. The step that makes this hard
is the reconvert, which writes an unlocked base while the render task snapshots the
next: the base is replaced before its picture is written, so it is never older.
`FlipIsQueued` adds what a reconvert in progress has read.

`NothingIsForgotten` is the invariant behind the three liveness properties: a picture
newer than the glass is owed, in flight or being written by somebody who will owe it; a
polarity other than the picture's has its flip on the way; insets the placement lacks
wait for a poll. So the glass at rest is current, and what TLC adds is that rest
comes. `FlashNeedsARace` takes finding 5 apart: if no clearing store wipes a newer
deadline (`ClearsWhatItRead`) and no reconvert finds the planes gone that it chose to
compose from (`ComposesWhatItSaw`), FlashOnlyAfterDeadline holds (`BitsAreHeld`). TLC
finds it violated when either hypothesis is left out, and each is violated by the code.
The property speaks of the moment of the upload, under the lock: a hold that is armed
after it does not make a frame that left in time a flash.

**FileTransfer.** A handler's ownership of its request rests on the hand-off being
strict: `HandOff` says for each place of main and of the worker what the three
dispatch flags can be, so that a request is pending only when its worker is parked
and the flag `done` is always the answer to the request parked last. It is true of a
server that was never stopped before, so it and `Told`, and the two theorems, assume
`~BeginsAgain`; the other conjuncts of `WebInv` and `JoinsAreNotKept` do not. `OneOpen` says
that only the worker's own `client` can have an open socket, `WorkerLife` ties the
worker's life to stop()'s progress, and `Told` says what the upload handler has heard
at each place, and that only a running multipart handler can be between START and END
once the body is in. The proof is about `WebServer` alone, one lemma per conjunct and one
step per action; `TransferStep` shows that every step of the whole transfer is a step
of the server or leaves it alone, which carries it over. `AwakeTypesHold` does the
same for the idle timer, and the two sections below for the other parts.

A join on the main thread comes back only if the thread that is joined waits for nobody
else. `StopReaches` says so of stop(), step by step: a worker past its second look at
`active` has published its connection, so stop() finds it, holds it and cuts it; one
that has not looked again will find the flag down; one that is parked is abandoned,
which also frees a stop() that runs inside the very handler the worker waits for.
`CutReaches` does it for close(): until the snapshot of `clientFds()` every reader is
under its number, and after it nobody begins to read. Of connections that still shake
hands it says nothing, and nothing is true: their own limits (5 s, 32 kB) end them.

`OnePassGivesItBack` rests on `TimerIsAccounted`: when the lease has let go and nothing
waits to be applied again, the timer shows the preference applied last. It holds while
no hop is sent, and so without transfers; with them it is false (section 6).
`PassesHold` needs no such hypothesis: a pass asserts the timer again whatever it
finds. It rests on `AppliedAwake`, that only the sleep loop, which does not apply the
preference, leaves the flag up that would make it apply over the lease.

**Documents.** `JobInv` says of the file main is working on that it is short only
between the first byte and the last, and whole when the job is done with it;
`RequestInv` that the copy a request names is on the card and whole, and that a drop
is not marked imported without such a request. OpensWhatWasGiven follows, wherever a
kill falls: a request is made only after the copy it names is complete.

**WebSocketsServer.** That a number stands for one connection at a time needs two
facts. One is about counting: at most `WsNums` clients are alive (`FewAlive`), so that
the search for a free number finds one. The other is about order: `AlternateInv` ties the event last told of a number, or last in the
queue for it, to whether its client is alive. `MessageInv` says that the message put
together so far is a part of what was on the wire; `QuietInv` that what close() has
undone stays undone, and that each client stands under its own number.

**HandsFree.** `SpeechFollows` is three facts: one voice, of the held page, under the
right category. None is inductive: a callback that is on its way could end the wrong
utterance. The invariant `Good` says the engine holds nothing, or exactly one
utterance of the current serial while no event of that serial is under way; so every
event that the serial filter lets through is about an engine that has fallen silent,
and every start happens over silence. It is stated of a record, not of the variables:
the operators of `ReadAloud` map states to states, each has a lemma that it keeps
`Good`, and the frame is their composition. The category needs that the rocker
borrows only while read aloud does not hold, and that `setCategory` succeeds, which
is assumed: `CrossPointReadAloud.mm:161-166` logs a failure and goes on.

`TurnsAreEarned` is about the past, so its invariant (`EarnInv`) carries what a turn
will be earned by until it is asked for. `Due` says of read aloud that while it is
live the core has a page, that a report of the current utterance's end under way means
that its page was heard out or had no words, and that the core has counted no more
blank pages than the reader skipped. `SpeedGood` says of speed read that it has asked
for a turn only while it awaits one, so that it asks for each once. Each operator has a lemma that it keeps them and that
it asks for nothing it has not earned (`GainsNothing`, `Earned`).

`AwaitsEnd` is about the one state in which read aloud is deaf to taps. Its deadline is
taken down by a page that arrives and by a reboot, and put up by every turn; the order
inside `PageArrived`, down before the core decides, is what the lemma `PageKeepsTimed`
turns on: a blank page asks for the next turn within the same call.

**Phone.** `PhoneImplementsHands` is a refinement by inclusion of variables: each step
is one of `HandsFree`'s, or leaves its variables alone. A restart step is the place
where that is not by projection: `RebootStep` of the transfers must come with
`HandsReboot` and `Kill` with `HandsRelaunch`. The transfer's
parts come over the same way (`TransferStep`), so that each component's theorems hold
of the app.

Model-checked only: liveness, since fairness and ENABLED are beyond the prover. For
most of it the safety half is a theorem, and only the scheduler's half is left to
TLC: NobodyIsStranded for CallsReturn and AbortEndsTransfer, Wakeups for
FreeLocksAreTaken and NotifiedTasksRun, EveryCallIsKept for CallsWake,
GlassAtRestIsCurrent for FramesLand, FlipsLand and PlacementLands, JoinsAreNotKept for
MainComesBack, OnePassGivesItBack for OwnerGetsItBack, PassesHold for
UpdateStaysAwake, AwaitsEnd for AudioIsGivenBack. All the safety properties of the passing runs are
proved, and so are the properties of findings 1, 3, 4 and 5 outside the cause that
each finding names (OnlySubprocessLies, HoldsNeedAField, ReturnsAreSeen,
FlashNeedsARace); LocksAreRevocable says what is left of the exclusion of finding 2.
The operators that `HandsFree` and `WebSocketsServer` are built from work on records
and sequences of any length; none is recursive.

## 6. Findings: where code and comment part

Runs that TLC finds violated:

1. **A cut transfer that reads as complete** (`http_complete`).
   `SimHttpStream.h:169` finishes with 0 whenever the fetch said ok, and a curl
   subprocess cut off in mid-body with a status is ok, its length set to what
   arrived. `:126-127` "Every byte arrived, none is left unread, the transport ended
   cleanly".
2. **The reboot releases locks under live stacks** (`rtos_exclusion`).
   `SimulatorLifecycle.cpp:115`. The comment says the threads "are being abandoned
   with their stacks anyway". Of main that is so, and what main held is not counted
   from the moment the reboot begins (`Abandoned`); the render task is not abandoned,
   `task.h:48-53` hands it back, and after the jump main takes the RenderLock beside it.
3. **A stale press time** (`buttons_holds`). `HalGPIO.cpp:1178` swallows a key's UP
   while a field is open without clearing its press time, which `:1220-1222` says is
   what keeps a later level read from reporting an old hold. It takes a field that opens
   over the held key (`HoldsNeedAField`).
4. **A return that the inactivity check does not see** (`buttons_resume`). An
   activity's own `update()` consumes the latch and `beginFrame()` wipes it;
   `HalGPIO.cpp:1102-1103` "Latched here so the same loop() that would have slept sees
   activity instead". It has no other cause (`ReturnsAreSeen`).
5. **A flash through the hold** (`page_flash`). `HalDisplay.cpp:3405` clears a passed
   deadline by a store after a load; the hold that a page's 1-bit pass arms in between
   is wiped, and the pass is presented before that hold has run at all, which
   `:872-873` says never happens. (That a hold which ran out presents is `:874-876`,
   and so no violation: a plane strip that extends a hold does not start it anew.) The
   only other way there
   (`FlashNeedsARace`) is a reconvert that chose to compose (`:1268`) and whose planes
   a snapshot or the clean-up takes before it does.

Met while modelling, reproducible in the modules but without a run:

- `SimHttpStream.h:62` caps the unread bytes, not the buffer, so a slow card can cost
  nearly two caps and a chunk; `:20-22` "costs at most that much memory".
  `BufferBounded` states the bound that holds.
- `SimHttpStream.h:108` accepts on a status or a byte; over NSURLSession the old fetch
  refused any transfer that ended in an error. `:103-105` "open() fails exactly when
  it used to".
- `task.h:60-64`: a task that returned stays in the registry, so a create hands back a
  dead handle; `:25` "Registry of live tasks by name".
- `task.h:86` decrements where `:80` says "clear-on-exit".
- `task.h:122` detaches a running task and frees its name, against `:25` "a task is
  created at most once per name".
- `HalGPIO.cpp:397`: after an in-process reboot the lift of a finger is a release with
  no press in the new boot; `:389` "Input state does not survive a reboot". And
  `simulatorSleepRequested` (`:102`) is no registrar's.
- `HalGPIO.cpp:1343`: a field edge under a held Return sends its UP the other way than
  its DOWN; `:1147-1149` "latched, so the matching UP goes the same way".
- `HalGPIO.cpp:1068`: two queued taps of one button share its level and its press
  edge; `HalGPIO.h:359-360` promises each "a full synthetic button tap".
- `HalDisplay.cpp:4164` asks the stamp after the upload, so the decay can belong to a
  page painted later; `:4157-4158` "the decay belongs to the painted one".
- `HalDisplay.cpp:3618`: a flip serviced before the first present of a new page takes
  the page's sweep away; `:3581-3582` "No new picture came IN".
- `CrossPointIOSShim.cpp:2138`: a present pumped before the next inset poll shows the
  new page at the old placement; `ReaderInsetsChannel.h:126-128` "land on one present".
- `HalDisplay.cpp:5228`: the clean-up drops the gray planes, so a later flip shows
  the 1-bit page; `:1256-1259` "the reconversion keeps the AA gray levels".
- `WebServer.cpp:694` (`emitRawEvent`) and the abort of a multipart form call upload
  handlers on the worker; `:328-331` "nothing in a route handler runs on the worker
  thread".
- `WebServer.cpp:961`: the descriptor stop() takes can be closed by the worker, and
  handed out again, before the shutdown; `:318-319` "a reused descriptor is never
  shut down by mistake".
- `WebServer.cpp:948` raises `dispatchAbandoned` and nothing takes it down, so a server
  begun again after stop() (allowed by `:516`) closes every request under its handler;
  `:328-331` "parks the request here, and waits".
- `WebServer.cpp:823-846`: a multipart handler that throws or restarts between START
  and END hears no more of its upload, though its connection is closed; the raw and the
  cut-short paths do tell it.
- `WebServer.cpp:912-914` says a parked worker is "orphaned by the reboot either way";
  the registrar at `:469-485` stops the server and joins it.
- `WebServer.cpp:539`: the idle timer a transfer holds is lost when the preference
  flips or an update's lease is given back; `:549-551`. And stop() leaves the timer
  enabled, whatever the preference, until the preference changes: `OwnerGetsItBack`
  leaves transfers out for that reason.
- `WebSocketsServer.cpp` has no reset hook: after a reboot its threads and its port
  live on (`Orphan`). Its close() is bounded for a silent peer only: a handshake may
  dribble 32 kB at one byte per five seconds. A send looks its descriptor up and then
  writes without the lock, and close() frees numbers before their threads have ended.
- `CrossPointBookImport.mm:239`: a kill in mid-copy leaves part of a book under its name;
  `:151` "never leave a truncated book on the card".
- `SimulatorDocumentOpen.cpp:182`: a drop whose import failed is staged raw, over a
  namesake; `CrossPointBookImport.mm:23-24` "rather than being overwritten". It is the
  exception HeldIsKept names. Staging a book that is already on the card onto itself
  destroys it when the write is short; `SimulatorDocumentOpen.cpp:118-121`.
- `SimulatorDocumentOpen.cpp:269`: what the sweep imports is opened on the next pass,
  also a leftover of an import that failed in an earlier launch;
  `CrossPointBookImport.mm:18` "never auto-open". After a launch with a document,
  opening it again once from outside is swallowed (`:273-279`). A namesake of equal
  size is taken for the same book, and its original in the Inbox deleted.
- `ReadAloudCore.cpp` ignores pages while it is off, so after it is turned on, or after
  a reboot (which does not clear the core's page), `pageText_` is an older page than
  the adapter's. A tap then speaks from an offset of another page;
  `CrossPointReadAloud.mm:250-251` reckons with an offset beyond the page only.
  `VoiceReadsItsPage` leaves such an utterance out (`known`).
- `ReadAloudCore.h:52-54`: a pause between the engine's finish and its handling leaves
  the core Paused, later Speaking, with nothing to say; so do the early returns of
  `startUtterance`.
- After a reboot a magic tap at Home leaves the core Speaking in silence, and the page
  it had, published again, is taken for the one being spoken and never is.
- `ReadAloudChannel.h:79-84`: the render task survives the reboot and can publish the
  old boot's page after the reset.
- `SpeedRead.h:28-30`: two blank pages in a row are the same page to speed read, so it
  ends there. While read aloud is enabled but stopped by a tap, speed read leaves every
  turn to it and shows the end. `simspeedread::State` has no reset hook.
- A blank page that is drawn again before its turn shows is turned twice.
- An interruption by the phone leaves `g_sessionActive` up. A failed `setActive:NO` of
  the rocker (`CrossPointVolumeButtons.mm:205-214`) is not tried again. A device that
  falls asleep goes on speaking: no frame runs in the sleep loop.

## 7. Not modelled

Colour, paper and phosphor texture (real-valued pixel arithmetic without state), the
e-ink waveform, the tube's animations, layout and geometry of the pad, overlays and
dials, the wording of logs, vendored code, the Arduino type shims, start-up options,
and the answers of WiFi and discovery: most of the lines, and no
control that a model checker could get wrong. The sheet's leaves pair pages by a pure
function. The host keyboard's writers and its poll run on the main thread, and when
UIKit and SDL report it hidden cannot be told from the repository: a model would check
its own guess. Touch and the Home key are decided by arithmetic on positions and
times that the repository tests; storage and the reading record are sequential calls
behind one lock. `PROJECT.json` gives the reason for each part.
