# fh5-telemetry: formal models

TLA+ models of the Forza telemetry relay in this repository: a Go server that takes the game's UDP packets and
relays them to browsers over WebSockets, and the browser code that turns them into a dash and a telemetry
screen. The models are checked with TLC on small instances; all of the safety properties that hold are also proved
with TLAPS for every value of the constants. `PROJECT.json` lists the components, the runs, a seeded bug for
every property (the definitions marked `Bug:` in the modules), the source lines of each definition, the
hazards, the findings and the theorems.

    tlc -workers 2 -config Socket.cfg MCSocket.tla      # model-check one run
    tlapm SocketProofs.tla                              # check the proofs of one module

## 1. The system

### 1.1 Parts, state, operations

| Part | State | Operations | Module |
|---|---|---|---|
| UDP reader and forwarder (`udp.go`) | one receive buffer | read a datagram, forward it, pass on sizes 232 to 4096 | `Hub` |
| Hub (`hub.go`) | client map, client count, a channel of `clientBuffer` frames per client, `mu` (RWMutex) | `packet`, `runStatus`, `broadcast`, `add`, `remove`, `serveWS`, `putStyle` | `Hub` |
| Packet statistics (`hub.go:104-164`) | counters under `statMu` | count a packet, make a status frame | not modelled (section 7) |
| Style store (`styles.go`) | map CarOrdinal to style, mutex, `car-styles.json`, `.tmp` | `loadStyles`, `set`, `save`, `snapshot` | `StyleStore` |
| Start-up and shutdown (`main.go`) | contexts, HTTP server | signal, `Shutdown`, `waitClients` | `Shutdown` (start-up: not modelled) |
| Browser socket (`socket.js`) | `ws`, back-off, retry timer, last message | connect, drop, retry, watchdog, visibilitychange | `Socket` |
| Page (`main.js`) | `state`, `lastCar`, banner and dot | `onState`, `onText`, `onBinary`, `frame`, a pick | `Page` |
| Shared styles (`main.js`, `settings.js`, `hub.go`) | a map on the server, one on every page, requests and frames between them | pick, PUT, push, greet | `SharedStyles` |
| History (`history.js`) | ring buffers, slip holds, next sample time, trail | `recordHistory` for each packet | `Ring`, `History` |
| Charts (`telemetry/charts.js`) | none of their own | `windowStart`, the traces, the G-G trail's chunks | `Charts` |
| Packet parser (`forza.js`) | one reused object | `parse` by size | `Forza` |
| Telemetry screen (`telemetry/index.js`) | panels, rows, what each last showed, chart keys, session peaks | hide, refresh, redraw, count peaks, reset | `Screen` |
| Control bar, routing, wake lock (`main.js`) | route, bar timer, wake lock | show and hide, request, release | `Controls` |
| Dash framework (`dash/index.js`, `dash/common.js`) | layout, cached layers and their key, view | resize, measure, update the view, draw the layers | `RpmScale`, `Dash` |
| Dash styles (`dash/porsche.js` and five more) | the Ford style's gradient | draw a layout and a view | `DashStyles`, `FordTape` |
| The dash on its page (`main.js`) | all of the three above | `frame` | `Display` |
| Units, settings, synthetic sender, assets | | formatting, storage, test traffic | not modelled (section 7) |

### 1.2 How they interact

Datagrams go `runUDP -> hub.packet -> hub.broadcast -> client channel -> serveWS -> socket.js -> main.js
onBinary -> parse, recordHistory`; the screens read `t` and the history from animation frames. Once a second
`runStatus` broadcasts a status frame in the same way. A style picked in a page is a PUT; `putStyle` edits and
saves the map through the store and then broadcasts the whole map, which `onText` takes for the page's own. A
new WebSocket client gets the map as its first frame.

On the server the parts run as goroutines: the UDP reader, the status ticker, one per WebSocket client, one
per HTTP request, `main`. They share the client map (`h.mu`), the channels and the store (its mutex). A page
has one thread; its steps are callbacks (socket events, timers, animation frames, user events) in any order.

### 1.3 What is hard, and what is to hold

* **Style store.** A crash, a full disk or a failed call in the middle of a save; two saves at once. *The file
  is never torn; it is current whenever the last save succeeded; the store is a durable map; a PUT is always
  answered; the limit holds.*
* **Hub.** Broadcasts, registrations and removals interleave; clients sleep, vanish, have full channels; one
  buffer is reused for every datagram. *No map is written while it is read; each browser gets the map first,
  then packets in order, whole and at most once; a change reaches each client or was dropped for a known
  reason; nobody's sleep blocks the others; dead clients are removed.*
* **Shutdown.** Two waits under one limit, and handlers at any of their lines. *Before the limit no PUT is cut
  off, and no WebSocket handler but one in the window before it is counted; the process ends.*
* **Socket.** Timer, watchdog and visibilitychange all reconnect; close events come late; the server vanishes
  without a word. *One wired socket or one timer; an honest flag; bounded silence; connection in the end.*
* **Page and shared styles.** Maps, packets, picks, opens and closes in any order; verdicts of the last
  animation frame used later. *The style follows the car; a dot is never of the wrong colour while there is a
  notice, nor later; a pick is saved only on fresh telemetry; pages agree with the server.*
* **History and charts.** Packets in bursts and after gaps; rings that wrap. *At most 60 Hz, no slip peak
  lost, a full ring reaches back far enough, the window is exact, the trail is drawn once.*
* **Telemetry screen.** One object that keeps what older formats left in it; rows that are hidden for a while;
  meters and charts that are not redrawn for small or no changes. *What is on display is the newest packet's; no
  meter drifts; a drawn chart is current but for a late sample (section 6); no peak of a section that never came.*
* **Controls.** A timer, taps, links and the system's own word on the wake lock in any order. *The bar can
  always be had; one lock or one request, and the page knows of it; no screen goes dark unasked.*
* **Dash.** Layers that are kept under a key; a window that changes while nothing can be measured; cars that
  change while nothing is drawn. *The canvas is what it would be drawn from nothing; the power peak is the
  car's own as long as its packets say their power; the rpm scale can be read.*

## 2. Modules

`MC*.tla` give constants their values; `*Proofs.tla` hold the proofs. A definition's comment names the code
where its name does not. Comments `Bug:` mark the seeded bugs.

### `StyleStore` (implements `DurableMap`)

`mem`, `mu`, `file`, `tmp` are `styleStore.m`, `.mu` and the two files. `pc[h]` is the line of `set`/`save`
at which the PUT handler `h` is; `req` is what it was asked for, `doc` the bytes it marshalled. `Request`
is the checks before the lock, `Refuse` the full map, `Edit` the edit and `json.Marshal`, both under the mutex;
`MkdirAll`, `Create`, `Fill` and `Rename` are the system calls of `save` (`os.WriteFile` truncates, then
fills), each of which may fail: then `set` logs, unlocks and still reports success, and `saveErr` records it.
`Restart` is a kill at any point and `loadStyles`, with a file that can be read or not. A map is a total
function into styles and `NoStyle`; the JSON text of a map is the map. The texts of `{car}` are kept apart from
the numbers they parse to: `7` and `007` name one car. `DurableMap` knows only the map and its saved copy.

### `Hub` (implements `Fanout`)

Goroutines are `Udp`, `Status` and the PUT handlers, which broadcast, and one handler per connection. `pc` and
`hpc` say where each is; `msg` and `todo` are the frame a broadcast carries and the clients its `range` has yet
to visit; a read lock is held from `Lock` to `Unlock` (one `Send` per client in between, in any order), and
`Add` and `Remove`, which take the write lock, need `Readers = {}`. `Send` appends to the channel or drops the
frame if it is full. `Read` is the reader's loop: `buf` is overwritten in place, sizes outside 232..4096 go no
further. `Relay` is `packet` without its statistics: nothing is copied when nobody is connected. `SetStyle`,
`Snapshot`, `Lock`/`Send`/`Unlock`, `Answer` are `putStyle`; `Accept`, `FirstFrame`, `Add`, `Take`, `Write`,
`WriteFails`, `Done`, `Remove` are `serveWS`. `Peer` is the device: it reads, sleeps or goes away; a device
that vanishes without closing is one that sleeps for good. Packets are numbered in order of arrival and maps by
version, so `Fanout` can say in one line what a browser may see; it counts the packets shown, for else a packet
shown twice could not be told from one shown once. `queued` and `missed` are history: the newest
map put in a channel, and why one was not.

### `Shutdown`

`main` goes through serving, shutting (`srv.Shutdown`), waiting (`waitClients`), leaving and exited; `late` is
`shutCtx`. `put` and `ws` say where in `putStyle` and `serveWS` each handler is. A handler is tracked by
`http.Server` until `websocket.Accept` takes its connection over or refuses it, and counted from `add` to
`remove`; between the two nobody waits for it (the comment at `hub.go:214` promises no more). `WaitReturns` is
the last look at the counter (`hub.go:216`) and `Exit` the end of `main()`: handlers go on in between, and one may
add itself there. `between` is history: the handlers between `Accept` and `add` at that last look, which are the
only ones `NoClientCutOff` excepts; `Active` are all that are anywhere in `serveWS`.

### `Socket`

A WebSocket object is a record of its ready state and of whether its handlers are set: `drop()` unsets them and
closes it, and its close event is still to come. `alive` are the sockets whose server end is there. Time is
counted in half seconds; `retry`, `watch` and `silence` are the retry timer, the watchdog's interval and the
time since `lastMessage`. Retry delays are the real ones: 0.5 s doubled up to 5 s, with a jitter of a fifth
either way applied after the cap, so up to 6 s. While the page is visible its timers fire on time; when it is
hidden they may be late or frozen.

### `Ring`, `History` (implements `Sampling`), `Charts`

`Ring` is the ring buffer with its index arithmetic. `History` is `recordHistory`: `Sample` or `Skip` by
`nextSampleAt`, then `Mark` the trail. `time` and `slip` stand for all the rings, which are pushed together;
only slips are held. Times are in halves of `SAMPLE_MS` since the cadence is computed with one half of it.
`Sampling` says what the ring holds without any index: the last `SAMPLES` samples, each with the highest slip
since the one before. `Charts` has `windowStart`, what a trace goes through and the
chunks of the G-G trail as functions of the rings.

### `Page`

The callbacks of `main.js`: `OnState`, `OnStyles` (`onText`), `OnPacket` and `OnBadPacket` (`onBinary`, for a
packet that parses and one of an unknown size), `Pick` (the select's change), `Frame` (`updateBanner`).
`valid` is as of the last animation frame, `dot` is touched only when the notice changes. `judged` is history:
that has happened since the grace was over. Before it `DotIsHonest` asks nothing of a page without a notice. Time is in half
seconds, with at least one animation frame in each: a page without frames is hidden and cannot be tapped.

### `SharedStyles`

All the pages and the server: `Pick` changes the page's own map and sends a PUT, a request of its own that may
overtake another or be lost; `Save`, `Marshal`, `Cast` are `putStyle`'s three steps; `Connect` and `Register`
are the greeting and `h.add`; `Hear` is `onText`; `Drop` and `Reload` lose what was under way. Channels are
long enough here (`Hub` has the full ones). `strayed`, `missed` and `overlapped` are history.

### `Forza`, `Screen`

`Forza` is the one object `t`: a packet is its size and one value for all its fields, and `Parse` writes the
sections its layout has and leaves the others alone. `Screen` has the panels as sets of rows: rows of a panel
that read the same section under the same condition, with or without a meter, are one. `Refresh` is the DOM part
of `frame`: hide what the format lacks, then `updateRow` for the rest, whose meters remember a value only when
they draw it. `Redraw` is the chart part; a chart's `key` is its look (size and units) and whether the packet in
it is the last to come, its `picture` is what it was drawn from. `OnBinary` parses a packet into `t` and counts its peaks; `Heard` is what it
does to a chart: a new time of arrival or the same as before (`again`), and a sample in the rings or none.
`instant` says what came at that time: only the first good packet of an instant can be sampled, and it is late if
one of an unknown size was there before it, since that one is in the key. `Screen`'s initial states, steps and
specification are `ScreenInit`, `ScreenNext` and `ScreenSpec`, since one module of proofs extends it and `Display`. The throttles of 66 and 33 ms only say when a part runs.

### `Controls`, `RpmScale`, `DashStyles`, `Dash`, `Display`

`Controls` counts the timers, the requests for the wake lock that the system has not answered and the locks it
holds, to compare them with what the page knows. `Dash` is the framework: `Measure`, `UpdateView`, the layout and
the two kept layers, all in `Frame`; a layer is a layout and the fields of the view that the style reads when it
draws it. `DashStyles` lists those fields for each style, read off its `drawStatic` and `drawGlass`; `RpmScale`
is `rpmScale` in whole numbers. A packet without a dash section has no power and leaves the last one in `tel`, which the power meter reads all
the same. Of the view `Dash` keeps what outlives a frame: units, rpm, scale, car, power peak, and `left`, which is
history: the peak was taken from such a packet; what is eased is drawn anew in every frame and goes into no layer. `Display` puts the two on one page:
frames are drawn only while the dash is the screen on show and the page is in front.

### `FordTape`

The one cache of a style's own: the gradient of the Ford rpm tape, with its key, over the window's width and the
scale. Lengths are in thousandths of a virtual pixel.

## 3. Runs and bounds

| Run | Instance | Asks |
|---|---|---|
| `styles` | 2 handlers, 2 cars spelled 3 ways, 2 styles, limit 1 | all of `StyleStore`'s properties, every call failing, kills anywhere |
| `hub` | 1 connection, 1 PUT, 2 datagrams of 4 sizes, channel of 2 | `NoMapRace`, `AnsweredMeansQueued`, `Fanout`, liveness of broadcasts and of removal |
| `hub_missed_map` | 1 connection, 1 PUT | violated, finding 1 |
| `hub_old_map_last` | 1 connection, 2 PUTs | violated, finding 2 |
| `shutdown` | 2 PUTs, 2 clients | both cut-off properties, the process ends |
| `socket` | 3 socket objects, the code's delays in half seconds | all of `Socket`'s properties |
| `history` | a ring of 4 samples, a clock of 9 half samples, trail of 2, 3 chunks | `History`'s and `Charts`' properties |
| `shared_styles` | 2 browsers, 1 car, 2 styles, 2 picks | `Agreed`, `Settles` |
| `page` | 2 cars, 2 styles, delays in half seconds | `Page`'s properties |
| `screen` | 2 formats and an unknown size, in one instant or in many, 2 values, 2 looks and none | `Screen`'s properties |
| `dash` | 6 styles, 2 windows and none, 4 packets: 2 fast cars, one of them also without a dash section, and a menu | `Dash`'s and `Controls`' properties |
| `ford_tape` | 3 widths, 2 engines | violated, finding 3 |

Why the bounds are enough to show something:

* `styles`: two handlers are enough for every overlap of two saves (a third waits at the same mutex). With two
  cars and a limit of one the map is empty, full and overfull-if-wrong.
* `hub`: two datagrams are needed for order and for a reused buffer; a channel of two is full after the first
  frame and one packet; sizes 231, 232, 4096 and 4097 are both sides of each end of the filter. The reader, the
  ticker and a PUT broadcast at the same time. The bound on versions ends only the edits: status frames go on for
  ever. Two PUTs overlap in `hub_old_map_last`; any number of connections and of PUTs is what the theorems of
  section 5 are about, which state all three of the run's safety properties.
* `socket`: three objects are the current one, a dropped one and one more that is made before the dropped one
  has closed. Only a fourth at once is left out: a new connection then waits until one of two dropped sockets
  has closed. The theorems of section 5 are for any number.
* `history`: a ring of four wraps within the clock's horizon, and gaps of any length up to two rings occur.
  The trail has fewer samples than chunks, as many, and more.
* `page`: the clock stops one unit after the longest delay that any test looks at.
* `shared_styles`: with two picks one page's request overtakes its own and another's.
* `screen`: the formats differ in the dash section and in tire wear, so a row is shown, hidden and shown again
  with an older packet's value in the object; values half a step apart creep, and a whole step apart do not.
  Any number of packets of any size come in one instant.
* `dash`: the two cars' scales, of 19800 and 20000 rpm, end at the same number and differ in the redline only, and
  the units change neither: each part of the layers' key is needed. The menu packet has no engine. The packet
  without a dash section is of the second car, so it may come after any power of either. One window is smaller than
  the other, and none is the hidden canvas. The run has scales on both sides of `rpmScale`'s step at
  10000 rpm and the last one below its step past 20000; that every other can be read is the theorem.
* `shutdown`: two clients are a counted one and one in the window before, at the same time. It has no bound other than the number of handlers; `CHECK_DEADLOCK FALSE` because the program ends.

`CHECK_DEADLOCK` is on wherever the program runs for ever; `MaxArrivals`, `MaxVersion`, `MaxPicks` and
`Horizon` are the only bounds in guards. In `Hub` the ticker and in `History`, past the horizon, further packets
keep the system going; in `SharedStyles` reloads and reconnections do.

## 4. Fairness

* `StyleStore`: system calls return and handlers are scheduled (weak); Go's mutex is starvation-free (strong
  for whoever waits). Kills may go on for ever: the answer is then "idle".
* `Hub`: goroutines run and the ticker ticks (weak); a writer that waits for the RWMutex holds back later
  readers, so it gets in (strong for `Add` and `Remove`). Writes time out (part of the weak fairness of a
  handler). Nothing is assumed of the game, of peers or of users.
* `Socket`: time passes, timers fire, a reachable server accepts and sends its status frames, a browser finishes
  closing what it was told to close. A reachable server's silence is at most `Prompt`, 1.5 s: it ticks every second.
* `SharedStyles`: a request is handled or fails, frames arrive, a page that is not connected tries again.
* `Shutdown`: `main` goes on when it can and the five seconds pass; nothing of the handlers: they may hang.
* `History`, `Charts`, `Page`, `Screen` and `Display` have safety properties only: a browser that draws no frames
  breaks no promise.

## 5. Proofs

All are checked by `tlapm` (Z3, Zenon, LS4) down to the last leaf. Each argument is an inductive invariant, one
lemma or step per action, and a temporal step at the end. The assumptions are the modules' named `ASSUME`s,
no more than names being distinct, numbers being numbers, and sets that are counted being finite.

* **`StyleStoreProofs`**: `TypeOK`, `FileNeverTorn`, `DiskIsCurrent`, `WithinLimit`, `Spec => DurableMap`.
  `FileNeverTorn` is not inductive: a rename moves whatever `.tmp` holds. `IInv` adds `MutexInv` (who is in
  `save` holds the mutex alone, so its `doc` is the map in memory and, before the rename, the temporary file
  is its own) and `RequestsValid`. The limit is a step invariant relative to `IInv`.
  Assumes `StyleNames`, `CarNames`, `FileNames`, `NobodyNames`, `MaxEntriesPositive`.
* **`HubProofs`**: `TypeOK`, `NoMapRace`, `AnsweredMeansQueued`, `Spec => Fanout`, and from the refinement
  `OnceAndAfterMaps`: no packet is shown twice or before the first map. `IInv` adds that only a
  sender has clients to visit (`LockInv`), that the reader's frame is the newest packet (`MessageInv`) and that
  each channel is in order, between the packet last shown and the newest one *already offered to that client*
  (`ChannelInv`, the crux: a client yet to be visited is one packet behind), with the map first (`FirstInv`).
  `QueueInv` follows a PUT through its visits.
  Two more theorems are the other sides of findings 1 and 2. `MapsGoForwardAlone`: if no two PUTs are ever under
  way at once (`OnePut`), `MapsNeverGoBack` holds, whatever connects, sleeps or is dropped, for then each map
  broadcast is the store's (`CastsAreNew`) and each channel's maps are in order (`MapsInv`).
  `ChangeReachesAllElse`: if no map changes while a handler is between its first frame and its registration
  (`NoneConnecting`), `ChangeReachesEveryClient` holds. So nothing else is needed for the two findings than
  what they name. Both hypotheses are about schedules, and are met by every run with one PUT at a time and by
  every run without one while a client connects.
* **`SocketProofs`**: `TypeOK`, `OneVoice`, `SocketOrTimer`, `OpenIsHonest`, `SilenceBounded`. `SilenceBounded`
  needs `Patience`: a visible page's silence leaves room for the next look of the watchdog.
* **`HistoryProofs`** (with `Charts`): pushing moves every older value down by one place (modular arithmetic of
  the ring). `TypeOK`, `Paced`, `KeepsUp`, `Reaches`, `TrailSpaced`, `Spec => Sampling`. `Paced` needs
  `Cadence`, which relates every sample to `nextSampleAt`; `Reaches` is `Paced` from end to end with two samples
  of headroom (`Sizes`); `KeepsPeaks` needs `Holding`: the hold is the highest of the slips not yet shown.
  `WindowIsWhole`: `windowStart` is a recursive function, and `WindowStartStops` shows that it returns the sample
  where the loop stops: `LoopStops` by the least-number principle (`LeastNumber`, from the library's
  well-foundedness of the naturals), with no induction theorem. The samples at and after the stop are those in
  the window since times only grow (`TimesIncrease`, from `Paced`). `TrailDrawnOnce` is `TraceIsWhole` cut into
  chunks whose size is rounded up: each step falls into one chunk (`OneChunk`), and there are enough of them
  (`ChunksSuffice`). Assumes `ChartSizes`, besides `Sizes`.
* **`SharedStylesProofs`**: `TypeOK`, `Agreed`. `OneHalfway`: without overlaps one PUT at a time is between its
  edit and its cast, with the server's map. `AllInformed`: the last map on its way to a page is the server's,
  or the page already knows it but for picks not yet saved.
* **`PageProofs`**: `TypeOK`, `StyleFollowsCar`, `DotIsHonest`, `PickIsFresh`. `Coloured`: while there is a notice,
  and once one has come or gone past the grace, the notice determines the dot, which is why it may be left alone
  while the notice stays. `Recent` bounds the age
  of `valid`.
* **`ShutdownProofs`**: `TypeOK`, `NoPutCutOff`, `NoClientCutOff`. `Counted`: `nclients` is the number of
  handlers between `add` and `remove`; `Drained` and `Left` say what each wait leaves: after the second, only
  handlers that were in the window at its end, wherever they are now.
* **`DisplayProofs`**: `CanvasIsCurrent`, `ScaleIsReadable`, `PeakIsOfCar`, `BarComesAndGoes`, `OneWakeLock`,
  `AwakeOrRefused`. The crux of the first is `KeyTellsFields`: two views with the same key agree on every field
  that any layer may read, since the units follow from `metric` and, by `TopTellsMajor`, the scale's steps from
  its end; so layers kept under a key are the layers drawn anew (`KeyTellsLayers`). It holds for any choice of
  the styles, whose lists of fields only have to be among those. `ScaleReadable` is arithmetic by cases on the
  scale's step. `DashInv` carries both through the frames. In it `TelOK`
  says that the power in the telemetry object was some packet's, and one of the same car's if the last packet has a
  dash section; `PeakInv` says the same of the peak; `BarInv` and `WakeInv` list the states
  the bar and the wake lock can be in. Assumes `StylesAreStyles`, `WindowsAreWindows`, `PacketsAreNumbers` and
  `EnginesAreReal`: above 54750 rpm a scale would have more than eleven numbers. `DisplayTypeCorrect` adds the
  types, and that nothing is laid out for a window without a size.
* **`DisplayProofs`**, the telemetry screen: its types, `RowsAreFresh`, `MetersDoNotDrift`, `PeaksAreEarned`,
  `ChartsAreCurrent`. `Parsed`: the telemetry object's size is that of a known format or zero, so `Has` says which
  sections are the newest packet's; each row needs the section it reads (`RowsReadWhatTheyNeed`). `MetersInStep`:
  what a meter remembers is what it shows, so a meter that is not redrawn shows a value less than a step from the
  new one, however it crept there. `DrawnAsKeyed`: a chart whose key has the last packet is drawn in the key's look,
  and has whole rings unless a sample came late. Assumes `FieldsAreNumbers`, `StepIsReal` and `LooksDiffer`.

The type invariants are proved and have no run of their own. Every invariant and action property of the passing
runs has its theorem. Model-checked only: the liveness properties (`PutAnswered`, `BroadcastEnds`,
`DeadClientLeaves`, `Reconnects`, `Settles`, `SignalEnds`), since liveness under fairness is beyond the prover, and
the three findings, which are counterexamples. No proof uses an induction theorem of the library (they take an
operator for a parameter, which the provers cannot instantiate); where a recursive function had to be unrolled,
the least counterexample does.

## 6. Findings and observations

Each finding is a run that TLC ends with a counterexample.

1. `hub_missed_map`: a map that changes between a new client's first frame (`hub.go:192`) and its registration
   (193) never reaches that client until the next change; `DESIGN.md:78` says "on connect and on every change".
2. `hub_old_map_last`: `putStyle` takes its snapshot and broadcasts it with nothing held across the two
   (`hub.go:241`), so of two overlapping PUTs the older map may be broadcast last.
3. `ford_tape`: the Ford tape's gradient is kept under a key without the arc's centre (`ford.js:191`). From a
   virtual width of 1468 up the radius is at its limit of 640 and only the centre moves, so after such a resize
   the tape is coloured off to one side until the scale changes; `ford.js:190` has it red at the redline.

Observed on the way, with no run of their own. Every pick is a request of its own (`main.js:100`), so of two
quick ones the first may be saved last and pushed to every page. `onCarChange` runs only when the ordinal differs
(`main.js:169`), so a style picked while no packets came, and not saved, stays when the same car shows up again
(`DESIGN.md:233` can be read either way; `StyleFollowsCar` excepts it by `unsaved`). The dash asks for `hasDash` only for
the gear (`dash/index.js:77`), and the input trace is shown whatever the format: after a change to a format
without a dash section both go on with the last values of the old one. A packet of an unknown size sets
`lastPacketAt` and takes no sample (`main.js:160-163`), so a good packet with the same `performance.now()` adds one
under an unchanged key: a chart drawn between the two lacks it until the next packet (`telemetry/index.js:441-442`;
`ChartsAreCurrent` excepts it by `instant`). A 232-byte packet of another car changes `carOrdinal` and leaves
`power`, so the new car's meter starts with the old car's power for its peak (`dash/index.js:97-104` says "the highest
power seen for the current car"; `PeakIsOfCar` excepts it by `left`). A page whose socket opens and hears a packet
within the grace, before a frame has shown a notice, keeps a connection dot without colour until its first notice
(`main.js:177,196`; `DotIsHonest` excepts it by `judged`). A wake-lock request that is refused after the page was
hidden and shown again leaves nothing asking until a tap, since showing it asked nothing while the request was under
way (`main.js:210`; `AwakeOrRefused` takes the late refusal for an answer). A value that is no number stays in an eased needle for good. Pages of one device overwrite
each other's stored settings. The jitter comes after the cap, so a retry may wait 6 s rather
than the 5 s of `DESIGN.md:88`. At shutdown a handler that is not yet counted when `waitClients` looks last
(`hub.go:216`) is cut off with the process, even if it adds itself before the end; it, and one in a write when its
context is cancelled, ends without its close frame. A status frame may carry a negative age, which the
telemetry screen shows as "never". `lapTime` takes the minutes off before it rounds: 59.9996 s become
"0:60.000". A read error at start leaves an empty map, and the next save replaces the file.

## 7. Not modelled

* Units: conversions and formatting of single real numbers. Settings: three values read at start and written at
  each change. Page assets, container files: no behaviour. The synthetic sender: a test tool with one thread and
  real arithmetic.
* Packet statistics: counters read and reset under one lock. Their one hazard, a tick older than the packet it
  reports on, is an observation of section 6.
* Of the dash: eased values and the sweep, which live in one frame's drawing, and the drawing itself. Of the
  telemetry screen: lamps, the rows of the server's status and of the peaks, which no format hides, and the
  position trail's fit. Fields are not told apart within a section, nor their offsets and scaling.
* Start-up, static files and the health check: configuration read once, fixed headers, one request.
* Within modelled parts: payloads of packets and of status frames, log lines, HTTP status codes beyond refused
  and done, TLS and HTTP themselves, and the UDP forwarder (it keeps no state and its errors are logged).
* The network between a browser and the server is modelled from how the code uses it (`Net`, `Peer`, `Drop`).

## 8. Plan

Built, in this order: `StyleStore`; `Hub`; `Socket`; `History`, `Charts`; `SharedStyles`; `Page`; `Shutdown`;
`Forza`, `Screen`; `Controls`, `Dash`, `Display`; `FordTape`. What could follow:

1. `Stats`: `packet`'s counters and the status frame made of them. Properties: every packet is counted in one
   frame and one only; an age is never that of a packet not counted.
2. The parser's offsets as ranges of bytes, against the sender's pack layouts.
3. `Page` and `Display` as one page: the frame that judges the telemetry and then draws with the verdict.
4. The other side of finding 3, as there is of 1 and 2: the Ford tape is current as long as the arc's radius is
   below its limit.
