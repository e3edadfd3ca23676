# SvrMnu in TLA+

SvrMnu is an OS X status-bar program. It asks for the players that are on the
servers of two games, *Waiting for Horus* (WFH) and *Hunting Anubis* (ANU),
shows them in two submenus, puts the number of the *primary* game in the status
bar and pulses a blink(1) USB light while somebody is playing. It looks like a
sequential program and is not one:

* the main thread **runs its run loop inside handlers** (`waitTillOpened` in the
  port mapper, `process_pending_events` in the HID library), so handlers nest;
* each `enableBlink` **detaches a thread** that shares `Blink1`'s ivars and the
  one global HID manager with the main thread;
* each open HID device has a **read thread** of its own, with hand-made
  barriers, a condition variable and two flags without a lock.

These are the places where a test hardly reaches; the modules are about them.

## 1. Inventory

| Component | Source | State | Operations | Hard about it | Correct when |
|---|---|---|---|---|---|
| Refresh schedule | `SvrMnuAppDelegate.m` | `refreshTimer`, queued `_refresh` selectors, `screenAsleep`, `userDeactive`, the `refreshRate` default, `lastRefresh`, `updateTimer` | `refresh`, `_refresh`, `addTimer`, `changeRefreshRate:`, `forceRefresh`, sleep/wake/session notifications, `reachabilityChanged:`, `menuWillOpen:`, `updateRefresher` | order of notifications, late timers, a rate changed in the middle of a period | refreshing never stops; the timer is where rate and `lastRefresh` put it; a skipped refresh comes back; the countdown is true |
| Server menus | `SvrMnuWFHMenu.m`, `SvrMnuANUMenu.m`, `SvrMnuMenu.m`, `setTitle:sender:` and `setPrimaryMnu:` of the delegate | `gameInfo`, `numPlayers`, `value`, the items of the submenu; `primaryMnu` and its default; the status title | `refresh`, the completion handler, `makeMenus`, `setTitle:sender:`, `setPrimaryMnu:` | `makeMenus` waits for the public address in a nested run loop: replies, refreshes and other `makeMenus` run inside it | title belongs to the primary menu; one row per server; *Refreshing* ends and the title then says what the last reply said |
| blink(1) light | `blinklib/Blink1.m`, `enableBlink` of the delegate | `serialnums`, `currentColor`, `timer` | `enumerate`, `isHere`, `off`, `setPulse`, `startPulse`, `endPulse`, `fadeToRGB` | two kinds of threads write the ivars; the lock is recursive and held across a nested run loop, in which a rebuild may wait for the port mapper | dark stays dark; the chain of pulses can be stopped; a background thread ends |
| HID device | `blinklib/hid.c` (`hid_open_path` from the thread on, `read_thread`, the callbacks, `hid_read_timeout`, `hid_close`) | `disconnected`, `shutdown_thread`, the report list, `mutex`/`condition`, two barriers | as named | thread start and stop, unplugging at any moment, lost wakeups | open means ready; no use after free; close ends; readers wake |
| HID manager, enumeration | `blinklib/hid.c` (`hid_init`, `hid_exit`, `hid_enumerate`, `hid_open`, `hid_open_path` up to the thread, `process_pending_events`) | the global `hid_mgr` | as named | a nested call's `hid_exit`; the devices are listed twice to open one | the manager is there when it is used; what is opened is a blink(1) |
| blink(1) library | `blinklib/blink1-lib.c` | cache of serials and paths, `blink1_enable_degamma` | enumerate, sort, open by serial, fade, write, close, degamma | the cache is refilled while a fade holds a pointer into it; arithmetic at the borders; a full cache | the first serial is the one that is opened; the fade time is near the one asked for |
| Port mapper | `PortMapper/PortMapper.m` | service reference, socket, address, error | `open`, `waitTillOpened`, `serviceCallback`, `portMapCallback`, `close`, `findPublicAddress` | callback and wait in one run loop, and calls nest in it | the latest word is returned and nothing is left open |
| Reachability | `Reachability/Reachability.m` | flags reference, `localWiFiRef` | `startNotifer`, `stopNotifer`, `networkStatusForFlags:` | it may notify at any moment | a notification is one more cause of a refresh |
| Start at login | `LoginMenuItem.m` | the `startAtLogin` default, the check mark, the user's list of login items | `init`, `toggleLoginItems`, `update`, `addAppAsLoginItem`, `deleteAppFromLoginItem` | a list that others change at any moment, calls that fail half way, quitting | mark and default follow the list; items of others stay |
| Application shell | `main.m`, nib, property list | none of its own | launch, quit | - | - |
| Firmware constants | `blinklib/usbconfig.h`, `hidapi.h` | none | - | - | - |

How they interact. The delegate's `_refresh` calls `refresh` of both menus; a
reply queues `makeMenus`; `makeMenus` calls the port mapper and ends with
`setTitle:sender:`, which for the primary menu sets the status title and starts
an `enableBlink` thread; that thread calls `Blink1`, which goes through
`blink1-lib.c` to `hid.c`. Workspace notifications (sleep, wake, session) set
the delegate's flags and switch the light off. USB notifications call
`enumerate`. Reachability calls `refresh`. Everything but the `enableBlink`
threads, the read threads and the HID readers is on the main thread.

## 2. Modules

| Module | Models | Checked by | Proofs |
|---|---|---|---|
| `RefreshCycle` | refresh schedule | `MCRefreshCycle` | `RefreshCycleProofs` |
| `ServerMenus` | the two menus, status title, primary menu, the wait for the address | `MCServerMenus` | `ServerMenusProofs` |
| `SvrMnuApp` | the main thread: `RefreshCycle` and `ServerMenus` on one run loop | `MCSvrMnuApp` | - |
| `AddressLookup` | abstract: what a nested `findPublicAddress` promises its caller | by `MCPortMapper` | `PortMapperProofs` |
| `PortMapper` | the mappers of nested `findPublicAddress` calls | `MCPortMapper` | `PortMapperProofs` |
| `HidDevice` | one open device, its read thread and its readers | `MCHidDevice` | `HidDeviceProofs` |
| `ReportQueue` | abstract: what the list of input reports promises its readers | - | `HidDeviceProofs` |
| `BlinkLight` | `Blink1`, `_enableBlink` threads, the recursive lock, the HID manager, nested main-thread calls | `MCBlinkLight` | `BlinkLightProofs` |
| `BlinkLibrary` | cache of serials, which device is opened, the report that is sent | `MCBlinkLibrary` | `BlinkLibraryProofs` |
| `LoginItem` | "Start at login" and the list of login items | `MCLoginItem` | `LoginItemProofs` |

`StackLemmas` holds the facts about stacks and queues that the proofs share.

How they fit: `SvrMnuApp` instantiates `RefreshCycle` and `ServerMenus` and joins them
in `_refresh`. `AddressLookup` is what a caller of the port mapper may count on;
`PortMapper` implements it (`LookupImplemented`), and `ServerMenus` has the same word
per call in its `stack`. `BlinkLight` takes a fade as two steps that find and write
*a* device; which device that is, and what is written, is `BlinkLibrary`; how an open
device's thread starts and ends is `HidDevice`.

### RefreshCycle

All handlers are on the main thread and none of them waits, so a handler is one
action; what varies is their order and the time between them. `sinceRefresh` is
`now - lastRefresh` and `timerLeft` what `refreshTimer` still has to wait, both
in half seconds, because `addTimer` uses `floor(timeSince)` and whole-second
ticks would hide the fraction it drops. `queued` counts the `_refresh`
selectors that `performSelectorOnMainThread:` left on the run loop. `AddTimer`
takes the values its caller has by then: `_refresh` calls it after it
invalidated the timer and set `lastRefresh`, and before its early return.
`Tick` lets a due timer wait, as a busy run loop or a sleeping computer does.

### ServerMenus

`stack` is the main thread's stack of `makeMenus` calls that wait in
`findPublicAddress`. `Dispatching` says when the run loop looks for work: at its base,
or inside the innermost wait while that still has no answer. `Begin` is `makeMenus` up
to the address, `Finish` the rest; `Finish` reads `gameInfo`, `numPlayers` and the
menu *as they are then*, as the code does, though the test for `nil` was made before
the wait. `SetPrimary`, `MakeNext` and `SavePrimary` split `setPrimaryMnu:` where its
loop can wait. Clicks need the run loop's base: `runMode:beforeDate:` does not take
events from the window server. `rows` counts the items of each kind in a submenu
instead of listing them. The network (`Response`) and the mDNS answer (`Answer`) pick
any outcome, errors included, and a network that changes may take an outer call's
answer away again before it was read (`Withdraw`, the callback with address 0).
`numPlayers` and `rows` are only right if no rebuild of the same menu ran inside: the
inner one fills the menu, the outer one then adds its rows to it. `overlapped` records
that, and `RebuildExact` excuses it: it says that everything *but* such an overlap
leaves the menu right, and a menu with doubled rows after an overlap is what the code
does. `TitleSettles` is about the title, which has two writers: `refresh` sets
*Refreshing*, also in the middle of a rebuild's wait, and `makeMenus` sets the number
of games, or *Unable to connect* if there is no reply. `PortMapper.h` tells its user
that the wait locks up the application; it does not, and this is the consequence.

### SvrMnuApp

`_refresh` is one action of both modules: the schedule decides, the menus send
their requests. Everything the run loop serves needs `Dispatching` of
`ServerMenus`: at its base, or in the innermost wait while that has no answer.
`Tick` needs nothing, clicks need the base. The menu stays shut here, so the
countdown (which only reads) is left to `RefreshCycle`. `ScheduleKept` is
`RefreshCycle`'s own specification with its fairness: what was checked and proved
of the schedule alone holds of it inside the program. Below it, the
rebuilds of `setPrimaryMnu` and waits that are over are stretches in which
no timer is served; that is why strong fairness is needed above it to get weak
fairness below.

### AddressLookup and PortMapper

`AddressLookup` has one variable, the words of the calls under way: `Ask`,
`Hear` and `Return`. `PortMapper` has a mapper object per call, with its service
(and socket), its error and its address, and `mail`, what a socket has not
delivered yet. `FindPublicAddress` is `open` up to the wait, on each of its
ways to fail too; `ServiceCallback` is one delivery, including a
connection that is lost; `Return` is the end of the wait with the reading of the
address and `close`. The refinement mapping takes a mapper with an error to
`Nil`, one with an address to that address and any other to `Waiting`.
mDNSResponder may send anything any number of times, and may never send.
The loop lets go as soon as there is an address *or* an error; as
`desiredPublicPort` is 0 for this caller, no word turns into
`NATPortMappingUnsupported`.


### HidDevice

The client is the thread in `hid_open_path` and later `hid_close`, one step per
access to what it shares. `threadPc` follows `read_thread`; the callbacks are
actions that need it inside `CFRunLoopRunInMode`. The barriers are modelled from
their own code: a count, and a wait on a condition variable *without a loop*,
so `SpuriousWakeups` decides if POSIX's permission to wake unasked is used. A
reader is modelled with the mutex held between looking at the flags and going to
sleep, since the flags are changed without the mutex and exactly that
window is what the broadcast must not miss. All other critical
sections are single steps that need the mutex free.

### BlinkLight

Each thread has a stack of calls. A background thread has `enable` and what it called;
the main thread's stack grows when the run loop that `process_pending_events` runs
dispatches a pulse timer, a USB notice, or a workspace notification. `lock` is the
recursive lock of `@synchronized(self)`: owner and count. `hidMgr` is set by whoever
needs it (`hid_init`) and cleared at the end of each `blink1_close` (`hid_exit`); a
use while it is clear is the `Crash` action. Timers are objects (`free`, `made`,
`live`) and `timer` is the ivar that names the last one, so two threads can each make
one and then add or invalidate the other's. `raced` remembers that a `setPulse` came
while another thread was in `startPulse` or `endPulse`: its `invalidate` then stops
the old timer and not the one the other thread is about to make, and two chains go on,
of which `timer` names one. `NoOrphan` says that this is the only way to a chain that
nothing can stop. `rebuilding` holds the depths of the main thread's calls whose run
loop has dispatched a `makeMenus` that waits for the public address. That wait has no
limit of time, the call below it cannot go on, and the lock stays held.
`primaryMnu.value` is read by the threads with nothing that orders it, hence
`ReadValue` may see any value each time.

Left out here: which of several blink(1) lights shows what (`BlinkLibrary`), the
colour's hue (`dark` or `lit`), the memory fault a
race on the reference count of `timer` could cause, and the first reading of
`isHere` and `currentColor` in `fadeToRGB` as separate steps (`CheckHere`
merges them; between the two the other thread could only change the colour,
which the model lets it do just before). That workspace notifications
arrive inside the nested run loop too is an assumption about AppKit: they come
through a run loop source in the default mode.

### BlinkLibrary

A fade goes through three listings of the devices: the cache that
`blink1_enumerate` filled for the last notice, the one in which `hid_open` looks
for the first serial of the cache, and the one in which `hid_open_path` looks for
the path. `Replug` may come between any two of them, and `Enumerate` inside
both waits. Serials are numbers; 0 is one that could not be read, which is the empty
string in the code and sorts before all others: then `Fade` is disabled, as the
library opens nothing, though a readable device is there too. The serial is passed to
`hid_open` as a pointer into the cache, so `HidOpen` compares with what is there
*by then*. A path contains vendor, product and location, hence `PathAt`. The
report carries the time in two bytes, the lower of which is `dms % 0xff`.

`Blink1` takes its lock around a fade, so there is one at a time; fades nested in
a fade's wait on the main thread are in `BlinkLight`, where they show as
`ManagerReady`'s violation.

### LoginItem

One step per call that reads or changes the list, since System Preferences may
change it between any two (`ListChanged`). An item may fail to resolve, an
insertion or a removal may do nothing, the list may not be had at all, which ends
the program in two places (`dead`): an exception in `init`, `CFRelease` of
`NULL` in `addAppAsLoginItem`. `Quit` may come anywhere; the list and the default
survive it. `doubtful` remembers that a call failed or that a change fell into
the window in `init` before the observer is there: the only two ways to be
wrong, which is what `InSync` says.

## 3. Runs

| Run | Question | Result |
|---|---|---|
| `refresh_cycle` | Does the schedule survive every order of rate changes, sleeps, wakes, session switches and late timers? | yes; `KeepsRefreshing` too |
| `server_menus` | Two menus whose rebuilds wait inside each other: do status title and check mark stay with the primary, is the last reply shown exactly, and does each title leave *Refreshing* for what that reply says? | yes, but for rebuilds that overlap |
| `svr_mnu_app` | Does the schedule survive a main thread that waits inside rebuilds? Does the program fall silent while nobody looks, and does *Refreshing* end? | yes |
| `port_mapper` | Nested lookups, news that changes, connections that fail: is the latest word returned, is anything left open, does it hang on more than a silent responder? | it keeps its promises and implements `AddressLookup` |
| `hid_device` | Start, reports, unplugging, shutdown and two readers | holds, safety and liveness, without spurious wakeups |
| `hid_spurious` | The same with spurious wakeups: "Wait here for the read thread to be initialized" | violated: open returns before `source` and `run_loop` exist |
| `hid_unplugged` | "calling IOHIDDeviceClose() will crash" when unplugged | violated: nothing sets `disconnected` once the callback is removed |
| `hid_full` | "Pop one off if we've reached 30 in the queue", when nobody reads | violated: a 31st report is queued; the list grows to 32 |
| `blink_light` | A background thread, a nesting main thread and rebuilds that wait in it: are lock, serials and darkness right, can the chain of pulses be stopped, does the thread end? | yes; it ends if mDNSResponder answers |
| `blink_library` | Devices are swapped during a fade: is a blink(1) opened, and the right one? Is the time in the report near the one asked for? | yes, within 255 hundredths |
| `login_item` | Clicks, changes by others, failures and restarts: do mark and default follow the list, and are the items of others left alone? | yes, and every notice is heard |
| `manager_lost` | "Set up the HID Manager if it hasn't been done" | violated: a nested call's `hid_exit` takes it away, on the main thread only |

`manager_lost` and `BackReady` belong together: the lock does what it is for,
between threads, and cannot do it between two calls of one thread.

### Findings

Four runs show the code to do other than its comments say:

* `hid_spurious`, `hid.c:88` against `hid.c:740`: the barrier waits once and not in
  a loop, so `hid_open_path` may return before the read thread is initialized.
* `hid_unplugged`, `hid.c:1000` against `hid.c:997`: an unplugged device is closed,
  which the comment says crashes.
* `manager_lost`, `hid.c:423` against `hid.c:415`: the manager that was just set
  up is gone when it is used.
* `hid_full`, `hid.c:599` against `hid.c:596`: what is counted are the links between
  the reports that were there before, one fewer than these, and the oldest is popped
  when that is *more* than 30. `ListKeepsNewest` states the bound the code keeps,
  `Limit + 2`.

### Bounds, and why they are enough

* **RefreshCycle**: rates 1 and 2, a minute of 3 seconds, `Horizon` 14 half
  seconds, `MaxQueued` 2. Two rates give every relation between old period, new
  period and elapsed time (shorter, longer, already over); three seconds leave
  room for a fraction, a whole second and a boundary; beyond the longest period
  plus a second all times act alike (`RefreshAssumption`). Two queued
  selectors show one `_refresh` running behind another. Handlers that queue
  one more are disabled at the bound; the proofs are for every bound.
* **ServerMenus**: two menus with one refresh each under way; together with
  `setPrimaryMnu`'s own rebuilds this also nests a menu in itself. Replies are
  a busy game with two servers, one of them ours, and a quiet one; `home` is the
  only address besides none.
* **SvrMnuApp**: one menu with two refreshes under way, so that a second
  `_refresh` and a second rebuild of the menu fall into a wait; one rate of one
  second, since several rates are `RefreshCycle`'s matter; replies say
  nothing and the mapper has only errors, since their content is `ServerMenus`'.
* **PortMapper**: two mappers, so that one waits inside the other; two
  addresses, so that the network can change; one unread word per socket: more only
  delay the news, and the proofs are for every bound.
* **HidDevice**: two readers, so a signal can reach the wrong one; `Limit` 0, so
  the list sheds with the third of `MaxReports` 4 reports. The barriers have two
  parties in the code too. `hid_full` has the code's own limit of 30 and one
  report more; one reader is enough for a list that nobody reads.
* **BlinkLight**: one background thread and the main thread, whose calls nest once;
  two `enableBlink` calls, so the thread comes back and meets what it left;
  three timers, of which one is always free, so that no bound ever keeps a pulse
  from making its timer; one rebuild that waits. One flag stands for the waiting
  USB notices, since both kinds do the same, and after each any number may still
  wait. `MaxDepth` 2 is the least that nests; a third level meets the same lock and
  manager as the second. A second background thread multiplies the states without a
  new kind of meeting: two threads that pulse at once are a thread and the main
  thread that do. The proofs of the invariants are for every bound.
* **BlinkLibrary**: two ports and four devices: two blink(1) lights, one whose serial
  cannot be read, and a keyboard with the serial of another; a cache of 3, so one
  place keeps stale serials. The times are those of the program (0, 1000), the
  first that goes out wrong (2550) and the largest. That there are no more ports
  than places in the cache is an assumption the code makes without a test:
  `LibraryAssumption`.
* **LoginItem**: two items of this program, so that one can stay when the other is
  removed, and one of another.

### Fairness, and why the code gives it

* *RefreshCycle*: weak fairness of `Tick`, `TimerFires` and `RunRefresh`: the
  clock runs, and the main run loop gets to a due timer and a queued selector.
  Nothing is assumed of users and notifications, and time may be arbitrarily slow.
* *ServerMenus*: `server_menus` checks invariants only and needs none. In `SvrMnuApp`:
  weak fairness of the main thread's own steps; strong fairness of `Response`,
  `RunPerform` and `Answer`: `NSURLConnection` times out, mDNSResponder answers each
  query, and each pass of the run loop serves what is signalled; it is strong because
  the innermost wait disables and enables dispatching again and again. Only the
  innermost wait is owed an answer.
* *SvrMnuApp*: that, and strong fairness of the timer and the `_refresh`
  selectors together, which the run loop serves wherever it runs; weak fairness of
  the clock.
* *PortMapper*: strong fairness of `ServiceCallback` for each mapper, as the run loop
  serves each source that is signalled again and again; weak fairness of
  `Return`. Nothing is owed by mDNSResponder: `HangsOnlyOnResponder` says what
  its silence costs.
* *LoginItem*: weak fairness of the running handler, strong fairness of the
  observer's call, which clicks delay. Quitting, clicking and the others' changes
  owe nothing.
* *HidDevice*: the client once in `hid_close`, the thread, its callbacks and the
  readers inside a call get on; strong where they need the mutex. No fairness
  for the 1000-second run-loop timeout, for closing, unplugging or sending.
* *BlinkLight*: strong fairness per background thread (it gets the lock if it
  is free again and again) and per depth of the main stack:
  `process_pending_events` is over after its millisecond, but returns only when what
  it dispatched has. A `makeMenus` in there owes nothing (`RebuildEnds` has no
  fairness): that its wait ends is mDNSResponder's doing and the premise of
  `EnableEnds`, `ResponderAnswers`. Without an answer the lock is held for ever
  and no background thread gets on.

Deadlock is looked for in every module but two: the program must never stop
(`LoginItem` starts again after it was quit). `HidDevice` stops when the device is
closed and `BlinkLight` when the program has crashed, so their configurations say
`CHECK_DEADLOCK FALSE`; that they do not stop *before* is what `CloseTerminates` and
`EnableEnds` say.

## 4. Proofs

`RefreshCycleProofs`, from `RefreshAssumption` only, for all rates, minutes,
horizons and queue bounds:

* `TypeCorrect` (`TypeOK`), `NeverDies` (`RefreshArmed`), `SkippedComesBack`
  (`SkippedIsRequeued`), `OnSchedule` (`TimerOnSchedule`), `CountdownIsHonest`
  (the action property `CountdownHonest`).
* Argument: `CountersTyped` is inductive with `FlagsTyped`, and needed by the
  rest for the arithmetic. That `timerLeft` stays a natural number is the guard
  of `addTimer`. `RefreshArmed` and `SkippedIsRequeued` follow action by action:
  every action that ends a timer queues a selector or starts a new timer.
  `TimerOnSchedule` needs what `addTimer` rounds away to be less than a second
  (lemma `AddedTimer`) and `Horizon` to lie beyond every period.
  The countdown is a step property: it follows from the schedule *before* the
  step and what `SecondsShown` computes.

`HidDeviceProofs`, from `HidAssumption` and `~SpuriousWakeups`, for any set of
readers, limit and number of reports:

* `OpenIsReady` (`OpenMeansReady`), `RunLoopStaysValid` (`RunLoopValid`),
  `FreedAfterThread` (`NoUseAfterFree`), `ListIsNewest` (`ListKeepsNewest`; this
  one and the next without the assumption on wakeups).
* `ImplementsQueue`: `Spec => Queue!Spec`, the list as the queue of `ReportQueue`,
  whose state is the numbers of the oldest and the newest report that wait and
  whether the device is open. Each report is read once and in order; one is lost only
  to newer ones, at the limit, or when `hid_close` frees the list. That happens once,
  and no report comes or is read after it, for which `FreedInv` is needed: a freed
  list stays empty, because its thread was joined.
* `DeviceTypes` (`TypeOK`) and `ReportsWakeReaders` (`NoReaderSleepsOnReport`), for
  finite sets of readers and without the assumption on wakeups.
* Argument: none of the first three is inductive. `HandleInv` says, for each
  barrier, which program counters fit its count (`OpenInv`, `ShutdownInv`), that
  a thread beyond the open barrier has stored its run loop (`StartedInv`) and
  that a client beyond the join sees an ended thread (`JoinedInv`). `hid_spurious`
  shows that the assumption is needed. `ListInv` relates list, `sent` and limit.
  For the readers the invariant counts (`WakeInv`): while no flag is up, nobody
  waits or there are at least as many woken readers as queued reports; and a reader
  that is about to sleep still holds the mutex under which it saw an empty list.

`PortMapperProofs`, from `MapperAssumption`, for any number of mappers (so any
depth of nesting), addresses and unread words:

* `NothingIsLeft` (`NothingLeft`), `ReturnsLatestWord` (`LatestWord`) and
  `ImplementsLookup`: `Spec => Lookup!Spec`, the safety part of
  `LookupImplemented`. `MapperTypes` (`TypeOK`).
* Argument: `CallsInv`. No mapper waits twice (`Apart`), the addresses go with
  the service (`Released`), and a mapper that waits holds exactly what its last
  news said (`UpToDate`), which is the word the refinement shows. The last needs
  that an address is overwritten by every word, also by "none".

`ServerMenusProofs`, from `MenusAssumption`, for any menus, replies, addresses,
number of requests and depth of nesting:

* `OnlyPrimaryIsChecked` (`OnlyPrimaryChecked`), `StatusTitleIsCurrent`
  (`StatusTitleCurrent`), `RebuildIsExact` (`RebuildExact`), `TitlesSettle`
  (`TitleSettles`), `MenuTypes` (`TypeOK`).
* Argument: `MarksInv`: a menu that is checked and is not the primary is one that
  `setPrimaryMnu` has still to rebuild, and its loop ends with none left. For the
  title: every step that could spoil it leaves a rebuild of the primary
  menu queued, waiting or still to make. How players are counted does not
  matter, so `Players` (a fold) stays closed; that a game has a natural number
  of them is part of `MenusAssumption`, which TLC evaluates.
* `ExactInv` adds what a menu looks like *inside* its own wait: bare, as `Begin` left
  it, unless another of its rebuilds ran in there (`overlapped`). `Finish` then
  fills it from the reply of that moment, and a reply that comes later has queued
  the next rebuild, so the menu is not settled.
* `TitleInv`, for the title: as long as a menu says *Refreshing* one of its requests
  is out or a rebuild of it queued, waiting or to be made; and if nothing is, it says
  what its last reply says, or that the connection failed, unless its last
  rebuild overlapped.

`BlinkLightProofs`, from `BlinkAssumption`, for any number of background threads,
timers, calls and any depth of nesting:

* `BackIsReady` (`BackReady`), `SerialsAreCurrent` (`SerialsCurrent`), `OffStays`
  (`OffStaysDark`), `ChainsReachable` (`NoOrphan`), `LightTypes` (`TypeOK`): all
  invariants of the light but `ManagerReady`, which is false. `LockIsInUse`
  (`HolderInside`) is the part of `EnableEnds` that needs no fairness: the lock is
  never left behind, and its holder does not wait for it.
* Argument for the lock: it is held as often as its owner has calls that
  list or open devices (`LockInv`). No counting is needed: on the main
  thread every call but the innermost is such a call, as only there the run
  loop dispatches another, and a background thread has at most one, its
  innermost (`Shaped`, `Depth`). So two threads never hold it together, and
  `hid_exit` is called by its holder. `SerialInv` says what the serials
  are *while* enumerates are under way: none, if no notice waits, the device is
  gone and no enumerate is about to begin.
* Darkness: from the undisturbed `off` to the next `enableBlink` no background thread
  runs, every call on the main thread carries the dark colour, and the ivar is dark
  too, except before that `off` has set it, when it is still innermost (`OffInv`).
* Chains: `ChainInv` says that before the first race there is at most one pulse call
  (`Pulses`) in all stacks (`Marked`), none while a timer is live, and the live
  timer is the one `timer` names. A firing timer turns into a pulse, and a pulse into
  the timer it adds; a `setPulse` begins one only after it has invalidated
  the live timer, and if another pulse was under way by then, it was a race.
* Types: the serials in the array and the enumerates that list devices are together
  no more than the calls that nest (`RoomInv`), so they stay within `MaxDepth`.

`BlinkLibraryProofs`, from `LibraryAssumption`:

* `OnlyBlinksOpened` (`OpenedIsBlink`) and `FirstIsOpened` (`OpenedIsFirst`) for any
  finite set of ports and any devices; `FadeTimeIsNear` (`FadeTimeNear`) for every
  16-bit time; `LibraryTyped` (`TypeOK`): the degamma curve and the time fit the bytes
  of the report, `count` fits the cache.
* Argument: the path that was chosen names vendor and product (`BlinkInv`).
  `ReportInv` and the arithmetic of remainders by 255 and 256 give the time.
  `FirstInv` says that an undisturbed cache begins with the least serial there is and
  that a path chosen from it leads to its device. It rests on sorting: every finite
  listing has an ascending arrangement (`SomeSort`), for any length, and such a one
  begins with the least (`SortedProperties`). `Sorted` is therefore defined by
  what `qsort` promises, some ascending arrangement, and not by the community
  modules' `SortSeq`, whose definition the prover cannot open. `SomeSort` is an
  induction over the length, carried out with the set of the lengths for which it
  fails and its least element (`LeastNatural`, `EveryNatural`), because the library's
  induction rules take an operator and cannot be instantiated.

`LoginItemProofs`, from `LoginAssumption`, for any login items:

* `MarkAgrees` (`InSync`), `LeavesOthers` (the action property `OthersKept`).
* Argument: `SyncInv` says at each step of a handler what was read or written
  that still agrees with the list, provided no notice is on its way; that is so
  because the observer is there in all steps but the first ones.

Only model-checked: everything about liveness (the prover does not do fairness or
ENABLED), so the fairness part of `LookupImplemented` and all of what
`ScheduleKept` adds to the steps of `RefreshCycle`; and what folds compute
(`Players`), because the definition of the fold takes an operator. No invariant
and no step property of a module by itself is only model-checked any more; what is
left are the properties of `SvrMnuApp`, all of them liveness or under fairness.

## 5. Plan

Done, in this order: the schedule, the menus, the HID device and the light with
their first proofs; the port mapper with its abstract lookup; the login item; the
blink(1) library; the composition of the main thread; the proofs about
menus, mapper, light, library and login item.

Left, the most useful first:

1. The safety part of `ScheduleKept` as a theorem, `Spec => Cycle!Spec` for
   `SvrMnuApp`, and the same for the menus, so that their theorems hold in the
   composition.
2. `SvrMnuApp` with `BlinkLight`, so that the value `_enableBlink` reads is the
   one the menus wrote; today it reads any, which is safe for what is checked of
   the light, and would matter for "pulses while somebody plays".

## 6. Not modelled

* **Application shell** (`main.m`, nib, icons, property list, `launch` and `quit`):
  no state of the program's own.
* **Firmware constants** (`usbconfig.h`, and `hidapi.h`, whose definitions are in
  `hid.c`): configuration of the device's firmware, of which vendor and product
  identifier are read.
* **Called by nobody in the program**: the classification of reachability flags
  (`networkStatusForFlags:`), `localAddress` and `localAddressIsPrivate`, the colour
  helpers `colorFromHexRGB` and `lastColorHexString`, `regenerateBlink1Id`, and the
  blink(1) library's `getVersion`, EEPROM, play, server-down and pattern commands.
  Of the last, only what `readPatternLine` would make of a fade time is modelled: it
  keeps 16 bits of the product with 10, so from 65.54 s on its
  result wraps, which is why `NearTime` speaks of reading back below 2.55 s only.
* **The cache of paths** in `blink1-lib.c`: filled next to the serials, sorted
  only by a function nobody calls, and read by nobody.
* **A seventeenth blink(1)**: the loop that fills the caches does not look at
  their size. The model takes the assumption the code makes
  (`LibraryAssumption`) instead of giving a meaning to a write past the end.
* **A run loop that cannot run**: if `runMode:beforeDate:` had no source and returned
  at once, `waitTillOpened` would spin; with a service there is always its socket.
* **Reports sent to the device and string queries** (`set_report`, feature reports,
  `hid_get_*_string`): they keep no state and return an error code that their callers
  ignore, which `WriteColour` and `Write` cover with their choice to write or not.
* **A reader inside `hid_read_timeout` while `hid_close` runs**: hidapi leaves it to
  its user to prevent that, and nobody in the program does it; the guard of
  `Close` is that contract.
* **What properties excuse**: rebuilds of one menu that overlap (`RebuildExact`,
  and the second half of `TitleSettles`); a chain of pulses orphaned by a race
  (`NoOrphan`); an `off` that is not written (`OffStaysDark`); calls that fail and the
  window before the observer (`InSync`); the error of `% 0xff` (`FadeTimeNear`, which is
  exact only below 2.55 s). In each case the code does what is excused, and no text in
  the repository promises otherwise.
* **Allocation failures of `hid_init`** (`hid.c:416`, `hid.c:693`), and a listing of
  `IOHIDManagerCopyDevices` that lags behind the bus: `BlinkLight` takes the listing to
  agree with what is plugged in at that instant.
* **`open` failing after its service exists** is one outcome with the failure to
  create it in `FindPublicAddress`: both leave the mapper closed, with an error.
* **Formatting** of the menus' texts, colours and hexadecimal strings.
* **The JSON and HTTP libraries, mDNSResponder, LaunchServices, IOKit, AppKit**: what
  the code sees of them is in the actions that answer, deliver, dispatch or notify.
