# A TLA+ model of osakaOS

osakaOS (`src/`) is a small operating system in C++.  It boots on x86 from its
own kernel, with a text mode and a graphical desktop, a file system on an ATA
disk, a scripting language called AyumuScript and a scheduler that switches
tasks on the timer interrupt.  The same code is also compiled to WebAssembly, where
a browser page stands for the screen and IndexedDB for the disk.  A DNS server
for the system's own names comes with it as a program of its own.

This directory holds the modules that model it, the TLC configurations that
check them on small instances, and the proofs of what holds for every instance.

    tlc -workers 2 -config MCHeap.cfg MCHeap     one of the runs
    tlapm HeapProofs.tla                         the proofs about the heap

`PROJECT.json` lists components, runs, hazards, theorems, and for every
definition of a model the lines of code it stands for.

| module | models | proved about in |
|---|---|---|
| `Heap` | kernel heap, `memorymanagement.cc` | `HeapProofs` |
| `TaskManager` | scheduler, `multitasking.cc`, and `kill` in `cli.cc` | `ScriptTasksProofs` |
| `AtaWeb` | browser disk, `drivers/ata_stub.cc` | `AtaWebScriptProofs` |
| `PrefixDisk` | what a disk behind a queue of writes promises; implemented by `AtaWeb` | `AtaWebScriptProofs` |
| `LinkedList` | `list.cc` | `ScriptTasksProofs` |
| `Ofs` | file system, `filesys/ofs.cc`, with the commands and editors that call it | `OfsProofs` |
| `WindowManager` | the desktop's windows, `gui/widget.cc`, `gui/window.cc`, `gui/desktop.cc` | `WindowManagerProofs` |
| `ScriptTasks` | `ext`, `exb` and `kill` of command lines, script tasks, on top of `TaskManager` | `ScriptTasksProofs` |
| `Script` | the interpreter of AyumuScript, `script.cc` | `AtaWebScriptProofs` |
| `ScriptLines` | what a writer of scripts may count on; implemented by `Script` | `AtaWebScriptProofs` |
| `Network` | the network card's rings, ARP, `ping`: `drivers/amd_am79c973.cc`, `net/` | `NetworkProofs` |
| `DnsServer` | `dns/cpp/src/DnsServer.cpp` with `main.cpp` | `DnsServerProofs` |
| `DnsServerTs` | `dns/src/DnsServer.ts` with `index.ts` | `DnsServerTsProofs` |

Every `MC` module extends the module of the same name for TLC.  Source paths
below are relative to `src/`; C++ sources lie in `src/src/`.

## 1. The parts of the system

### How they fit together

On x86 everything runs on one processor with one address space.  The kernel's
own loop (`kernelMain`) waits for mode switches; keys, mouse packets, network
frames and the timer arrive as interrupts and run the handlers *inside* the
interrupt, on the stack of whatever was interrupted.  So a key typed in text
mode runs a whole command, file system writes included, inside the keyboard
interrupt, with interrupts off.  Tasks (the GUI loop, a script started with
`ext`, a program started with `exb`) are preempted by the timer anywhere.  They
share the heap, the file system, the desktop and the command line of the
terminal they came from, and there is no lock anywhere.

In the browser there are no tasks: one thread runs a frame, or an event
handler, to its end.  What is concurrent there is the disk, since
IndexedDB answers by callbacks between frames.

    keyboard/mouse --> kernel loop or desktop --> command line --> file system --> disk
                            |                          |              |
    timer --> scheduler --> GUI task, script and program tasks        list
                            |
                      windows, apps                       everything --> heap

### Inventory

For each part: its **state**, its **operations**, how it meets the others, what is
**hard**, and what makes it **correct**.

**Kernel heap** (`memorymanagement.cc`).  State: chunks in a doubly linked list
laid out in the memory they manage.  Operations: constructor, `malloc`, `free`;
`new` and `delete` forward to them.  Called by everything, from tasks and from
interrupts.  Hard: long mixes of splits and merges; the boundary at which a
rest is large enough for a header.  Correct: the chunks tile the heap, blocks
never overlap, contiguous free space is one chunk, nothing is lost.
*Modelled in full.*

**Scheduler** (`multitasking.cc`, timer part of `interrupts.cc`).  State: a table
of up to 256 tasks, `numTasks`, `currentTask`, the frame saved for each task.
Operations: `AddTask` (by `ext`, `exb`, and the kernel on entering the GUI),
`DeleteTask` (by `kill`), `Schedule` on every tick, which also ends a program
whose instructions are over.  Hard: the three variables are changed between
ticks without moving the table.  Correct: no empty slot is followed, a frame is
stored in the task it belongs to, every task gets its turn.  *Modelled in full.*

**Linked list** (`list.cc`).  State: nodes, first, last, count.  Operations:
`Push`, `Pop`, `Insert`, `Remove`, `Write`, `Read`, `DestroyList`; `AddByte`, `AddInt`
and `AddString`, which push or insert a copy; `RemoveByte` and `RemoveInt`.  Holds the
file list, the lists of the command line and the buttons of windows.
Hard: the last pointer across sequences of calls.  Correct: the list is the
sequence its callers built, nothing is leaked or freed twice.  *Partly modelled*:
`RemoveByte` and `RemoveInt`, which go on through the node they freed, have no
caller and are left out.

**Web disk** (`drivers/ata_stub.cc`).  State: the IndexedDB store, a cache of
sectors, open and populated flags, transactions in flight.  Operations: `Read28`,
`Write28` (at once), the callbacks (later), page reload (any time).  Called by the
file system; its cursor's end calls `RefreshFileTable`.  Hard: callbacks against
later writes, reload with transactions in flight.  Correct: reads return what a
disk without delays would, the store is always a prefix of the writes.
*Modelled in full.*

**Native disk driver** (`drivers/ata.cc`).  Ports in a fixed order and busy waiting
on the status port.  *Not modelled*; `Ofs` uses atomic sector writes in its place.

**Osaka FileSystem** (`filesys/ofs.cc`).  State: on disk a count, a table of
locations, and headers followed by data; in memory the file list, the file count
and the next open sector.  Operations: `NewFile`, `DeleteFile`, `WriteLBA`,
`ReadLBA`, `UpdateSize`, `AddTable`, `RemoveTable`, `RefreshFileTable`, tags,
images (`Write13H`, `Read13H`), `Compress`, `Crypt`.  Called by commands, editors,
scripts and, in the browser, the page.  Hard: several writes per operation and a
crash between any two; disk order and memory order of files differ; names are
compared by prefix.  Correct: what was written is read back, files keep apart,
table and list agree, a crash harms only the file that is being written.
*Partly modelled*: tags, images, `Compress` and `Crypt` are left out.

**File commands and editors** (`cli.cc`, `app/file_edit.cc`, `mode/file_edit.cc`).
`touch`, `rm`, download, and saving in the journal and the text editor are
operations of `Ofs`; `copy`, `tag` and renaming by copy are not.

**Window manager** (`gui/widget.cc`, `gui/window.cc`, `gui/desktop.cc`, `script.cc`).
State: `children[30]` in stacking order, the focussed child, `minWindows`, and for
each window `Min`, `Fullscreen` and position; the user window of a command line.
Operations: clicks on windows, title buttons, icons and taskbar; opening windows
by command; F3.  Hard: every click goes through taskbar, icons and windows in
turn; three places decide which window an action is for.  Correct: no window is
lost, keys go to the front window, the taskbar opens what it shows, a command
line knows its user window.  *Partly modelled*: dragging, resizing, menus, the
file dialog, drawing, and the simulator are left out.

**Command line** (`cli.cc`).  State: variables, conditions, the command table, the
user task, the user window, the script name.  Commands that change a modelled part are operations
of its module (`kill`, `ext`, `exb` in `TaskManager`, `window` and the programs in
`WindowManager`, files in `Ofs`).  `ping` is in
`Network`, the conditions and loops of scripts in `Script`.  The command table,
variables, arithmetic and text mode are *not modelled*.

**AyumuScript** (`script.cc`).  State: place in the file and in its block, the
block, the line, the stack of open loops; in the command line, two conditions.
Operations: a script is read byte by byte, cut into lines, and repeats between
`loop` and `pool` by going back to a place.  Hard: loops, lines and conditions
across the ends of blocks; scripts as tasks share one command line, its
script name, its conditions and its task slot.  Correct: the bytewise
interpreter runs the lines as they are written, a task runs the script it was
started for, a command line is usable after a script.  *Partly modelled*
(`Script`, `ScriptTasks`): what the other commands do, windows and
input of scripts, and scripts that start scripts are left out.

**Kernel start and mode switch** (`kernel.cc`, `kernel_web_*.cc`).  Boot is
straight-line; afterwards flags ask the loop to enter or leave the GUI and
the keyboard handler is exchanged.  Hard: the GUI task is made on each entry
and stays in the scheduler's table.  *Not modelled*; the exchange of handlers is
a hazard without a property.

**Interrupts** (`interrupts.cc`, `interruptstubs.s`).  Only the timer's way into
`Schedule` is modelled (in `TaskManager`); one interrupt at a time.

**Keyboard and mouse drivers** (`drivers/keyboard.cc`, `mouse.cc` and `_web`
variants).  Modifier state; a three-byte packet counter without
resynchronisation.  *Not modelled*: the command a key runs is one step of the
interrupt in the models that need it.

**Network card** (`drivers/amd_am79c973.cc`) and **protocols** (`net/`).  State: two
rings of eight descriptors with an ownership bit the send side does not test,
overlapping buffers, a cache of addresses.  Operations: the card receives and
transmits beside the processor; the interrupt handler hands frames to ARP and
IPv4, which answer at once; `ping` asks for an address, polls the cache, sends.
Hard: three actors on one ring, an interrupt acknowledged with an old status.
Correct: driver and card stay in step, frames keep order and content, no
received frame is forgotten, a known host is addressed directly.  *Partly
modelled* (`Network`): the start of the card, checksums, UDP, frames for others
are left out; the stub of the web build drops everything.

**Assembler** (`code/asm.cc`).  Text to bytes in two passes, without state that
outlives a call.  *Not modelled*: a model would transliterate its table.

**DNS server** (`dns/cpp/`).  State: a vector of overrides, its JSON file, the
control flags.  Operations: queries by UDP and by TCP, adding, changing, deleting
overrides and switching them off by HTTP, forwarding upstream with a time limit, `start`,
`stop`.  A UDP loop, a TCP thread, and HTTP handlers in a thread pool use
the vector without a lock.  Correct: an answer comes from the first override that
matches, an acknowledged change is in the file, queries end.  *Partly modelled*
(`DnsServer`): pages of static overrides, the password, and handlers that only read
are left out.  Its packets (`DnsPacket.cpp`) are computation.

**DNS server, TypeScript variant** (`dns/src/`).  The same in one event loop.  Each
query that is forwarded has a socket of its own and no time limit.  Correct:
sockets are closed on every way out, one answer to a query.  *Modelled*
(`DnsServerTs`).

**Left out for good**: timer, speaker and clock, display drivers, PCI, ports and
descriptor table (straight-line access to hardware); simulator, ray caster, games,
the piano, paint, settings, iframe windows (their state is the screen, and nothing depends
on it); number formatting and pictures; the web page, its proxy, and
`osakaOS.js`, which is generated from the C++ code.

## 2. The modules, and how they correspond to the code

The models keep the control of the code (guards, early returns, the order of
writes, error paths) and cut the data down to what a property can tell apart.
A *mistake* definition, such as `RestSizeForgettingHeader` in `Heap`, is a variant of the
definition that follows it in the module.  The model does not use it; with it
in place of the other the properties fail, which is how they were tried.

### Heap

| TLA+ | code |
|---|---|
| `first`, `chunks` | `MemoryManager::first`, the `MemoryChunk` headers by address |
| `blocks` | what callers hold: the pointers `malloc` returned, with the size asked for |
| `Malloc(s)`, `MallocFails(s)` | `malloc`: first fit (`Walk`, `FirstFit`), `Split`, flag; return of 0 |
| `Free(p)` | `free`: flag, merge behind (`MergedBack`), merge ahead (`Release`) |

`malloc` takes a chunk only if it is *strictly* larger than the request
(`Fits`), and splits it only if the rest can hold a header and a byte (`Splits`);
both are kept as in the code.  Contents of blocks are not modelled.  Callers give
back only what they were given, once; those that do not are hazards of their
own components.

### TaskManager

| TLA+ | code |
|---|---|
| `tasks`, `numTasks`, `currentTask` | the members of `TaskManager` |
| `saved[t]` | `Task::cpustate`: whose registers the frame it points to holds |
| `running` | the context the processor executes (a task, or `Main`, the kernel loop) |
| `stale` | contexts whose last registers were pushed and then not saved |
| `AddTask(t)` | `AddTask`, as `ext`, `exb` and the kernel call it |
| `Kill(n)` | the `kill` command of `cli.cc` with `DeleteTask` |
| `Schedule` | `Schedule` on a tick: `NoTurn`, `EndCurrent` (a program is over), `NextTurn` |
| `added`, `killed`, `ended`, `since` | history, for the properties |

Whether a program is over depends on `eip`, which the model does not have: any
binary may end at any tick.  The kill flag is not a variable, because `Schedule`
assigns it before each test, so that no task ever sees it set.

### AtaWeb and PrefixDisk

| TLA+ | code |
|---|---|
| `phase` | `_ata_db` unset, set, and `_ata_cache_populated` |
| `cache`, `db`, `queue` | `_ata_cache`, the object store, the transactions in flight |
| `Opened`, `ScanStep`, `ScanDone`, `ScanFails` | `onsuccess` of the open request; the cursor |
| `GetDone`, `PutDone` | callbacks of gets and puts |
| `Read28(s)`, `Write28(s, c, whole)` | the two calls; `whole` is false for a short write |
| `Reload` | the page is closed or reloaded |
| `disk`, `early` | what a disk without delays would hold; sectors written too early |

IndexedDB is external: transactions on a store run in the order they were
created, read-only ones perhaps side by side (`MayRun`).  That is what
`ata_stub.cc` relies on.  A `put` that fails is only logged there and is not modelled.

`PrefixDisk` is the abstract disk: `Issue` a write, `Land` the oldest one, `Crash` and
lose the rest.  `AtaWeb` implements it with the store as the medium and, as the writes
pending, those of the puts in `queue` (`DurablePrefix`).  `Writes` takes them out of the
queue: the k-th write is that of the k-th of the places of puts (`Puts`, `Nth`), whatever
gets and cursors stand between them.

### LinkedList

Each method is an action over a pool of nodes.  `CreateNode` may be given any node that is
not live, also one that was just freed, and a freed node keeps its contents, so a stale
pointer does what it would do in memory.  `items` is the sequence the callers
believe in.  The constructor does not set `numOfNodes`; `ListInit` is the list in memory
that was zero.

### Ofs

| TLA+ | code |
|---|---|
| `disk` | count and table (sectors below the data), headers and data sectors |
| `mem` | the file list (as the sequence `LinkedList` is shown to be), `fileCount`, `currentOpenSector`, and whether the list has lost its tail |
| `Touch`, `Save`, `Edit`, `Download`, `Delete` | commands and editors, each with all calls it makes into `ofs.cc` |
| `Reboot` | the constructor or `RefreshFileTable` (`Loaded`) |
| `store` | what callers were promised: name, block, content |
| `astray` | in which ways the file system has left the ground it works on |

An operation is a function from state to state that also collects every disk
its writes go through (`seen`).  `Finished` takes the last one; `Cut` takes
*any* of them, forgets the memory and loads it anew: a crash between any two
sector writes, followed by a restart.

`astray` is needed because this file system loses its footing in many ways: a
block that meets another file and becomes a fragment (`fragmented`), a block that grows over or
past the header of another file (`overlapped`: `WriteLBA` looks for a header only where the block
begins), a block that spills over the open sector (`spilled`), a new file that collides, a leftover
of a download, an open sector at or before data, a crash, and an operation on a name that is
the beginning of another file's (`shadowed`).  Each is an event of
the model, found where the code lets it happen.  The properties say what holds
until then, and `CrashSparesOthers` and `CountLedger` what holds after.

### WindowManager

| TLA+ | code |
|---|---|
| `desk.children`, `focussed`, `minWindows` | members of `CompositeWidget` and `Desktop` |
| `desk.min`, `away`, `full` | `Min`, position (320, 200), `Fullscreen` of each window |
| `desk.userWindow` | `CommandLine::userWindow` |
| `GetFocus`, `AddChild`, `CreateChild`, `DeleteChild`, `Minimize`, `FullScreen`, `TaskBarClick`, `OnMouseDown` | methods of the same names |
| `MouseDown` | `Desktop::OnMouseDown`: taskbar, then icons, then windows |
| `OpenWindow`, `UserWindow`, `KeyF3` | commands that open windows, `window`, F3 |

The table is full at `MaxWindows`, and `GetFocus` then runs one element past
it, into `focussedChild`, which is declared next; that is what the code does and
what `GetFocus` of the model does.  `Min` is not set by any constructor, so a new window may come up
with it set (`dirty`).  Positions are reduced to which window, which part of
it and which taskbar pixel is under the mouse.

The loops of the taskbar are in the model as what they count.  `DrawTaskBar` puts a button at
the width of a button times the minimised windows in front of its own (`InFront`,
`LeftEdge`), and the last one drawn at a pixel is the one seen (`ShownAt`);
`TaskBarClick` counts down by the minimised windows behind (`Behind`, `CountedFromBack`) to the
number of the button hit (`OpenedBy`).

### ScriptTasks

Extends `TaskManager`; a step of `ScriptTasks` is a step of it, or leaves its variables alone.

| TLA+ | code |
|---|---|
| `lastCli` | the static pointer of `LoadScriptForTask` |
| `scriptName`, `userTask`, `condIf` | members of each `CommandLine` |
| `stage`, `cliOf`, `size`, `block`, `text`, `line` | local variables of `UserScript` and `AyumuScriptCli` in a task |
| `Ext`, `Exb`, `KillTyped` | the commands, carried out inside the keyboard interrupt |
| `Works(t)`: `Start`, `ReadBlock`, `RunLine`, `Finish` | a script task in its turn |
| `Tick` | the timer, `TaskManager`'s `Schedule` |
| `freed`, `asked`, `alone`, `said`, `makers`, `wild` | history, for the properties and the end of the model |

`ext` tells its task nothing: the task asks `LoadScriptForTask` on its first
turn for the command line that was given last, and reads the script's name there.  The
name is read again for every block and the conditions for every line.  What a
script is to say is a matter of its lines alone: those that say something and lie under no open
`if` (`OpenAt`, `SaidAt`); a place is a block and a line in it.  The model
ends (`wild`) where a task goes on from an old frame, since its stack is not
what it was.

### Script and ScriptLines

| TLA+ | code |
|---|---|
| `text`, `size` | the file: the places where its lines begin and end, and its length |
| `indexF`, `indexLBA`, `LBA`, `buffer` | variables of the same names, `LBAbuffer` |
| `line`, `indexL` | the line's command, and how much of it has been read (`start`) |
| `nested` | `nestedLoop`, `nestedLoopCondition` up to `indexLoopF` |
| `Turn` | one turn of the `while`: `ReadBuffer`, then `Collect`, `Blank` or `LineEnds` |
| `Ordinary`, `EnterLoop`, `LeaveLoop`, `RepeatLoop` | what the end of a line does: `command()`, and `loop` and `pool` before or after it |
| `Finish` | the script is over: conditions are reset |

A script is given by the places of its lines' first bytes and line ends; `ByteAt` says what
byte lies at a place, and every other byte of a line is alike.  The last line end may be
missing: `size` then ends with the line.  After a jump that went astray the place in the block
may lie behind the buffer, and what is read there is any byte (`Current`).  What a condition
evaluates to is left open.  In `ScriptLines` there are no
bytes: a step runs a line.  `Script` implements it with `at` as the line
around `indexF`.  `pool` is the one place where they would differ: it goes
back to a place in its *block*.  `ScriptLines` says so with two attributes of a line (its
block, and whether it lies inside one), and gives up (`lost`) where the
code loses its way.

### Network

| TLA+ | code |
|---|---|
| `recv`, `ready`, `cardRecv`, `currentRecvBuffer` | the receive ring: buffers, ownership bits, place of the card and of the driver |
| `send`, `owned`, `cardSend`, `currentSendBuffer` | the same for the send ring |
| `Arrive`, `Transmit` | the card |
| `Enter`, `Handle`, `ReceiveEnds`, `Acknowledge` | `HandleInterrupt` with `Receive`, ARP, IPv4 and ICMP for one frame at a time |
| `Begin`, `Take`, `Bump`, `Put`, `Poll` | `ping`: `Resolve`, and `Send` cut where an interrupt or another task may come between |
| `cache` | `IPcache`, `MACcache` up to `numCacheEntries` |

The buffers are declared with exchanged dimensions and start 8 bytes apart, so
writing one frame may damage others that lie in the ring (`Written`); that is undefined
behaviour cut down to the outcomes *as before*, *the new frame* and *damaged*.
The model ends where two `Send`s have mixed or one found the ring full (`astray`).

### DnsServer

| TLA+ | code |
|---|---|
| `overrides`, `overridesEnabled`, `file` | `database_.overrides`, the flag, the JSON file |
| `hpc[h]`: `ScanAdd`, `AppendOverride`, `Put`, `ScanDelete`, `Erase`, then `Serialise`, `Open`, `Write` | the handlers of the HTTP interface, cut where another thread may come between; `saveDatabase` |
| `rpc[t]`: `Receive`, `ReadMessage`, `HandleDnsQuery`, `AnswerFromOverride`, `Forward`, `UpstreamAnswers`, `UpstreamTimeout`, `Finish` | `start`'s UDP loop and the TCP thread, `handleDnsQuery`, `proxyToGoogleDns` |
| `Crash`, `Start`, `Stop` | the process ends anywhere, also after `Open` has truncated the file; `loadDatabase`; `stop` |
| `hit`, `alone`, `promise` | history |

`HandleDnsQuery` keeps the *place* of the override it found, and
`AnswerFromOverride` reads it a step later: if the vector was changed meanwhile
the answer is another override's, garbage or an error.  An override whose records cannot be encoded (`Unfit`: an
address that is none, a name too long, a type that `DnsPacket::encodeRecordData` does not know)
throws in `sendOverrideResponse`, and `handleDnsQuery` answers with an error
(`dns/cpp/src/DnsServer.cpp:294-298`; `Encoded`).  `Erase` leaves the overrides of other domains in the order they
were in.  A scan or a change is one step; two at the
same instant are a data race, which the model orders.

### DnsServerTs

One callback is one step.  `Arrive` puts a datagram into the server's
socket; `Callback(q)` (`HandleDnsQuery`, `Deliver`) is what the event loop runs; `ClientFails`,
`Lose` and `UpstreamAnswers` are the network; `Switch`, `ReloadDatabase`, `EditFile`, `Stop` and `Start` the
rest of the program and its surroundings.

## 3. What the runs show

All passing runs explore the whole state space of their instance.  Where several
invariants say together what one component keeps, a run checks them as one
conjunction of named parts (`IInv`, `ListInv`, `DiskInv`, `DesktopInv`, `ScriptInv`,
`ReceiveInv`, `ServerInv`, `TasksInv`).  Type invariants that a theorem of
section 4 states for every instance are not checked again, except as a part of `IInv`.

| run | distinct states | instance |
|---|---|---|
| `heap` | 11 084 | 15 bytes from address 3, headers of 2, requests 0..4 |
| `taskmanager` | 273 776 | 4 tasks, one of them a program, a table of 3 |
| `ataweb` | 97 440 | 2 sectors, one on either side of the test on 1024, halves 0 and 1, 2 transactions in flight |
| `linkedlist` | 239 682 | 4 nodes, 2 values |
| `ofs` | 207 519 | 3 names, one the beginning of another, 14 sectors, blocks of 2 up to lba 2, table of 4 |
| `windowmanager` | 219 011 | 4 windows (terminal, two user windows, one other), table of 3 |
| `scripttasks` | 1 531 402 | 2 script tasks and a binary on a table of 2, 2 command lines, 2 scripts of 2 blocks |
| `script` | 43 290 | every script of up to 4 lines that has a `loop` and a `pool`, blocks of 5 bytes |
| `network` | 908 524 | rings of 2, one host, one script task and the typed `ping`, cache of 2 |
| `dnsserver` | 924 602 | a domain and a wildcard over it whose records cannot be encoded, 2 HTTP handlers, UDP and TCP, 2 overrides |
| `dnsserver_ts` | 192 430 | 2 queries, 2 names, 2 domains, 4 files |

**heap.**  `IInv` (the chunks tile the region, links mirror each other, chunks are disjoint
and no two neighbours are free, `Coalesced`; live pointers are exactly the allocated
chunks, with room for what was asked, `BlocksHeld`); `BlocksSafe` (no two blocks and no
header share a byte); `FullyReclaimed` (all freed: the initial heap again);
`BlocksStay` (no call moves or resizes another's block).  *Bounds:* with 2-byte headers 15 bytes hold
up to seven headers, so free chunks meet free neighbours on one side, the other and
both, between live blocks, and rests of every size around the split boundary occur.

**taskmanager.**  `SlotsFilled` (no slot that may be followed is empty);
`FramesOwn` (frames are stored in their own task, until a program has ended); `NothingLost` (without kill or end no task is resumed from an old
frame); `RoundRobin` (none gets two turns while another waits); `TurnsComeRound` (once no
more tasks are killed or end, every slot in use is given the processor again and again).  *Bounds:* more tasks than slots, so the
table fills, refuses, and slots are reused after a kill.
*Fairness:* weak fairness of `Schedule` alone.  The timer is programmed at boot
and never stopped, `DoHandleInterrupt` acknowledges each tick, and handlers of
other interrupts are assumed to end.  Nothing is assumed of `AddTask`, which may
come at any time or never.  Of `Kill` and of the ends of programs the property assumes that they
stop at some time: `DeleteTask` sets `currentTask` to -1 (`src/multitasking.cc:84`), the end of a program
resumes slot 0 (`:120-121`), so `ext` and `kill` in turn, once between any two ticks, would keep slot 1 waiting
for ever.  In the run, where a task is added once, they stop by themselves; with tasks without end the
premise is what makes the property true.

**ataweb.**  `CacheComplete` (once populated, the cache has every stored and every pending
sector); `Coherent` (a sector not written too early reads as a disk without
delays would); `StoreCatchesUp` (and the store agrees when its puts are done);
`DurablePrefix` (`AtaWeb` implements `PrefixDisk`).  *Bounds:* two in flight let a
get, a scan and a put of the same sector come in every order with a write
between; sectors do not interact otherwise.

**linkedlist.**  `ListInv`: until `Push` or `Pop`
uses a last pointer that a `Remove` has left behind, the list is the sequence
of its callers (`ListIsSequence`) and each live node is in it (`NothingLeaked`).  *Bounds:* four nodes are
needed for a removal in the middle with reuse.  Deadlock is allowed: a
list that has lost a node has no defined next call.

**ofs.**  `DiskInv`: files share no sector and the open sector is behind all
(`Apart`), table, count and list have the same files although deletion reorders them
differently (`TableAgrees`), and the count is that of the entries until a crash
(`CountLedger`); `ReadsBack` (what was written under a name is read back, through creations,
growth, deletions, restarts); `RestartFindsAll`; `CrashSparesOthers` (a crash at any write
harms no other file).  *Bounds:*
blocks of two sectors and `Jump` 4 stand for 4 and 2048: what matters is that a block
is no longer than the jump.  Fourteen sectors hold three files, one of which can grow to three blocks and
meet, cover or pass the next; downloads end with and without a partly filled last block
(`Sizes` 2 and 3).  The name `a` begins `b`, and `c` neither, so there is no symmetry.
Operations go on until something went astray (`MaxAstray` 0).

**windowmanager.**  `DesktopInv`: every open window is in `children[]` once, also when
the table is full (`NoWindowLost`), keys do not go to a minimised window
(`FocusVisible`), and `minWindows` counts the minimised ones (`MinCounted`);
`FocusOnTop` (keys go to the front window or a closed one); `TaskBarOpensShown` (the
button that is seen opens the window it shows, up to four buttons, although drawing counts
from the front and clicking from the back); `OneUserWindow` (the command line knows its
user window as long as clicks told it what they closed); `StackOrder` (windows behind keep
their order).  *Bounds:* one
window more than the table holds, two user windows for reopening;
clicks at pixels 0, 110 and 250 fall on the
first, second and third button at one, two or three buttons.

**scripttasks.**  `NoFreedTask` (as long as one command line makes all
tasks, and no `exb` does, the scheduler follows no `Task` that `kill` has freed, although `kill` removes the last
entry of the table and frees the last task of its command line, whichever was
named); `TasksInv`, types and `RunsAsWritten` (a script that met no other `ext` and no other script of
its command line ran the script that was asked for, all of it); `IdleObeys`
(a command line without a running script obeys).  *Bounds:* more tasks than
slots, so that a task that was refused a slot meets one that was not;
both scripts have two blocks, so that a name can change between them, and one
leaves a condition open over the end of a block and at its own.  Command lines and script tasks are symmetric.
Deadlock is allowed: the model ends at `wild`.

**script.**  `ScriptInv`: the byte read next is in the buffer and is the file's, also
after a jump that went astray (`InSync`), and the two conditions are never false
together (`OneCondition`); `PoolMatches` (the loops remembered are the ones the brackets
of the text leave open); `RunsTheLines` (`Script` implements
`ScriptLines`); `Ends`.  *Bounds:* blocks of 5 bytes, lines of one or two, gaps
before the first line: loops, pools and line ends come to lie at every place of a block, and scripts have up
to three blocks.  `MaxNest` 2 is exceeded by three open loops;
conditions hold at most twice (`MaxTrue`), places in the block are kept modulo `Width` 8, so that
there are scripts shorter and longer than `Width`.  Scripts
without a loop or a pool never go back and are left out.  *Fairness:* of
`ScriptNext`, for `Ends`: the interpreter is a loop that goes on while it gets the
processor.  Deadlock is allowed: a script that is over stops.

**network.**  `ReceiveInv`: driver and card go round the receive ring in step, a frame
that had the ring to itself is unharmed (`RecvInStep`), and a frame waits without an
interrupt to come only if it came between the last test of the ring and the
acknowledgement (`Signalled`); `SendInOrder` (the card sends what was given to it in that
order, until `Send`s mix); `PingsDirect`.  *Bounds:* rings of two already wrap, fill, and let two frames share
the buffer; a cache of two fills with repeated answers of one host; the frames heard are an
address and an echo request (`Heard`), one to be learnt and one to be answered.
Deadlock is allowed: the model ends at `astray`.

**dnsserver.**  `ServerInv`, types and `AnswersFit` (if nothing changed since the search an answer is from the first override that matches, or an
error when that one's records cannot be encoded; without a match it is upstream's or an error); `PromiseKept` (what a handler saved
while alone is what a restart reads, until another opens the file, with failing saves and crashes
anywhere); `QueriesEnd` (no query holds up the UDP loop).  *Bounds:* two handlers
overlap in every order, two overrides make their order matter, `MaxBusy` 2 of the four threads are at work
at a time.  *Fairness:* of the
steps of a resolver, `Resolve(t)`, including its time limit upstream; nothing is
assumed of clients, upstream, or handlers.

**dnsserver_ts.**  `SocketsClosed` (a socket upstream is open exactly while its query
waits); `OneAnswer`; `AnswersFit`; `QueriesEnd` (unless a datagram was lost: there is no
time limit).  *Bounds:* two queries share nothing but the database.
*Fairness:* of the callbacks of the event loop and of the network for a datagram it does
not lose.

### Where the code does not do what it says

One run ends in a counterexample to a sentence of the source.

| run | what the source says | what the code does |
|---|---|---|
| `dns_failuretold` | `ensureUdpSize` is to "preserve only the valid response flags" (`dns/cpp/src/DnsServer.cpp:224`), and a failure is sent as code 2, "Server failure" (`:298`) | it keeps `flags & 0x8080`, which clears the code: over UDP a failure reads as a name without records |

Other disagreements met on the way, which no run shows.

*Scheduler and commands.*  `kill` prints that the task was killed
(`src/cli.cc:166`), but `Schedule` overwrites the flag before it tests it
(`src/multitasking.cc:101`) and the last task of the table stops instead.  After a program has ended, the
task resumed is slot 0 and the next frame is stored in the wrong task
(`src/multitasking.cc:119-121`).  A script task sets its own kill flag at its
end, which is overwritten too, so finished scripts keep their turns.

*Disk and files.*  "Subsequent reads will find the data"
(`src/drivers/ata_stub.cc:493`): a callback asked for earlier puts the old
content back into the cache.  Reads of the table do not wait for IndexedDB
(`src/filesys/ofs.cc:116`); a write before the database is open is kept in the cache
only (`src/drivers/ata_stub.cc:469`).  "Cache sectors for every file
currently allocated" (`src/filesys/ofs.cc:48`): with a hole in the table, left by a crash, the
last files are not found.  "Write initial block of data"
(`src/filesys/ofs.cc:688`): when an existing file's name begins the same way the block goes into that
file.  "Delete actual file data" (`src/filesys/ofs.cc:706`): the partly
filled last block of a download stays.  `Push`: "point to new node as last" (`src/list.cc:117`):
after the last of several nodes was removed by index the new one is not in the
list.  The text editor writes a new file's block
as block 0 whatever block is edited (`src/mode/file_edit.cc:177`), and lets any of 128 blocks be edited
next (`:188`): `WriteLBA` tests only whether a header lies where the block begins ("check for
fragmentation", `src/filesys/ofs.cc:852`), so a block far on is written over the header of another file or
behind it, and the size it then gives its file takes the other one in.

*Scripts.*  `loop` keeps its place in the block (`src/script.cc:176-188`): a
loop on the first line of a script ends the script after one turn, and a `pool` in a later block jumps elsewhere.
`else` is itself a line that a false condition skips, so its branch is
never run.  A loop inside a false `if` repeats for ever; behind a nested loop in a loop that
is skipped the rest of the outer body is run.  A last line without a line end is not run.
Nothing sets `scriptKillSwitch`.  A block number is a byte.

*Network.*  The dimensions of the buffers are exchanged.  `Send` takes its descriptor
in two statements that an interrupt may separate.  The status that is
written back to acknowledge an interrupt may take back a later one.  Repeated answers fill the
ARP cache, and its entries are never replaced.  `BroadcastMACAddress` writes through an unset
pointer.

*DNS server.*  A domain can be there twice: two overlapping additions
(`dns/cpp/src/DnsServer.cpp:1223`), or a change that renames; a deletion takes both.
A failed save answers 400 with the change in memory, and errors of writing are not noticed.
`SOA` is listed as a record type (`dns/README_CPP.md:10`) and cannot be encoded: a name with such an
override is answered with an error.  When the query itself cannot be encoded for upstream, the socket made for
it stays open (`dns/cpp/src/DnsServer.cpp:349-363`).  An idle TCP client holds the TCP thread.  `stop` waits
for an HTTP thread that nothing ends (`dns/cpp/src/main.cpp:62`).  The length before a
TCP message is byte-swapped (`dns/cpp/src/DnsServer.cpp:183-186`).  "Hot Reload" is
promised, but nothing calls `reloadDatabase`.  The TypeScript server has no
time limit upstream and reports a failure there twice.

*Desktop and others.*  The edge of the close
box closes a user window without telling its command line (`src/gui/window.cc:254`, `src/script.cc:38`); the fifth taskbar
button is drawn at a left edge that wrapped (`src/gui/desktop.cc:324`); an instruction with a small
immediate overwrites its opcode (`src/code/asm.cc:476`); `README_WEB.md:67` says that
there is no persistent file system, and there is.

## 4. What is proved

TLAPS proves the following for every value of the constants.

**Heap** (`HeapProofs`), from `HeapAssumption` alone: addresses and sizes are naturals, the
region does not start at 0 and a header is not empty; the region may be
too small for one header.

- `HeapInvariant`: `Spec => []IInv`.
- `HeapTypeOK`, `HeapCoalesced`, `HeapBlocksHeld`, `HeapBlocksStay`, `HeapBlocksSafe`,
  `HeapFullyReclaimed`: its parts, and the other properties of the run.

`IInv` is the conjunction of `TypeOK`, `Tiling`, `LinksMirror`, `Disjoint`, `Coalesced` and
`BlocksHeld`.  None of the parts is inductive by itself: to free a block without breaking
the tiling, `prev` must name the chunk that is really before it (`LinksMirror`); for
one merge on each side to be enough the heap must have been coalesced; for
the pointer given back to be a chunk at all, `BlocksHeld` is needed.  `free` merges twice in a
row, so the lemmas are about any map of headers: `FlagWellFormed`, `AbsorbWellFormed` and
`SplitWellFormed` say what each elementary change leaves of well-formedness, and
`TakeKeeps` and `ReleaseKeeps` put them together for `malloc` and `free`.

**TaskManager** (in `ScriptTasksProofs`, whose theorems rest on these), from
`TaskAssumption` alone: the null slot and the kernel loop are no tasks, and the table has a slot.

- `TaskManagerTypeOK`, `TaskManagerSlotsFilled`, `TaskManagerFramesOwn`, `TaskManagerCurrentRuns`,
  `TaskManagerNothingLost`, all from `TaskManagerInvariant`.
- `TaskManagerRoundRobin`, from that and `TaskManagerTurns`.

The inductive invariant adds two facts to those properties.  `CurrentBelow`: until a program has ended,
`currentTask` lies below `numTasks`; otherwise `AddTask` could put its task into the
slot `currentTask` names, and the next frame would be stored in the wrong task.  `MainFirst`:
before the first turn the kernel loop is what runs, so what is lost then is only its frame.
For `RoundRobin` each task must be in the table once, and those that had a turn since the task of slot
i had its own must lie between i and `currentTask`, going round the end of the
table (`RoundInv`): the next turn then cannot go to one of them before it goes to i.

**AtaWeb** (`AtaWebScriptProofs`), from `AtaAssumption`: sectors and contents are naturals,
and a half of a sector can hold 0 and 1.

- `AtaWebTypeOK`, `AtaWebCacheComplete`, `AtaWebCoherent`, `AtaWebStoreCatchesUp`, all from
  `AtaWebInvariant`.
- `AtaWebIsPrefixDisk`: `Spec => DurablePrefix`, the refinement of `PrefixDisk`.

`Coherent` says nothing of transactions, so `IInv` does.  `ScanFirst`: the cursor's
transaction is the oldest, hence no put runs beside it.  `GetsLast`: of a sector not
written too early, no get in the queue is older than a put.  `LastPut`: the last put of it, or the
store when there is none, has what the disk should have.  A get that runs then finds no
put of its sector before it (it may run) and none behind it (`GetsLast`), so what it puts
into the cache is right.  `KeysCached` and `ScanClean` carry
this over the moment when the cache is declared populated.  For the refinement,
`PutLands`, `WriteIssues` and `ReloadCrashes` say which steps move the abstract disk, and
`OthersStutter` that no other does: a get may be carried out from within the queue, and the writes of the puts
round it stay what they were.

**Script** (the second part of `AtaWebScriptProofs`), from `ScriptAssumption`: the lines of a script
follow each other with a line end between, it has one, a block and the stack of loops have room for something, and
a place in a block fits into `Width`.

- `ScriptKeepsInStep`: `ScriptSpec => []ScriptInv`, from `ScriptInvariant`.
- `PoolTakesItsLoop`: `ScriptSpec => []PoolMatches`.
- `ScriptRunsTheLines`: `ScriptSpec => RunsTheLines`, the refinement of `ScriptLines`.

`ScriptIInv` says where the places are: the place in the block and the block
number are those of `indexF`, and the buffer is that block (`InPlace`); what has been read of the line is what stands there
(`Followed`); and every loop that is remembered is a `loop` line before this one, with the place of its first byte
modulo `Width` (`Remembered`).  `pool` then comes out at the loop's first byte exactly if the loop lies within the block of
the `pool` and not at its start (`FoundWhenNear`), which is what `ScriptLines` asks of a line.  In scripts of up to
`Width` bytes the places stay in step after a jump astray as well, because such a jump ends in the block where
it starts or behind the script (`Landing`); in longer ones they need not, and `InSync` says so.
For `PoolMatches` the brackets are counted (`Balance`): the loops open before a line are changed by
that line just as the stack is (`OpenStep`), as long as it has room.  The refinement is one lemma for each kind of turn
(`OrdinaryMaps`, `EnterMaps`, `LeaveMaps`, `RepeatMaps`).

**LinkedList** (in `ScriptTasksProofs`), from `ListAssumption`: the null pointer is no node.

- `LinkedListIsSequence`: `ListSpec => []ListInv`, from `LinkedListInvariant`.

`ListInv` is not inductive: nothing in it keeps a node from standing in the list twice, and then to
relink one place would relink the other; `IsList` adds that.  `Walk`, the
list as its links give it, is a recursively defined function.  That there is one is proved
first (`Iterates`: a function on the numbers is defined by its first value and by each
from the one before), and that it is the only path along the links (`WalkIs`); the lemmas `PushKeeps` to `DestroyKeeps` then
give the path after each method.  Both use induction on a *set* of numbers (`Inductive`), by
a least counterexample.

**Ofs** (`OfsProofs`), from `OfsAssumption`: a name begins itself, no name is the one of
a sector without a header, there is a sector below the data, a table entry and a sector to a
block, and a block is no longer than the jump (4 and 2048 in the code).  Disk, table,
block, names, downloads and what may go astray are of any size.

- `OfsDiskInv`, `OfsReadsBack`, `OfsRestartFindsAll`, and the action property
  `OfsCrashSparesOthers`, all from `OfsInvariant`: `Spec => []IInv`.

`IInv` has two layers.  `Typed` and `Ledger` hold whatever goes wrong: types, and that until an operation was cut
short the first `count` entries of the table are its used ones.  The rest holds while nothing has gone
astray: `Kept`, that the disk, the list and the promises agree, and `Promised`, that every file of the list was
promised.  None of the properties is inductive.  `ReadsBack` says what reading returns,
not where it comes from: a block is safe from the next operation because its file ends
before the next file begins and before the open sector (`Laid`), because all of it lies within its file
(`Held`), and because no name in the list begins another, so that looking a name up
finds its own file.  Files end later than their size says when a download has brought the size down to less
than it wrote: the last block then lies in the tail (`Tailed`), and deleting such a file leaves it behind, which is the
event `leftover`.  `Tabled` says that each file has one entry: `RemoveTable` moves the newest entry
into the hole while the list closes up, so only the *sets* agree, and `RestartFindsAll` is
all that can be said of a restart.

`Kept` takes the disk, the memory and the promises as arguments, because an operation passes through many disks.
For each helper a predicate says what a call that goes well does (`Put` for `WriteLBA`, `Unlisted` for
`RemoveTable`, `Shortened` for the list, `Shrunk` for `UpdateSize`, `Deleted`), one lemma
that the helper does it and another what it keeps.  A row of blocks, as a download writes and a
deletion wipes them, is a path from state to state (`Row`; that there is one is `Iterates`), and
the induction goes along the path as it does for `LinkedList`.  For `CrashSparesOthers` the same is asked of *every* disk on
the way: `Spares` holds of a disk on which every other file of the list is found and read as before, the lemmas
`PutSpares` (a block), `MadeSpares` (a creation, whose disks `Fresh` describes) and `TouchSpares` to
`DeleteSpares` (the operations) prove it of the disks written in between, and `CutSpares` that a crash
loads one of them.

That proof found two gaps in the model, which TLC had not met with fewer blocks: a growing block may cover or pass another
file's header, and an operation on a name that begins another's works on the other's file.  Both are what the code
does; they are events now (`overlapped`, `shadowed`).

**WindowManager** (`WindowManagerProofs`), from `WindowAssumption`: the table has room for a window
and for fewer than a byte counts; a byte is not more than the width of the
screen, and three quarters of the width fit in it (30, 256 and 320 in the code).

- `WindowsKept` (`DesktopInv`), `FrontHasFocus` (`FocusOnTop`), `CommandLineKnowsItsWindow`
  (`OneUserWindow`), all from `WindowsGood`.
- `ButtonsOpenWhatTheyShow` (`TaskBarOpensShown`), `WindowsKeepOrder` (`StackOrder`).

One click runs through several handlers, so the lemmas are about desktops: `Good(d)` holds, and each
handler keeps it.  Besides the properties it says that a minimised window is parked outside the
screen (`Counted`), so that none is minimised and counted twice.  For the
taskbar: the minimised windows in front of one and those behind it are together all the others, so the
count from the back meets each number of a button once, and the left edges of up to four buttons fit in
a byte.  For `StackOrder`, `Order` says how many windows a handler brings to the front and
that the rest are where they were or further behind; the handlers of a click add up to at
most two.

**ScriptTasks** (`ScriptTasksProofs`), from `TaskAssumption` and `ScriptTasksAssumption`
(null pointers are no command lines and no scripts, scripts are blocks of lines).

- `ScriptTasksSchedule`: `ScriptSpec` implies the specification of `TaskManager`.  So
  the theorems about the scheduler hold here too, and its invariant is used below.
- `ScriptTasksFreedOnce`, `ScriptTasksNoFreedTask`, `ScriptTasksIdleObeys`, from
  `ScriptTasksInvariant`.
- `ScriptTasksRunAsWritten`: `ScriptSpec => []TasksInv`, from `ScriptTasksReads`.

The invariant needs `FreesTheLast` (with one maker, the command line's `userTask` is the last entry of
the table, so `kill`'s two mistakes meet in the same task), `UserTasks` (a command line's
`userTask` is one it made and has not been freed) and, for `IdleObeys`, where a script that made a condition false is (`Placed`, `MadeRun`).

`RunsAsWritten` speaks only of the end of a script, `ReadInv` of all its lines: before its first
turn a task alone on its command line is the one asked for last (`Waits`), and from then on it has said
what the lines behind its place say, has the block before it that the script has there, and
the condition of its command line is what those lines left (`Runs`).  `NextLine` and
`NextBlock` say what passing a line or the end of a block changes in that.

**Network** (`NetworkProofs`), from `NetworkAssumption`: broadcast is no host and the typed
command no script task, rings have a descriptor and a `Resolve` polls at least once.

- `NetworkReceives` (`ReceiveInv`) and `NetworkSendsInOrder` (`SendInOrder`), from `NetworkRings`.
- `NetworkPingsDirect`, from `NetworkInvariant`.

A ring keeps step if the descriptors that hold a frame are the ones from the
consumer's place on, as many as there are frames to come, and the producer stands behind
the last (`Ringed`); the buffer of the k-th is the k-th frame unless it shared the ring
with others.  This holds of both rings.  A frame more or less makes the ring of `Pushed` or
`Popped`, and each step of the card, of the handler and of `Send` is one of the two.  `OneSends` (until
`Send`s mix, at most one has taken a descriptor) is needed for the send ring, where `Send`
takes a descriptor and moves on in two steps.  `Announced` is `Signalled` with what makes it
so: once the handler has found no more frames, those there are came after its last test.  For `PingsDirect`: the cache only
grows, so what was learnt stays in it (`ToldCached`).

**DnsServer** (`DnsServerProofs`), without an assumption.

- `DnsServerPromiseKept`, from `DnsServerInvariant`.
- `DnsServerAnswersFit`: `Spec => []ServerInv`, from `DnsServerResolversKnow`.

For `PromiseKept` the invariant says what a handler that is still alone will write (`AloneOK`), that a list
promised is in the file until another opens it (`PromiseOK`), and that no handler is at work while the
server is down (`DownOK`).  For `AnswersFit` it says what a resolver knows between its
steps (`ResolverOK`): if nothing was changed since it looked, the place it holds is still that of the first match,
or there is still none; what `Encoded` makes of an override is its answer or the error (`EncodedFacts`); while the server is down no resolver is at work, so that a restart replaces the
overrides under nobody.

**DnsServerTs** (`DnsServerTsProofs`), from `DnsTsAssumption`: `DnsServerTsTypeOK`,
`DnsServerTsSocketsClosed`, `DnsServerTsOneAnswer`, `DnsServerTsAnswersFit`.  `Silent` (a
query that is not over has been answered nothing, and what went upstream can be told from where it is) is needed for `OneAnswer`; `Decided`
(what decided an answer is still so) for `AnswersFit`.  That the search returns
the *first* match rests on the lemmas `MinIsLeast` and `FindsFirst`.

**Only model-checked:**

- what must happen in the end: `TurnsComeRound`, `Ends`, `QueriesEnd`.  Liveness
  under fairness and `ENABLED` are out of this prover's reach.

## 5. What is not modelled, and limits

- In `Heap`, `Ofs`, `LinkedList` and `WindowManager` one step is one handler.  A task that is preempted in the middle of
  a desktop or file operation while an interrupt works on the same data is not modelled; the hazards
  list the places.  `ScriptTasks`, `Network` and `DnsServer` do cut handlers where another actor may come
  between.
- Memory contents: `delete` of an object that is still referred to shows only as
  a hazard.
- Nested interrupts and stacks.
- `Network.Handle` takes a frame in one step, while the card may write the buffer it is read from; the
  model ends when `Send`s have mixed.  The premises of `DiskInv`, `ReadsBack` and `RestartFindsAll` end with what the
  hazards at the file table and at whole blocks bring about, as they say; what follows then is not explored.
- A script line that is longer than `line`.
- Wrap-around of counters other than those the properties name (the taskbar's byte and
  the close box's distance are modelled; the file count's byte sum is not).
- Names longer than the header allows, and the division of the table into sectors.
- The native disk driver, kernel start and mode switch, keyboard and mouse, the assembler,
  packets and everything that is computation or drawing, for the reasons given in the inventory.
- `osakaOS.js` is the compiled form of the C++ code and is modelled through it.  The
  definitions of the models stand for about 4000 lines of `src/`, `include/` and `dns/`.

## 6. What is left

Modules, in this order:

1. `ModeSwitch`: request flags, the handlers that are exchanged, the GUI task of each entry.
2. Preemption inside `GetFocus` and `CreateChild`: a script task and the mouse interrupt.
3. Compositions: `Ofs` on `AtaWeb` (a reload while the file system is written), `Heap` with
   `LinkedList` for `RefreshFileTable`.
4. Tags, images, `Compress` and `Crypt` of the file system, against their decoding.

Abstract specifications worth stating: a map from name to file for `Ofs`; a
sequence for `LinkedList`; an atomic database for `DnsServer`.

Theorems worth proving next: that `Ofs` implements a map from names to files, to which `Kept` is
the refinement mapping; and that `ScriptTasks` runs what `Script` runs, the lines of one script at a time.
