# Verification of Nhap

TLA+ modules, TLC runs and TLAPS proofs for the programs of this repository that
keep state and share it: the network administration server in `nhap/ip`, the
sum server in `linux-inter-process-communication`, the TCP chat in
`nhap/sock-stream`, the shared-memory chat in `nhap/chat-shm`, the copying and
downloading programs, and the kernel drivers of `Linux-Device-Driver`,
`Code-A-Linux-Driver` and `Driver-BBB`. Paths below are relative to `src/`.

## 1. The system: an inventory

The repository is a collection of C programs. Most are short and sequential.
Those that keep state and share it with somebody are:

| component | state | operations | interacts through |
|---|---|---|---|
| `nhap/ip/server.c` | routing table, MAC list, `monitored_fd_set`, `client_pid_set`, one `sync_msg` per turn of the select loop | accept and dump, command and broadcast, FLUSH, client status, SIGINT | Unix stream sockets, SIGUSR1 to clients, shared memory |
| `nhap/ip/client.c` | its copies of both tables, `loop` | send pid, register handlers, read a frame and process it, answer a prompt, SIGINT, SIGUSR1 | the socket, shared memory |
| `nhap/ip/sync`, `routing-table`, `mac-list` | the tables | `process_sync_mesg`: CREATE, UPDATE, DELETE; the finds | called by server and clients alike |
| `nhap/ip/dll` | a doubly linked list with a dummy head and a tail pointer | `init_dll`, `append`, `del`, `deinit_dll` | the SIGUSR1 handler runs inside all of them |
| `nhap/ip/shm_ip.c` | one shared object per MAC with its IP address | `store_IP`, `get_IP` | shared memory of server and clients |
| `multiplexed-client-server/server.c`, `client.c` | `monitored_fd_set`, `client_result` | accept, add a summand, answer and close | Unix stream sockets |
| `07-waitqueue` (static and dynamic) | `wait_queue_flag`, `read_count`, a kernel thread | open, read, release, the thread's loop, module exit | a wait queue |
| `02-Major-Minor-Number`, `03-Device-file`, `Code-A-Linux-Driver/01` | device number, cdev, class, device | init with unwinding, exit | the kernel's registries; `03` shares its class name with others |
| `04-File-Operations`, `05-IOCTL`, `Code-A-Linux-Driver/02` | the same, a kernel buffer, its `size`, a file position per open file | the same, open, read, write, lseek, ioctl | the VFS |
| `06-procfs`, `08-sysfs` | the same plus an entry of their own and, in procfs, the global `len` | the same plus the entry's read and write | the VFS |
| `Driver-BBB/00`, `01` | a platform driver; the registers of a GPIO bank, `ledInitDone` | init, probe, remove, exit; `led_show`, `led_store` | sysfs, other drivers of the bank |
| `nhap/chat-shm`, `full-chat-shm` | a shared page that first holds a pid and then lines | write a line and signal, print on SIGUSR1, both exit handlers | shared memory, signals |
| `nhap/sock-stream` | one connection at a time, the queue behind it | accept, read a line, answer it, "exit" from either side | a TCP stream |
| `nhap/download-file-program` | a file in pieces | connect, read, send; accept, read, write | a TCP stream |
| `normal-function/copy`, `download-file-program/test.c` | a file, or the files of a directory, in pieces | `copyFiles`, `copyDir`, `dostat` | the file system |

The rest (introductory drivers, single-client sum server, key loggers, `ls`
programs, exercises, build output) is listed in PROJECT.json with the reason it
is left out.

### What is hard, and what correct means

* **Replication** (`nhap/ip`). Clients join between two commands, leave between
  two writes of a broadcast, and are slow: `write` blocks the one server
  thread. Correct: a client that has read everything written to it has the
  server's tables; every update arrives once and in order; nobody waits for
  ever; shutdown reaches everybody; slots are neither lost nor shared.
* **FLUSH** (`nhap/ip`). It overtakes frames by a signal, and the handler frees
  the lists under whatever code it interrupts. Correct: the signal reaches every
  client, the lists stay well formed, and no route of the server is missing at
  a client afterwards.
* **List surgery** (`nhap/ip/dll`). The handler may see a half-linked node.
  Correct: the list is whole between operations, and no freed cell is touched.
* **Shared addresses** (`nhap/ip/shm_ip.c`). The object is truncated while it
  is mapped elsewhere. Correct: an address is complete before its MAC is
  announced, and stays so except while it is replaced.
* **Sums** (sum server). Slots are reused, one read can return several numbers,
  and a loop over the table changes the table. Correct: no summand ends up in
  another client's result, and the server blocks in `select` only.
* **Turns** (TCP chat). Both sides block in `read` in turn, on a stream that
  keeps no frames; a closed connection ends whoever writes to it again.
  Correct: never both wait, answers belong to their lines, "exit" ends a
  conversation and nothing else.
* **Events** (wait queue). Three parties write one flag without a lock.
  Correct: no wake-up is lost, no event counted twice.
* **Life cycles** (all drivers). Any call of an init function may fail, the
  labels it then jumps to differ from driver to driver, and processes come in as
  soon as the device is visible. Correct: a healthy driver never runs code or
  touches memory that is gone, what is registered is given back, a driver that
  has gone can be loaded again.
* **Shared buffers** (character drivers). One buffer and one `size` for all open
  files, no lock. Correct: every copy stays in the page, and calls that do not
  overlap see one write, not a mixture.
* **Shared switches** (`06-procfs`, `01-LED-Reconf`). One `len` decides for all
  readers whether the text or the end is next; one register holds the
  directions of a whole bank. Correct: the text is there for the next reader,
  and `led_show` tells what `led_store` did.
* **The page that stays** (shared-memory chat). It outlives the programs, and
  the two write it at the same time. Correct: the server signals a client, and
  a line it tells the client of is shown.
* **Files in pieces** (copies, download). Calls take less than they are given,
  fail, and processes are killed. Correct: what has arrived is a prefix, and
  success means that everything has.

## 2. Modules

| module | models | notes |
|---|---|---|
| `SyncTables` | tables, `sync_msg_t`, `process_sync_mesg` | pure operators |
| `NetAdmin` | server and clients of `nhap/ip` | EXTENDS `SyncTables` |
| `NetAdminProps` | its invariants and liveness properties | |
| `TableReplication` | abstract: one master; a member gets a copy of its tables when it joins and then every update, each with its notices, through a queue of what it is owed | the promise of the server |
| `NetAdminRefinement` | `NetAdmin` implements `TableReplication` | INSTANCE with a refinement mapping: owed is what is in the socket and what the loop has yet to write |
| `Dll`, `DllProps`, `ListSpec` | the list by single pointer writes, and the abstract list | `Implements` is the refinement |
| `IpStore`, `IpStoreProps` | the shared address of one MAC | |
| `SumServer`, `SumServerProps` | the multiplexed sum server and its clients | |
| `SockChat`, `SockChatProps` | the TCP chat: server, clients and what close and reset do to a stream | |
| `WaitQueue`, `WaitQueueProps` | the wait-queue driver and `rmmod` | |
| `DriverRecipes` | what init, unwinding, exit and handlers of each driver register, release and use | data for `DriverLife` |
| `DriverLife`, `DriverProps` | insmod, failing calls, rmmod and the processes inside, for twelve drivers | EXTENDS `DriverRecipes` |
| `DevBuffer` | open, read, write, lseek and close of the character drivers | |
| `ProcEntry` | the readers of the proc entry | |
| `LedPin` | `led_show`, `led_store` and `led_init` on the bank's registers | |
| `Handlers` | one of the last three on a machine, and their properties | three INSTANCEs |
| `ShmChat`, `ShmChatProps` | the shared-memory chat, both programs and the page | |
| `FileCopy`, `FileCopyProps` | the copying programs and the download | |
| `ByteStream` | abstract: bytes come out in order, none twice, none left out | `FileCopyProps!Implements` is the refinement |
| `MC*` | instances for TLC | |
| `*Proofs` | theorems | `IpMemoryProofs` covers `Dll` and `IpStore`, `DriverProofs` covers `DriverLife` and `WaitQueue`, `HandlersProofs` its three parts, the others one component each |

Some action definitions have a neighbour that differs from it by one slip
(`SBcastStops` beside `SBcast`, `KeepResult` beside `ResetSlot`, and so on).
They are not part of any `Next`. They are mistakes the real code could have
made, and each property is known to fail when one is put in.

### nhap/ip: NetAdmin

`tbl`, `fds`, `pids` are the server's globals; `cur` and `sync` the `sync_msg`
and `synchronized` of the current turn; `spc` and `pos` say which loop it is in
and where. `chan[c]` is what was written to client c and not read yet, in
frames: the code writes message, `synchronized` and `loop` one after another
and the client reads the three together, so a frame is one element. The one
place that cuts a frame short is the SIGINT handler: a cut frame (`CutFrames`,
`IsCut`) is the last element of a client that is `Halfway`. The goodbye that
the handler then writes is as long as what is missing and more, and a stream
keeps no frames: its bytes first complete the cut frame (`Completed`), and what
is left of it makes one more frame (`Remainders`), which says "leave" or not
depending on what memory held.

| action | code |
|---|---|
| `SAccept`, `SDumpEntry`, `SDumpNotice` | first branch of the loop and `update_new_client`; one action per frame |
| `SCommand`, `SBcast`, `SBcastDone` | second branch: the server's table first, then one action per slot |
| `SFlush` | `create_sync_message`'s case F: the signals, both lists, then the broadcast of an empty message |
| `SSelectClients`, `SStatus`, `SStatusDone` | third branch |
| `SBadMask` | 'C' with an address and no mask: `strtok`'s NULL reaches `digits_only`, SIGSEGV |
| `SSigpipe` | a write to a closed peer; the signal is not handled |
| `SSigint`, `SGoodbye`, `SExit` | `signal_handler` of the server, from any point of the loop, also between two of the three writes of a frame |
| `CConnect` to `CRegister` | `main` of the client up to its loop |
| `CRecv`, `CAnswer`, `CEof` | one turn of the client's loop |
| `CCutOff` | the turn that reads a cut frame after the server has gone: the missing reads return 0 and their variables keep what they held |
| `CQuit`, `CKill`, `SCrash` | SIGINT at a client, and deaths without a word |

Strings are sequences of numbers, because one behaviour depends on their
length: `memcpy(field, token, strlen(token))` leaves the tail of a longer old
value (`Overlay`). `via` stands for `gw` and `oif`, which are always copied
together. Malformed commands leave tables and sockets alone and are left out,
except the one without a mask. A client that dies before it has written its pid
is accepted like any other: `read` returns 0, some number takes the place in
`client_pid_set`, and the first write of the dump ends the server.

### nhap/ip/dll: Dll

Cells are model values; `next`, `prev`, `head`, `tail` are the pointers and
`live` what malloc has handed out. `append` is `Calloc`, `Alloc`, `HeadPrev`,
`TailNext`, `SetTail`; `del` is `PrevNext`, `NextPrev`, `FixTail`, `Free`. The
handler (`Signal`, `HandlerDel`, `HandlerInit`) can start between any two of
them, as SIGUSR1 can, and does not return in the middle. After it the
interrupted operation goes on with what it had (`stale`).

### nhap/ip/shm_ip.c: IpStore

One MAC, one object. Addresses carry the number of the command that set them,
so "older" is `<`. `store_IP` is five steps: truncate, resize, start to copy,
finish, announce. An empty line makes `mmap` fail after the truncation
(`StoreRefused`). `get_IP` is two steps, map and copy, so a store can come in
between; a copy from an object of length zero is a SIGBUS. DELETE calls
`unlink`, which takes a file path and leaves the object where it is. FLUSH is
left to `NetAdmin` and `Dll`; it does not touch the object.

### The sum server: SumServer

A summand counts one, so a result counts summands. A client sends nothing
after its 0, so its socket is a number of unread summands and a flag. The slot
of the listening socket is left out of `fds`. The loop's position is implied by
the clients that are left in `ready`: `Turn` takes the lowest slot, and a slot
that is not ready is passed over, which changes nothing. A read takes up to
`PerRead` numbers and looks at the first.

### The TCP chat: SockChat

A buffer of `BUFF_SIZE` bytes is `Units` parts, and a part knows its line, its
place and whether the line is "exit". `up` and `down` are the two directions of
a connection. A read takes any number of parts up to a buffer full, and
`IsExit` looks at the start of what it took, as `strncmp` does. `sEnd` and
`cEnd` say how each end was closed: with a FIN, or, when something was unread,
with a reset, which may overtake what was sent before. `read` returning 0 is
not an error in this code: the buffer is all padding and the loop goes on
(`SReadEof`, `CReadEof`). The first write to a peer that is gone gets through,
the second ends the writer (`sLost`, `cLost`); the reset that makes the
difference is taken to arrive while a person types. `fgets` and `write` are one
action. `Closed`, `Kept` and the two `WriteFails` are the kernel's part and
marked external.

| action | code |
|---|---|
| `SAccept` | `accept` in `main` of the server |
| `SRead`, `SReadEof`, `SReset` | the `read` of the server's `chat_func`, with the break on "exit" |
| `SReply`, `SSigpipe` | its `fgets` and `write`, with the break on "exit" |
| `SKill`, `CKill` | Ctrl-C |
| `CConnect`, `CRefused` | `main` of the client |
| `CSend`, `CRead`, `CReadEof`, `CFails` | the client's `chat_func` |

### The wait queue: WaitQueue

One action per access to the flag: `Check` (queue, test, sleep), `Test` (is it
2?), `Count`, `Clear`; `Read` and `ReadWakes`; `ExitFlags`, `ExitWakes`,
`Unload`. `wait_event_interruptible` enqueues the thread before it evaluates
the condition, so test and sleep are one step to a waker. A step of the thread
after `Unload` executes freed memory and is the state `oops`.

### Life cycles: DriverRecipes and DriverLife

A recipe is the source of an init function as data: each `Step` says what a
call registers, which failure the code tests for after it, and which calls the
label it jumps to makes. `ErrorOf` says how the kernel really reports each
failure; where the two differ (`class_create` and `device_create` return error
pointers, the code looks for NULL) the failure goes unnoticed and lands in
`bad`. So do failures for which there is no test at all, as those of the
device-tree calls in the LED's probe (pin, node, base address); where the result
of such a call is used at once, a failure ends the kernel. `exit`, `probe` and `remove` are sequences of release calls, and
`Releases` what each takes away. `Needs` is what the handlers dereference.

| action | code |
|---|---|
| `Insmod`, `Succeed`, `Fail`, `Loaded` | the init function call by call, with probe behind it for platform drivers |
| `Rmmod`, `Release`, `Finish` | the exit function, or the labels of a failed init, call by call; then the kernel frees the module |
| `ThreadEnds`, `LeftThread` | the wait-queue thread returns after exit has woken it; one that was too slow goes on in freed code |
| `Enter`, `Use`, `Leave` | a process opens the device file, or a read or write of the entry begins; a handler runs; the last code of the call |
| `EnterFreed` | the same through something that a module which has gone left behind |

The kernel's part is the owner field (`Rmmod` waits for open files), the removal
of an entry (`Drains` lets nobody in and waits for those inside), the pool of
device numbers and the name of the class, which eight drivers share. What the
handlers do with their buffers is `DevBuffer`'s, the end of the kernel after
`m_write`'s overrun with it; here a handler only needs its objects to exist.

### The buffer: DevBuffer

`mem[i]` is the write that byte i stems from, `Zero` or `Junk` (what `kmalloc`
gave). `m_write` is `Write` (count and position are read), `Clear` (the memset,
byte by byte) and `Fill` (`copy_from_user`, which may stop anywhere, then
position and size); `m_read` is `Read` and `Copy`; `Seek` is `m_lseek` with its
three origins. `Page` and `Alloc` are apart because the code clears `NPAGES *
PAGE_SIZE` bytes where it allocated 1024: `Overrun` is the kernel's end after
that, and the properties hold up to it.

### The proc entry and the LED: ProcEntry, LedPin

`m_read_proc` tests `len` and changes it in two steps (`TestLen`, then
`ReadText` or `ReadEnd`). A reader is a `cat`: it reads until 0, unless it
leaves early (`Quit`). In `LedPin` a register is the set of pins whose bit is
set. `led_init` is `ReadOe`, `WriteOe`, `SetDone`; `led_store` and `led_show`
are `Call`, then `ReadData` and `WriteData`, or `Refuse`. `OtherReads`,
`OtherTurns` and `OtherDrives` are another driver of the bank.

### The shared-memory chat: ShmChat

A segment is a number, `name` the one that "duc-map" stands for, and `text[s]`
what is written in it: nothing, a pid, or a line, whole or half way. The server
is `SStart`, `SPoll` (`atol` of the page until it is not 0), `STake` (`atol`
again), `SType`, `SCopied`, `SKill`, and `SInt`; a client `CStart`, `COpen`,
`CWritePid` (two steps), `CPrint` and `CPrinted` (the handler reads the page
while the server writes it), `CLeave`. A segment whose name is gone lives on
with those who have it mapped. `line` counts the lines typed and `chat` is the
line in the array of that name: at end of input `fgets` leaves it alone, so the
server copies the last line of its run again, or, when there was none, what the
stack held (line 0, which nobody typed). A server may be started again, a client
is a process and runs once.

### Copies and the download: FileCopy

`prog` is the program: `copy.c` as it decides between its two modes by the
first character of its arguments, `test.c`, or the download. The process that
reads the source is the same loop everywhere (`SNext`, `SNoDir`, `SOpen`,
`SRead`, and `SWrite` to a file or `SConnect` and `SSend` to a socket); the
download's server is `RAccept`, `RRead`, `RReadFails`, `RWrite`. Bytes are
numbered. A write may take less than it is given, any call may fail, and both processes may be
killed (`SKilled`, `RKilled`). `unseen` records that a failure ended a loop the
way the end of the file does; `same` is a file copied onto itself; `cwd` are the
names that the working directory has, where `dostat` looks; `long` are the names
whose path is longer than `copyDir`'s arrays: one path runs into the other and
the copy goes to a file nobody named, or fails (`Misled`). The
`client.c` of the download does not compile as it stands (`total_bytes_copied`
is declared under another name) and is taken as meant.

## 3. Runs

| run | instance | what it shows |
|---|---|---|
| `na_sync` | 2 clients, 2 slots, 2 routes and 1 MAC, 2 commands, buffers of 2 frames, SIGINT everywhere, frames cut short | `Replica`, `InSync`, and the refinement of `TableReplication` |
| `na_live` | the same with 1 route, no MAC and buffers of 1 frame, frames cut short too; fairness | shutdown is told and obeyed, tables converge, slots of clients that left are freed |
| `na_faults` | 3 clients for 2 slots, FLUSH, kills, crashes, the command without a mask | keys stay unique, no route is missing after FLUSH, FLUSH reaches all |
| `dll` | 5 cells, 2 flushes | the list is whole, no freed cell is touched, `ListSpec` is implemented |
| `ip` | 2 clients, 4 commands | an announced address is complete and never old outside stores |
| `sum` | 3 clients for 2 slots, up to 2 summands, 2 numbers per read | answers, blocking, and that answers come |
| `sock` | 2 clients, frames of 2 parts, 2 lines and an "exit" each, a queue of 1 | the two sides never both wait, answers stay in step while frames are whole, "exit" never ends the server, every line is answered or its client told |
| `waitqueue` | 3 readers, 6 reads | wake-ups, counts, and that a raised flag comes down |
| `drivers` | each of 12 drivers alone, and two pairs that want one class name, `File_Operation` with `device-file` and `fops` with `procfs`; 2 users, 2 device numbers | a driver that has not failed is safe, modules are pinned while used, what is left behind, and that it does not keep a driver from being loaded again |
| `handlers` | 2 users; a page of 3 bytes, a block of 2, 2 writes; 2 pins | copies stay in the page, reads see one write, the proc entry is rewound, the LED shows what was stored |
| `shm` | 2 clients, 2 lines, 2 runs of the server | the server signals somebody who looks at the same page, or who has gone, and a line it tells of is shown |
| `filecopy` | 2 files of 0 to 4 bytes, buffers of 2, a socket of 3 | `ByteStream` is implemented, success means whole but for the files that `copyDir` misses, nobody waits for ever |

### Why these bounds are enough

* Two clients and two slots give every order of join, command, broadcast and
  leave between a client that is served early and one that is served late;
  three clients for two slots add a full table and the reuse of a slot.
* Two commands are the shortest history in which one is ahead of a dump and one
  behind it. Messages only interact by their key, so two routes show a hit and
  a miss; the MAC brings in the second list.
* One frame of buffer makes every write able to block, two make a frame arrive
  behind another. Larger buffers only add states in which fewer writes block.
* Five cells hold a dummy, two nodes and a list under construction in the
  handler. Two flushes let a handler meet what an earlier one left behind.
* In `sum` one client can have two summands and a 0 in its socket at once, with
  room for two numbers per read: both kinds of loss happen. The other two
  clients reuse its slot or find the table full.
* In `sock` two parts are the least that can be cut, and both are needed to
  recognise "exit". One client is in conversation while the other types into
  the queue, or finds it full: the kernel's queue for `LISTEN_BACKLOG` holds
  two, one is used here so that two clients fill it. Two lines give an answer
  that can be late by one.
* Six reads are two per reader: every reader can be early and late in one pass
  of the thread's loop.
* In `drivers` one user holds the device file while the other is in the entry
  or opens it again. Two numbers are one more than a load takes, so the leak of
  a load and unload is felt at the second and third load. Of the eight
  drivers with one class name, any two stand for the rest, since only the name
  is shared; of the two pairs one has a driver that loses its number, the other
  has none, and each has one with a late object and one without.
* In `handlers` a page of three with a block of two has a byte inside, a byte at
  the edge, and one outside what was allocated. Two writes can overlap, follow
  one another, or be separated by a read; two users are both parties of each
  overlap. One pin is the LED, the other stands for the rest of the bank.
* In `shm` two clients are the owner of the pid and an intruder; two runs of the
  server meet the page an earlier one left; two lines let the second overtake
  the print of the first.
* In `filecopy` lengths 0 to 4 with a buffer of two are the empty file, a last
  piece that is short, one that fills the buffer, and a loop of two turns. A
  socket of three
  takes one buffer and a part of the next, so reads cut elsewhere than writes.
* Four commands are enough for CREATE, DELETE, CREATE and one more while a
  client is still at the first.

Deadlock is not checked: every one of these systems may stop. The server exits,
clients leave, a module is removed, the bound of a counter is reached.

### Fairness

Weak fairness is assumed for what the scheduler runs by itself: the server's
loop, a client's loop, the kernel thread, a `read` or an exit that has begun.
A user at a `y/n` question is taken to answer (`CAnswer`), because the code
has no timeout and nothing else can be true without it. In `sock` both
people are taken to go on typing, since each side waits for the other's next
line without a timeout; `MaxLines` makes every conversation end, so that the
client in the queue gets its turn. In `shm` the server
finishes a line it has begun (`SCopied`, `SKill`) and a client's handler runs
and returns (`CPrint`, `CPrinted`, `CWritePid`). In `filecopy`
the two loops run; nothing in them waits for a person, and no call is assumed
to succeed. A read of the socket that fails (`RReadFails`) is not fair: a
blocked read goes on when bytes or the end of the stream arrive, and for no
other reason. Elsewhere no fairness is assumed
for typing commands, connecting, quitting, killing, reading the device or
removing the module, and none that would favour one of two enabled steps:
`WF_vars(SRun)` covers the whole loop of the server, not each branch.

## 4. Proofs

Every theorem holds for every value of the constants that satisfies the named
assumptions in the module that declares them.

* **NetAdminProofs**: `TypeCorrect`, `KeysUnique`, `SlotsCorrect`,
  `FlushReachesAll`, `ShutdownTold`, `ReplicasInSync`, `NoRouteIsMissing`,
  `ReplicasComplete`, `ReplicationImplemented`.
  * `UniqueKeys` needs that CREATE looks before it appends and is inductive by
    itself. `SlotsDistinct` is not: it needs that connections in `backlog` are
    distinct and not yet in a slot, and what each state of a client says about
    where it is. `FlushReaches` needs that `client_pid_set` holds every accepted
    client until it is full, and that the clients are finitely many.
  * `GoodbyeTold` follows from `GoodbyeInv`: every slot that the loop of the
    SIGINT handler has passed is told, and nothing a client does afterwards
    takes that back. Only the client in the middle of whose frame the signal
    came (`torn`) is excepted. That it is only one is `CutInv`: no socket but
    its own ever holds a cut frame, and that one only after the signal.
  * `InSync`, `NoRouteMissing` and `Replica` follow from one invariant. The
    induction cannot be over `FoldLeft` or `Replay`, so `SyncInv` speaks of a
    chain: a sequence of table pairs, one per frame, each obtained from the one
    before by applying that frame. The chain starts at the client's tables and
    ends at tables that fit what the client should have by then: the server's,
    those from which the broadcast under way makes the server's while the client
    is unserved, or the part of the dump that has been sent. Every step adds at
    one end of a chain or takes from the other. To fit (`Fits`) means to have
    every key, and without FLUSH to be equal, so the same chains carry
    `NoRouteMissing` through the signal handlers that empty tables and the
    frames that arrive in between.
  * `ReplicationImplemented` is the refinement of `TableReplication`, step by
    step (`StepMaps`): a command is `Change`, an accept that finds a slot is
    `Join` with the whole dump already owed, a read is `Deliver`, a closed socket is
    `Leave`, the end of the server is `Stop`, and every blocking write is a
    stutter, because it moves a frame from what the loop has yet to write to what
    is in the socket.
  * `InSync`, `Replica` and the refinement assume `Flush = FALSE` and `Uniform`
    (addresses of one length); `NoRouteMissing` assumes `Uniform` only. The first
    two divergences below show that these are needed.
* **IpMemoryProofs**, the list: `ListLinked`, `OperationsSafe`,
  `HandlerCorrect`, `ListImplemented`. The invariant says for each program point
  which links are already written: `HalfLinked` inside `append`, `HalfUnlinked`
  inside `del`, a ring at all other points, and for the handler the part of the
  list that is still to be freed. For the refinement of `ListSpec` that is not
  enough, since several rings would satisfy it: `ListInv` adds that the nodes are
  one ring that starts at the head (`OneRing`). The second pointer write of
  `append` is the abstract append, the first of `del` the abstract removal, the
  signal the abstract clearing, and all other steps stutter. The heap is assumed
  finite (`CellAssumption`), as memory is. `SetInduction` is induction on the
  natural numbers stated for a set and not for a predicate, from the
  well-foundedness of `<`; it gives what a walk along `next` visits.
* **IpMemoryProofs**, the shared address: `IpTypeCorrect`, `RegionsReady`,
  `DisplaysFresh`. The invariant adds that no entry and no message in flight has
  a number above the last copied one, and what the object looks like at each step
  of `store_IP`.
* **SumServerProofs**: `TypeCorrect`, `SlotsDisjoint`, `AnswersOwn`,
  `BlocksNowhere`. The invariant is the books: what a client has sent is in its
  socket, in the result of its slot, or dropped; a free slot has the result 0;
  a connection is in the queue or in the table and only once; a client that has
  been answered sends no more.
* **SockChatProofs**: `TypeCorrect`, `NoMutualWait`, `ExitHarmless`,
  `AnswersMatch`. For the first two, `TurnsKept` is inductive with the types:
  while a client waits and the server is not about to answer, one of the
  streams holds something, because every read is followed by a write. The
  other two need to know the streams exactly: `InStep` says, for a connection
  whose reads have all been whole, that it holds one frame at most, whose turn
  it is, and that a client that left did so behind an unread "exit".
  `Connections` adds that a connection is served or queued once and its server
  end is open until then.
* **DriverProofs**, the life cycles, for every set of machines, number of users
  and size of the pool of device numbers: `HealthyDriversAreSafe`,
  `UsersPinTheModule`, `ModulesCleanUp`. The twelve recipes are data, so what the
  proof needs of each is a lemma, checked recipe by recipe (`RecipeFacts`,
  `SafeRecipe`): what is visible when, what a label and the exit give back, and
  what a handler uses. The induction then speaks of any recipe with these facts.
  `LifeInv` says what a machine has registered at each step of init, of
  unwinding, of exit and after it (`PhaseInv`), and that a process inside holds the
  module: by the open file, or by the entry, whose removal waits for it
  (`UserInv`). `HealthyIsSafe` has two exceptions, both real: a handler may run
  before its object exists, and a wait-queue thread may outlive its module.
  `DriversLoadAgain` adds a count (`CountInv`): on a machine where every exit
  gives its number back, the numbers that are not free are those its drivers
  have.
* **DriverProofs**, the wait queue: `WaitTypes`, `CountsOnce`, `WakeupsKept`,
  `SomeEventCounted`. The invariant says at which points of the thread's loop
  the event behind a raised flag is still uncounted.
* **FileCopyProofs**: `EndedWhole`, `CopyImplements`. `CopyInv` says who holds
  what in each job (`Roles`), that every buffer, the socket and the target hold
  consecutive bytes of the source (`InOrder`, `LocalLoop`, `Pipeline`), and that
  a loop that ended without a failure has emptied the source of every file but
  those that `copy_dir` misses (`LoopsWhole`, `Missed`).
  With it the target is always a prefix, and each write is the step of
  `ByteStream` that takes the next bytes.
* **ShmChatProofs**: `TypeCorrect`, `OwnerSharesPage`. `Mapped` says that
  whoever runs has a segment mapped that exists. `Owned` says that when a page
  holds a whole pid, its client has just this page mapped and is past its write,
  or has gone; with it the server's second read of the page decides `SamePage`,
  and nobody changes pages afterwards.
* **HandlersProofs**, for every size of page and block and every number of
  processes: `CopiesStayInPage` (`InPage`: positions and `size` stay in the
  page, a call in progress has room for its bytes), `ReadsAreOfOneWrite`
  (`JunkInv`: once `size` is more than 0, some clearing has passed the block;
  `TurnInv`: as long as no two writes have overlapped, the block holds one
  write's bytes and zeros, and a write or read that is alone knows how far it
  has come), `RewoundWhenQuiet` (`OneLeft`: when the text is not next, somebody
  who has had it is still to read the 0), `ShowFollowsStore` (`LedInv`: once
  the flag is set the pin is an output, and no other driver holds a copy of the
  directions in which it is not).

### Only model-checked

The eight liveness properties: `CleanShutdown`, `Converges`,
`DisconnectNoticed`, `Answered`, `LineAnswered`, `EventHandled`, `LineShown` and
`TransferEnds`. The prover has neither liveness under fairness
nor ENABLED. All invariants and refinements that the runs check are proved. What
the refinement of `TableReplication` says without `Uniform`, or with FLUSH, is
not claimed: there it is false.

## 5. Known divergences

What the code does although one would expect otherwise. A property that one of
them would break says so in its hypothesis or names the exception; what is
marked (+) lies outside the models.

* `nhap/ip/server.c:205`: all frames of a dump share one `sync_msg`; a short
  address after a long one keeps the long one's tail, so a new client gets
  another address. `na_sync` uses addresses of one length.
* `nhap/ip/client.c:38`: the SIGUSR1 handler replaces the lists under the code
  that uses them and overtakes frames in the socket. A client may keep a flushed
  route and print that it is up to date; it never lacks one (`NoRouteMissing`).
* `nhap/ip/server.c:437`: a client that leaves during a broadcast ends the
  server with SIGPIPE.
* `nhap/ip/server.c:273`: the goodbye is to "inform clients of shutdown to exit
  cleanly" (line 262). When SIGINT comes between two of the three writes of a
  frame, its bytes complete that frame, and the client may go on with `loop` not
  0 and then read the end of the file for ever (`client.c:105-115`). `GoodbyeTold`
  and `CleanShutdown` except this one client (`torn`); every other one is told
  and leaves.
* `nhap/ip/server.c:115`: 'C 1.2.3.4' without a mask ends the server with SIGSEGV
  (`SBadMask`).
* `nhap/ip/server.c:398`: the pid is read without a look at the result, so a
  client that dies first leaves an arbitrary number in `client_pid_set`.
* `nhap/ip/dll/dll.c:9`: the dummy is allocated with the size of a list (two
  pointers) and used as a node (three words); this fits the smallest block of
  the allocator (+).
* `static_waitqueue.c:163`: the exit function wakes the thread and does not wait
  for it, and the thread's own reset can overwrite the exit function's 2: the
  thread then runs freed code (`oops` in `WaitQueue`, `LeftThread` in
  `DriverLife`), although nothing has failed. The readme says "If it is from the
  exit function, it will exit from the thread" (line 172). The dynamic version also initialises its
  queue after the device is visible.
* Drivers, `class_create` and `device_create`: error pointers are tested against
  NULL. A second driver with the class name "m-class" goes on with an error
  pointer, and its exit gives that to `device_destroy`.
* Drivers, a failed init: seven leave the cdev added, which the next open finds
  in freed memory (`Forgets`). `device-file.c`, `sysfs.c` and the wait-queue
  drivers give back three numbers where they took one, so none is given back.
* `File_Operation.c`, `fops.c`, `ioctl.c`: `m_write` clears a page in a block of
  1024 bytes (`Overrun`), and the device is visible before the block exists. A
  position behind `size` makes the count of a read negative; that
  `copy_to_user` refuses it is how a 32-bit build, as the BeagleBone's, takes
  it.
* `LED-Reconf.c:155,168,186`: the pin, the node and the address are taken from
  the device tree without a test, so probe goes on with an error code for a pin
  and maps an address it never read. The node comes with "refcount incremented.
  Use of_node_put() on it when done" (lines 165-166); nobody does.
* `sysfs.c:157` uses `etx_attr`, which is declared nowhere: the file does not
  compile, and is taken as meant, with its own `m_attr`.
* `procfs.c:141`: the entry's write copies as many bytes as the writer says into
  an array of 20 (+).
* `LED-Reconf.c`: a store of 0 clears every pin of the bank that reads high; a
  text that is not a number is stored as 0; `led_store` returns register data
  as its count (+); `ledInitDone` stays set over a `remove` (+); a probe whose
  `sysfs_create_file` failed goes on, and `remove` puts its kobject a second
  time.
* `procfs.c`: `m_read_proc` returns the length asked for and not the length it
  copied (+); a reader that leaves between the text and the 0 makes the next one
  find an empty entry (`quit` in `QuietMeansRewound`).
* `nhap/chat-shm`: a line may be printed twice or be lost when the server types
  the next one first; a client that ends removes the name that a newer pair may
  use; a server that starts again takes its pid from an old page; in any run, the
  first included, it may read a pid of which half the digits are written, and
  then signals a stranger; a server that is at end of input before its first
  line copies an array it has never filled (`server.c:28,75-76`).
  `mypid` has room for four bytes, so it rests on the slack of the allocator
  (+).
* Copies: `dostat` looks for a name in the working directory and not in the
  source directory, so a directory copy passes over every file that is not in
  both, and ends with 0, where `copy.c:71` says that it "copies all regular files
  from /dir1 to /dir2" (`Missed`); `copyDir` builds its two paths in arrays
  without room for the name (`copy.c:97-103,126-128`), so a long name spills one
  into the other and the copy gets another name (`Misled`); a directory that cannot be read and a read that fails end in
  success (`unseen`); a file copied onto itself, or a directory onto itself, is
  emptied (`same`).

## 6. Not modelled, and why

* **Introductory drivers** (`00`, `01`, `Code-A-Linux-Driver/00`): init and exit
  print.
* **The ioctl commands of `05-IOCTL` and the writes to the entries of `06` and
  `08`**: each copies one word or one array in, and reads copy it back; the
  buffers and life cycles of these drivers are modelled.
* **The single-client sum server**: the ancestor of the multiplexed one. Its
  loop is that of `SumServer` with one client at a time.
* **Roll query** (`Bai_Tap/2_Way_Chat`): one question, one answer, the end.
* **Key loggers**, **`ls` programs**, **exercises**, `dll/main.c`: sequential
  input and output with tables of names and formats, no state that outlives a
  line. The headers of key codes are a copy of the kernel's.
* **Build output** (`*.mod.c`): generated.
* Inside the modelled programs: printing, malformed commands of `nhap/ip` (they
  change nothing, except the one of `SBadMask`), and what the kernel does beyond the calls named above.

What could be added: the ioctl commands, which two processes can issue at once,
and the writes to the entries of `06` and `08`, as further parts of `Handlers`;
a length for each address in `SyncTables`, so that what a dump may still promise
about addresses of several lengths can be stated and proved.
