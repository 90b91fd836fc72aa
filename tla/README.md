# Formal models of libcutil

TLA+ specifications of the concurrent and stateful parts of libcutil, with TLC
configurations that model-check them and TLAPS proofs about them.  Paths such as
`core/Thread.ipp:128` are relative to the repository's root.

## 1. Inventory

libcutil is a header-only C++ library.  Its parts, with the state they keep and
what can go wrong in them:

| part | state | operations | what is hard | correct when |
|---|---|---|---|---|
| `core/Thread` | `tid`, `priority`, `startFlag`, a mutex and a condition | `start` (three overloads), `join`, `detach`, `isRunning`, the timers | the new thread reads a `Holder` in the caller's frame; `tid` survives `join` and has no lock; the answer of `pthread_kill(tid, 0)` for an ended thread differs between versions of glibc | the frame is alive while it is read, `start()` returns, no thread is forgotten |
| `core/Thread` (LoopThread) | `stopFlag`, `suspendFlag` | `start`, `stop`, `suspend`, `resume`, the loop | any thread may call, `eachLoop()` included; the destructors do not wait | stop and suspend take effect after at most one more iteration, no wakeup is lost |
| `core/Process` | `pid`, `status`, three descriptors | `open`, `close`, `kill`, `isRunning`, `isLiving`, reads and writes | pids and descriptors are reused by others; the child ends at any time; polling | no zombie is left, no stranger is killed, no foreign descriptor is closed |
| `misc/FileWriteProxy` | a queue, a `FILE*`, `stop_flag`, a thread | `open`, `close`, `write`, `printf`, `clearWriteQueue` | writers, owner and writer thread in any order; four places a message can be in | messages reach the disk in order and `close()` waits for them |
| `logging/CLog` | the current proxy, `stop_flag`, `rotate_at_first`, the files | `open`, `close`, `write`, `printf`, the rotator thread | renames one by one while two proxies write; crashes between them | no message and no file is lost, suffixes are in order of age |
| `socket/Socket`, `Address` | shared counter, a descriptor per object, addresses; the kernel's socket | construct, copy, assign, `open`, `close`, `connect`, `bind`, `accept`, multicast groups, `send*`, `recv*` | the counter is shared, the descriptor is not; `connect()` switches to non-blocking and back; partial transfers | the descriptor is closed once, with the last copy; a socket is blocking after any `connect()`; bytes come in order, and all or a closed socket |
| `socket/SNTPClient`, `PingClient` | one request at a time | `getClock`, `setClock`, `ping` | lost and late answers, timeouts | an answer belongs to its request |
| `serialport` | a descriptor, the terminal's attributes | `open`, `close`, `read`, `write` | failures close by another path; attributes survive the process | a closed port has its old attributes |
| `core/IOStream` | the get area of a stream buffer | underflow, putback, block reads | the last character survives a refill | characters come in order |
| `widget/x11`, `widget/directfb` | map from windows to widgets, an event thread, frame buffers | `open`, `close`, `resize`, `move`, `display`, handlers | handlers run under one mutex; `close()` races an event; a resize frees what `display()` reads | no handler runs on a widget that is torn down; the buffer fits |
| `readline` | line, cursor, history, completion, the terminal's row | one step per key | escape sequences cut off, history edited in place | the screen shows the line, the file the history |
| `misc/SharedPtr`, `signal/Signal` | a shared counter; slots and results | construct, copy, assign; `connect`, `operator()` | slots that connect or emit during an emission | the object is deleted once; results in the order of the slots |
| `misc/HashMap`, `Octree` | buckets and iterators; instances by Morton numbers | `add`, `remove`, iteration; `get` | iterators across changing buckets | iteration shows each key once |
| `misc/Tokenizer`, `ConfigFileReader`, `ProgramOptions` | a position; a stack of files | iteration, includes, options | escapes, recursive includes | as a reference cuts the text |
| `misc/intX_t`, `CRC`, `SHA256`, `CamelliaCipher`, `RSACipher` | digits, registers, blocks, keys | arithmetic, `push`, `end`, encryption | carries, borrows, padding, key schedules | they compute what they say |
| `cotave`, `PPMFileIO`, `STLFileIO`, `Date`, casts | numerics and formats | – | – | – |

How they interact: `LoopThread`, `FileWriteProxy` and `CLog` inherit `Thread` and
call its `start`, `join` and `isRunning`; `CLog` owns one or two `FileWriteProxy`
objects and hands messages to them under its own mutex; the event threads of the
widgets are `LoopThread`s; `Process`, `Socket` and `FileWriteProxy` offer
`IOStream`s; the two clients own a `Socket`; `ProgramOptions` uses `Tokenizer`,
`RSACipher` uses `intX_t`.  There is no network of nodes: concurrency is threads over shared
memory and the operating system around the process.

PROJECT.json lists the hazards line by line, with the properties that watch them.

## 2. Modules

| module | models | role |
|---|---|---|
| `ThreadHandle` | `tid` and what `isRunning`, `start`, `join` make of it | constant operators shared by the three below and by `CLog` |
| `Thread` | the start handshake, `join`, `detach`, destructor | |
| `LoopThread` | `LoopThreadBase` and `LoopThread` | extends `ThreadHandle` |
| `WriteLog` | what an asynchronous writer promises | abstract specification |
| `FileWriteProxy` | the class of that name | extends `ThreadHandle`; implements `WriteLog` |
| `CLog` | the class of that name | extends `ThreadHandle`; uses proxies by what `FileWriteProxy` establishes |
| `Process` | the class of that name, and the operating system | |
| `SocketHandle` | `Socket` as a counted handle | |
| `MessageSeqs` | operators on sequences of messages | |
| `SocketCalls` | the calls of one `Socket` and the kernel socket under it | instantiates `Address` |
| `SocketStream` | `sendAll()` and `recvAll()` over a connection | |
| `Address` | addresses as values, `resolve()` | operators |
| `Clients` | `SNTPClient` and `PingClient` | |
| `SerialPort`, `StreamBuf` | `serialport/`, `core/IOStream` | |
| `EventDelivery` | what an event thread promises its widgets | abstract specification |
| `XWidget`, `DFBWidget` | the widgets and event threads of X11 and DirectFB | each implements `EventDelivery` |
| `PixelFormats` | conversions of frame buffers | operators |
| `Readline`, `SharedPtr`, `Signal`, `HashMap`, `Octree`, `ConfigFileReader` | the classes of these names | state machines |
| `Tokenizer`, `ProgramOptions`, `intX_t`, `CRC` | the classes of these names | operators, checked against references |
| `RSACipher`, `SHA256`, `CamelliaCipher` | key generation, padding, the cipher with its schedule | state machines, one step per round or byte |
| `Bits` | machine words as sets of bit positions | used by `CRC`, `CamelliaCipher`, `Octree` |
| `Parts` | the variables that the classes share when one of them runs at a time | extended by the two below and `MCParts` |
| `MCNet` | sockets, their clients, the serial port and the stream buffer, one at a time | composes; TLC and TLAPS |
| `MCObjects` | the editor, the containers and the signal; Camellia, the blocks of `SHA256` and the pictures; one at a time | composes; TLC and TLAPS |
| `MCParts`, `MCWidgets` | which part runs, and its constants; `MCParts` extends `MCNet` and `MCObjects`, and runs `LoopThread` for one user | for TLC; `MCWidgets` also for TLAPS |
| `*_proofs` | the theorems of the module before the underscore; `Widgets_proofs` those of `MCWidgets` with `XWidget` and `DFBWidget`, `Net_proofs` those of `MCNet`, `Objects_proofs` those of `MCObjects`, each with the parts it instantiates | TLAPS |

**Steps.**  A critical section of a mutex is one action, when everything it
reads or writes is touched under that mutex only; a wait on a condition variable
ends it, and the wakeup starts another.  What the code does outside a lock
(`isRunning()` before the lock, `fflush`, `fdatasync`, `rename`, `pthread_join`,
a poll of `kill`) is an action of its own.  Condition variables may wake up
without a signal (`SpuriousWakeup`).  Results that the code returns and nobody
inside the model uses are left out.

**`ThreadHandle`.**  `tid` is "none" (0), "live", "detached", "ended" (terminated,
not joined) or "stale" (gone, but `tid` was not cleared: neither `join()` nor
`detach()` clears it, `core/Thread.ipp:203-226`).  `isRunning()` asks
`pthread_kill(tid, 0)`: for "ended" and "stale" POSIX leaves the answer open, so
`ProbeEnded` and `ProbeStale` are constants.  glibc before 2.34 answers ESRCH
(`{FALSE}`) and since then 0 (`{TRUE}`).

**`FileWriteProxy`.**  `writer` is the program counter of `operator()`
(`misc/FileWriteProxy.ipp:14-43`), `owner` that of `close()`; `stdio`, `cache`
and `disk` are the three stages of the file after the queue.  One `write()` is
one message.  The default constructor is the initial state; the constructor that
opens a file leaves `fp` uninitialised (lines 48-51) and is not used.  Likewise not
used are the constructors that leave `fwriter_current` of a `CLog`
(`logging/CLog.ipp:113-117`) and `window` of a `DFBWidget` with a layer uninitialised.

**`LoopThread`.**  `call[c]` is the call a controller is in after `isRunning()`;
setting the flag is a second step, so the answer may be stale.  `late` counts the
iterations that begin after a flag went up.

**`Thread`.**  `user` is the program counter of the one user, `thread` that of
`thread_function` (`core/Thread.ipp:100-111`).  `functor` says where the functor
lives: in the object, in the frame of `start(Functor)`, or with the caller.

**`CLog`.**  `dir`, `content` and `inodes` are the file system: name 0 is
`filename`, name n is `filename.(n-1)`.  A proxy is the inode it writes to and the
queue that has not reached it; `CurrentWrites` and `OldWrites` are the proxies'
own threads, and `close()` of a proxy waits for an empty queue, as
`CloseKeepsPromise` of `FileWriteProxy` allows.  A message has size 1.  `Crash`
drops the process at any point and keeps the files.

**`Process`.**  `proc` and `child` are the process table, `table` the descriptor
table, both shared with others that start, end, open and close.  `user` is the
program counter of `kill()` and `close()`.  A read or write that fails closes its
end (`ReadOrWrite`).

**`SocketHandle`.**  Each object has its own `sock` and points to a counter.
Every failing call of `Socket` ends in `close()`, so `Close` stands for all of
them.  `SharedChange` says whether they may reach an object that has copies.  The
assignment of a `Socket` to itself (`socket/Socket.ipp:35-53`), and of a `SharedPtr` to
itself in `SharedPtr`, is left out.

**`SocketCalls`.**  One object and its kernel socket.  `call.pc` is the place in
`connect()` (`socket/Socket.ipp:105-198`): the switch to non-blocking, `::connect`,
the wait, `getpeername`, and the switch back, with the failure of each.  The answers of
the kernel are `ConnectAnswers`.  The switch back is taken to succeed; where
`fcntl` fails there, a socket that is not closed stays non-blocking.

**`SocketStream`.**  Bytes are numbered.  The sender hands over pieces of the data
(`Piece`), at most `SO_SNDBUF` less what is queued, and the kernel takes any part;
the receiver likewise.  `Reset` breaks the connection at any point, and a failed
`send()` or `recv()` closes the socket.

**`Clients`.**  A request has a number and an answer carries it, although the code
never looks.  `result.stale` is history: the earlier requests whose answers a call may
take for its own, which are the pings still open when a `ping()` starts, since a raw
socket sees all answers, and the request before the last one of `getClock()`, whose
last `recv()` may fail unseen.  The property says that there are no others.  The
arithmetic of the delay is floating point and left out.

**`SerialPort`.**  `IoFails` is the other way to close, without `tcsetattr`.

**`StreamBuf`.**  `buffer[1]` is the place kept for a putback
(`core/IOStream.ipp:63`); what the stream has read are the numbers 1, 2, 3, ...  A block
read asks the reader and leaves `gptr` alone, as the code does, whether characters are
buffered or not; an unget after it gives a character from before the block.  `given` and
`order` are history: what the user has, and whether characters and blocks were mixed in
one of the two ways that change their order.

**`XWidget`, `DFBWidget`.**  `user[w]` is the call the widget's thread is in, step
by step; `thread` is `eachLoop()`.  The server keeps the windows and sends events,
also of windows that are gone by the time they are read.  All handlers but
"configure" are alike in what they touch, and one, "other", stands for them.
`XWidget::display()` takes no lock: it may start, make a buffer and copy while the event
thread is between the new size and the new buffer.
`DFBEventThread::add()` and `erase()` take no lock themselves; `CallersLock` says
whether their callers hold it.

**`Readline`.**  A step is one turn of the loop in `_get()` (`readline/Readline.ipp:252-393`),
that is one character; `ed` holds its locals and the terminal's row with the cursor's
column, by what `Cursor::move` and the printed characters do to it.  `Those` is the
loop that keeps some elements of a vector, of commands or of lines of the file.

**`HashMap`.**  The iterator keeps the bucket number and the position in a bucket,
as the code does, and lives while `add()` and `remove()` change the map.

**`ConfigFileReader`.**  A line is one step; `fstack` is the stack of files with
their positions, from which `operator++` resumes.

**`CRC`.**  A byte goes through one table entry, and the tables are computed from
the polynomials.  **`SHA256`.**  The compression of a block is opaque: the model
is about what reaches it.  **`CamelliaCipher`.**  One step per round; the
substitution boxes and the six constants are parameters, since decryption must
invert encryption for any.  **`RSACipher`.**  Every pair of primes `generate()` may
meet.  **`intX_t`.**  Digits in a base that is a parameter: 4 in the run, 10^18 in
the code (two digits add without overflow of 64 bits in either).

## 3. Runs

| run | question | bounds | properties |
|---|---|---|---|
| `FileWriteProxy` | do messages survive every interleaving of writers, owner and writer thread? | 3 messages, 2 openings | `WriterSafe`, `NothingHeldBack`, `CloseKeepsPromise`, `ImplementsLog`, `Delivered`, `CloseReturns` |
| `LoopThread` | do stop, suspend and resume work when three threads race, and does `tid` stay right? | 3 controllers, 2 starts, glibc >= 2.34 | `LoopSafe`, `AtMostOneMore`, `StopEndsLoop`, `KeepsIterating` |
| `Thread` | is the handshake of `start()` right? | 3 starts, any library, `pthread_create` may fail | `HandshakeSafe`, `NoOrphan`, `StartReturns` |
| `CLog` | do rotation, crashes and closing lose anything? | 2 writers, 4 messages, 2 openings, 4 rotations, 1 crash, `fopen` of the rotator may fail | `AllLogged`, `FilesInOrder`, `RotatorBelongs`, `CloseReturns`, `RotatesAtFirst` |
| `Process` | are children reaped and strangers left alone? | 2 pids, 4 descriptors, 2 children, 1 poll | `ChildAccounted`, `OwnEnds`, `KillTells`, `CloseReaps`, `CloseReturns` |
| `Widgets` | do handlers, resizes, openings and closings keep out of each other's way, under X11 and under DirectFB? | 2 widgets, 2 windows (3 with DirectFB), 2 events, 2 sizes, 2 positions; callers of DirectFB lock | `WidgetFollows`, `BufferIsShared`, `BothImplementDelivery` |
| `Parts` | is each of the remaining classes right, one at a time? | see below | 14 invariants, below |

The composite invariants join the parts of one idea: `WriterSafe`, `LoopSafe`,
`HandshakeSafe`, `FilesInOrder` and `ChildAccounted` include their module's type
invariant.

**`Widgets`** chooses a toolkit in its initial state.  `BothImplementDelivery` is
the refinement: with `registered` mapped to `win_map` and `handled` to the window
whose handler runs, every step of either toolkit is a step of `EventDelivery` or a
stutter.  `WidgetFollows` says that a widget and the server agree once the events of its
window are handled.  That the frame buffer which `display()` copies into still has the
size it was measured with is not so: the run `WidgetsDisplay` below.

**`Parts`** runs one class at a time: `part`, chosen in the initial state, says which,
and the variables of the modules are shared, since only one of them moves.  A class
that is an algorithm gets its inputs in the initial state.  Their properties:

| property | about | bounds |
|---|---|---|
| `OneUserLoopSafe` | `LoopThread` with one user, where `isRunning()` may clear `tid`: `tid` names the running loop, and the object outlives it | 3 starts, any library, `pthread_create` may fail |
| `RefCounted`, `ClosesExactly` | `SocketHandle`: the counter counts; a descriptor is open as long as an object names it | 4 objects, 3 counters, 3 descriptors |
| `ConnectSound` | `SocketCalls`: an open socket is blocking between calls, `true` means a connection to `toAddress()`, addresses are those of the open socket | all families and types, a peer and a group, 1 waiting connection |
| `StreamSound` | `SocketStream`: what arrives is a prefix of what was sent, and a broken call leaves a closed socket | 4 bytes, buffers of 2 |
| `PortRestored` | `SerialPort`: a closed port has its old attributes unless a read or write failed | 3 openings |
| `CharsInOrder` | `StreamBuf`: characters and blocks come in order across refills and ungets, until a block passes characters that are buffered or an unget follows a block; however they are mixed, no character is given twice or lost | 6 characters, a buffer of 3, one character put back |
| `AnswersMatch` | `Clients`: every sample of `getClock()` is from the answer to its own request, its result at worst from the one before; `ping()` takes its own answer or that of a ping still open when it began | 5 requests, 0 or 2 iterations |
| `EditingSound` | `Readline`: the row shows the line and the cursor, the file has the history, completion is as long as possible | 3 characters, 2 lines of history |
| `ContainersSound` | `HashMap`, `SharedPtr`, `Signal`, `Octree` | 4 keys in 3 buckets; 3 pointers; 3 slots, 2 nested emissions; 6 numbers |
| `ParsersSound` | `Tokenizer`, `ProgramOptions`, `ConfigFileReader`, `Address::resolve` | strings of 5; two arguments of 3; two files of 3 and 2 lines that include each other |
| `NumbersSound` | `intX_t` against the integers, except for differences in which a place borrows twice (`BorrowsTwice`); RSA keys with a positive exponent undo each other | -9 to 20, and numbers of three and four digits from -64 to 70; primes of 5 bits |
| `ChecksumsSound` | the value of every `CRC` changes with every burst, and `check()` accepts a message with its own value and refuses the others (`check()` of CRC-32C is not claimed, see below); `PingClient::checksum` finds every changed word; Camellia's key schedule fills every subkey once, at its rotation, and encryption changes the message | 4 polynomials, bursts of up to 8 bits at 41 places |
| `CodecsSound` | Camellia decrypts what it encrypted for all three key lengths; `SHA256` pads by its standard, except for a message that just fits its last block; picture conversions invert | 18 and 24 rounds; 0 to 40 bytes in blocks of 12; 3 by 3 pixels |

Why the bounds are enough: two openings are one reopening, the only way an
earlier life of an object (its `tid`, flags and files) can reach a later one;
three messages can be in the queue, in the FILE's buffer and on the disk at the
same time; in `CLog`, four messages of which two fill a file, and four rotations,
give a crash between two renames followed by a rotation over the gap it left; two
pids are the child's and a stranger's, or two children's; four descriptors let an
`open()` find one end not closed; four socket objects are two groups of copies.
Two windows in X11 are a widget that is opened again while the events of its first
window are under way, or two widgets.  Four bytes through buffers of two need at
least two pieces on each side; six characters through a buffer of three refill it
twice; two iterations of `getClock()` and the request after them are every kind of
request it sends; a base of 4 puts numbers up to 70 into four digits, where three are
what a double borrow needs.  The proofs below do not depend on these bounds.

Deadlock is checked in every run but `Parts`, `RSAKeys` and `IntXBorrow`, whose
algorithms end.
`Finished` lets a model stand still only when
its object is closed (or destroyed) and the bounds are reached.

### What the code does not do

Five runs expect a violation; each is a disagreement between the code and what
the repository says of it (PROJECT.json, "findings").

* `ThreadByValue`: `start(Functor)` hands the thread a pointer to its own
  parameter (`core/Thread.ipp:189`) and returns; the thread then runs a functor
  whose frame is gone, though `core/Thread.h:126-127` says it is copied.
* `CLogReopen`: with a glibc that answers 0 for a joined thread, the second
  `open()` of a `CLog` starts no rotator (`logging/CLog.ipp:136` ignores the result
  of `start()`), so it never rotates; `logging/test/clog_test.cpp:44-73` expects it
  to.
* `WidgetsDisplay`: `XWidget::display()` takes no lock (`widget/x11/XWidget.ipp:196-226`),
  so a program that displays from a thread of its own, as
  `widget/x11/test/xwidget_test.cpp:75-108` does, copies into a frame buffer which the
  event thread is resizing, or stores one of the old size.
* `IntXBorrow`: `absSub()` borrows 2 instead of 1 where a difference of digits is exactly
  minus the base (`misc/intX_t.ipp:174-178`), which needs three digits: in base 4, a
  difference of -64 and -52, plus -52, is not -64 again, against
  `misc/test/intx_test.cpp:72`.
* `RSAKeys`: `RSACipher::generate` tests the pointer `d` where it means `*d`
  (`misc/RSACipher.ipp:130`), so that a negative private exponent stays negative and
  `decrypt()` returns the ciphertext.  (A compiler that rejects the comparison of a
  pointer with 0 rejects the line; the model is of those that take it.)

Other places where the code does less than a reader would expect, which the
properties leave out by name:

* `intX_t`: the comparison of two negative numbers is inverted, a negative number
  times zero is not equal to zero, and `&=`, `|=`, `^=` in place do not clear the result
  (12 `&=` 10 gives 3080); `ArithmeticIsExact` and `DivisionIsExact` claim nothing of
  these, nor of the differences of `IntXBorrow` and the quotients that take such a
  difference;
* `CRC<CRC_32C>::check` refuses every message of the run with its own value, which
  `misc/CRC.h:32` says it checks; `ChecksDetect` claims nothing of it;
* `SHA256` pads a message of 55 bytes modulo 64 with a block too many
  (`misc/SHA256.ipp:99`, `dnum < 64 - 9` for `<=`); `PaddingIsStandard` claims nothing of
  these lengths;
* with the default arguments of `CLog` (`logging/CLog.h:53-54`), `size_to_rotate` is 0, no
  file is smaller (`logging/CLog.ipp:65`), and the rotator rotates without end;
* `Octree`: number 0 has level -1, which `assignInstance` uses as an index; it is not
  asked for.  Cells of different levels whose numbers begin with zeros share an
  instance;
* `ConfigFileReader` ignores an include whose name has one character
  (`misc/ConfigFileReader.ipp:74`, `ShortNames`);
* `HashMap`: `begin()` of an empty map is not `end()` (`IteratesEmpty = TRUE` violates
  `ContainersSound`).

Because of `CLogReopen` the passing runs of `CLog` and `FileWriteProxy` assume `ProbeStale =
{FALSE}`, that is a library that reports a joined thread as gone; the same
reopening problem exists in `FileWriteProxy.open` (`misc/FileWriteProxy.ipp:62`).

### Assumptions on the callers

The code does not enforce these, and the models take them as given:

* one thread at a time uses a `Thread` object; two concurrent `start()` calls are
  not excluded by the code, since `isRunning()` comes before the lock;
* a `LoopThread` is destroyed after `join()`, as `core/test/thread_test.cpp:85-88`
  does, by the controller that started it, when no other call is under way;
* with several controllers of a `LoopThread`, the library must answer 0 for an
  ended thread: otherwise a late `isRunning()` can clear the `tid` of a newer
  thread (`core/Thread.ipp:235`);
* a `CLog` is closed when no thread is inside `write()`;
* no command of a `Readline` is empty (`LineAssumption`): `completion_search()` finds
  every key at the start of an empty string (`readline/Readline.ipp:30-32`), and a
  line completed to a single blank would leave its old end on the screen;
* copies of a `Socket` are not closed while others exist (`SharedChange = FALSE`).
  With `SharedChange = TRUE`, `ClosesExactly` is violated: an explicit `close()`
  closes the descriptor under the copies;
* one thread opens, resizes, displays and closes an `XWidget`; a `close()` of one thread
  during a `display()` of another is left out;
* callers hold `DFBEventThread::lock()` around `open()` and `close()` of a `DFBWidget`
  (`CallersLock`).  No caller in the repository does
  (`widget/directfb/test/dfbwidget_test.cpp:109-131`), and without it `add()` and `erase()`
  change a `std::map` that the event thread reads, which is undefined: the DirectFB half of
  `Widgets` shows what holds for callers that lock.  With `CallersLock = FALSE`,
  `BufferIsShared` and `BothImplementDelivery` are violated;
* one character at most is put back (`MaxUnget = 1`; with 2, `CharsInOrder` is violated,
  since the buffer keeps one).

## 4. Fairness

Weak fairness only, and only for threads the scheduler runs: the writer thread,
the loop thread, the rotator, the proxies' writers, the started thread, and a
caller that is inside a call (`Close`, `Kill`, `Join`, `Proceed`, `Create`,
`Recheck`).  Nobody has to enter a call.  In `Process` the system ends a process
that got SIGKILL (`KilledEnds`); children that were not killed may run for ever.
A writer that blocks on a mutex gets it, since its action stays enabled until it
runs, and no property relies on more.

No fairness is assumed of the widgets or of the parts, and nothing live is asked
of them.

`[]<>`-properties with a disjunct "the flag is up" (`KeepsIterating`) and `~>` from
"in the call" to "out of it" are all that is asked.

## 5. Proofs

TLAPS proves, for every value of the constants allowed by the ASSUMEs:

* **FileWriteProxy**: `TypeCorrect`, `NoWakeupIsLost`, `NothingIsHeldBack`,
  `FileOutlivesWriter`, `Sequencing`, `ClosePromise` and `Refinement`.  The
  inductive invariant `IInv` joins control (`Held`: which buffers are empty at which
  point of the writer; `Agree`: `tid` is "live" exactly while the writer runs and
  the owner is in `fclose` only when it does not) and data (`Sequenced`: the
  concatenation of all places is increasing and holds exactly what was accepted
  and not discarded).  `ClosePromise` also needs `Served`, and holds when `start()`
  succeeds whenever it is called (`StartReliable`), the case the finding about
  reopening excludes.  `Refinement` maps `log` to the disk and `pending` to
  everything before it; each action is an Accept, Persist, Drop, Truncate or a
  stutter.
* **LoopThread**: `NoWakeupIsLost` and `StopsSoon` for any controllers.
  `HandleIsSound` under `Discipline` (one controller, or a library that answers 0
  for an ended thread).  `OneInFlight` is what makes `AtMostOneMore` inductive: an
  iteration may be late only if the loop was past its check when the flag went up.
* **Thread**: `HolderIsAlive`, `FlagBelongsToStart`, `NoThreadIsOrphaned`.
* **Process**: `NoChildIsForgotten`, `StrangersAreSafe`, `StatusIsCurrent`,
  `DescriptorsAreOwn`, and the action properties `ClosedMeansReaped` and
  `KillTellsTruth`. `ChildInv` says that an unreaped child is the last one forked and
  is `pid`, and what each stage of `kill()` and `close()` knows about it: past
  `isRunning()` the child of `pid` is still ours, because only our own `waitpid` frees
  it.
* **CLog**: `RotatorIsOurs`, `RotationKeepsFiles`, `NothingDisappears`, and the action
  property `FilesOnlyGrow`, for any numbers of writers, messages, files, openings and
  crashes. The inductive invariant has five parts beside the types: `Control`
  (rotator, owner and writers agree on whether there is a log), `Counted` (names and
  inodes are used up no faster than files are rotated and opened: a name `n` is taken
  only after `n` rotations, so that `FirstFree` finds one also when a crash left a gap
  in the chain), `Disk` (no file has two names; the current proxy writes to
  `filename`, or to `filename.0` during a rotation, and the replaced one to
  `filename.0`), `Order` (older files, old queue, `filename`, current queue: every
  message of one is before those of the next) and `AllLogged`. `Order` is needed for
  all pairs of places at once: a rename moves the last file of the chain, and a crash
  may take a queue out of the middle.
* **Widgets** (`MCWidgets`): `WidgetsFollowServer` and `XWidgetsDeliver`, which assume
  nothing of the callers of an `XWidget`.  `XInv` says who holds `event_mutex` and for
  what (`XLocks`), that no two widgets share a window (`XWindows`), and `XGeometry`: of
  the changes of a window that are queued, being applied or applied, the last is what
  the server has.  That last part is why `GeometryFollows` holds once the queue is
  empty; it is not inductive without `Fresh`, that nothing happens to a window
  between its creation and `add()`.  `DInv` is the like for DirectFB; what follows from
  it, `OneBufferIfLocked` and the DirectFB half of `BothDeliverIfLocked`, assumes
  `CallersLock` in so many words, since the repository's callers do not lock.
  The two about delivery are the refinement of `EventDelivery`, step by step.
* **Sockets and what is like them** (`Net_proofs`): `ConnectKeepsItsWord`,
  `BytesArrive`, `TerminalIsRestored`, `CharactersInOrder` and
  `AnswersAreTheRequests` are theorems of `NetSpec`, in which one part runs; each has
  an invariant of its own.  `CallsInv` carries an open socket and the
  blocking flag through the stages of `connect()`; since an attempt may outlive its
  `connect()`, `ConnectTells` must hold of the peer of the first attempt.  `StreamInv`
  numbers the bytes: `InOrder` says that received and channel hold 1, 2, 3, ..., `Sending`
  how many of them the running `sendAll()` has handed over, and `Receiving` that the
  caller's buffer is the end of what was received, which makes a prefix of the
  concatenation.  `SerialInv` is what the run checks.  `BufferInv` says that, until
  characters and blocks are mixed, the buffer holds the last characters of the reader,
  down to the one that may still be put back; `BufferHas` that, however they are mixed,
  the user has exactly what was read and does not wait in the buffer.  The theorem is for
  `MaxUnget <= 1`, beyond which the code has no place for them.  `ClientsInv` says what may
  be on its way: for `getClock()`, nothing before a request and only its answer after it,
  because a timeout ends the call; for `ping()`, also the answers in `stale`.
* **SocketHandle** (in `Net_proofs`): `CounterIsExact` for every finite set of
  objects, with the lemmas that say what joining, leaving and moving do to the
  cardinality of a set of sharers; `CloseIsDelayed` and `NothingLeaks` under
  `Unshared`.
* **The containers and the signal** (`Objects_proofs`): `ContainersAreSound` is a theorem
  of `ObjectsSpec` with one invariant for each class.  `PtrInv`: a counter is the
  cardinality of its holders, and what it points to is there as long as there are
  any.  `MapInv`: the iterator is at a key of its bucket or at the end, what it has
  shown is ascending in the order of buckets and keys, and each key that was there
  all the time has been shown or lies ahead; "none twice" is not inductive without
  the order.  `SigInv`: the results of the outermost emission are the last
  `it - first` ones, where `first` is the slot whose nested emission cleared the
  list last; a frame under another is inside its slot.  `TreeInv`: the indices of a level are
  as many as its instances and each leads to its own number.  The keys, the hash,
  the pointers, the slots, the depth of nesting and the numbers are arbitrary.
* **Places of the octree**: `PlacesHaveNumbers` is the part of it that is an
  algorithm, proved for every place, every pair of numbers and every `MAX_LEVEL` up
  to the 8 that `misc/Octree.h:21` allows: the three masks of `getBitSeparatedNumber`
  spread the bits of a byte to every third place, one lemma for each mask, and what
  is spread is combined, shifted and compared bit by bit.
* **Readline**: `EditingIsSound`.  `EditInv` says that the row shows prompt, line
  and blanks, with its cursor at the line's, between any two keys (`Shows`); that the
  line fits (`Ready`), which every edit keeps because what it draws over is as long as what
  it leaves; that `history_i` is in the history; and that the history is the end of
  the lines of its file.  What `Those` and `Completed` compute is
  recursive: the lemmas `Recursion` and `NatInduct` say that such a function exists and that
  a set of numbers that has 0 and the successor of each of its members is all of
  them (`LeastNumber`, from `WellFoundedInduction`); sets take the place of the predicate
  that the library's theorems would need.

* **Codecs** (`CodecsSpec` of `MCObjects`): `CodecsAreSound`, for any boxes, constants,
  keys, blocks, lengths and sizes.  In `CamInv` a function `g` keeps the blocks that
  encryption has passed, one a round (`CamPassed`): encryption extends it, and
  decryption, which has only the last one, walks back through the same blocks.  A round
  and a layer of `FL` are undone by `CamRound` and `CamLayer`, from `CamFL` and
  `CamFLinv`, bit by bit; decryption tests for a layer at round 19 without regard to the
  size of the key, which is harmless because one of 128 bits starts at 18.  `ShaInv`
  says that byte `n` of the message is byte `n` of the blocks and of the one that is
  filled; what `end()` appends is compared with the standard's padding place by place,
  in two cases; the code's `dnum < 64 - 9` takes the second also when the length just
  fits, and of those lengths the theorem says nothing.  Two swaps of a picture take a
  byte to the mirrored row and back (`PixAxis`), for every width, height and both depths.

`FileWriteProxy_proofs` and `CLog_proofs` begin with lemmas about sequences of messages:
what concatenation, appending and cutting do to items and order.

The properties of the runs that join these facts are theorems of their own:
`WriterIsSafe`, `LoopIsSafe`, `HandshakeIsSafe`, `ChildIsAccounted` and `ClosesOnce`.

Only model-checked:

* all liveness, `RotatesAtFirst` included (TLAPS does not prove `ENABLED` and fairness
  here);
* `ParsersSound`, `NumbersSound` and `ChecksumsSound`: algorithms over digits, bits and
  strings, with a recursion for each loop, of which the proofs would need an induction
  each.  `RSACipher`'s part of `NumbersSound` is about its small primes only: numbers that
  merely pass Fermat's test are accepted too, and a theorem would have to exclude them.

## 6. Not modelled

* `cotave` is floating point, for which TLA+ has no numbers; the delay that
  `SNTPClient` computes, likewise.
* `PPMFileIO`, `STLFileIO`, `Date`, `lexical_cast`, `byte_cast`, `type_traits`: formats
  and compile-time helpers without state.
* `Thread`: priorities and the periodic timer; `Mutex` as a class (its critical
  sections are the steps of every model).
* DirectFB's surfaces, fonts, images and layers: calls into that library.
* Contents of pipes (`Process`), the text of log messages, colours of `Cursor`,
  `operator<<` of the containers.
* Failing `fwrite`, `fflush` and `rename`: the code ignores their results and promises
  nothing after them.
* The compression function of `SHA256` and the constants of `CamelliaCipher`: the
  repository's tests compare them with published vectors.
* A second `open()` of a `ConfigFileReader` that has not finished; references that
  `Octree` gave out before its vector grew; strings with a radix prefix in `intX_t`.
* A `write()` of `CLog` during its `close()`, two `start()` at once: see the
  assumptions above.

PROJECT.json gives the reason for each part.

## 7. Plan

The order was by weight of the behaviour: threads and what is built on them,
processes and handles, the sockets and their clients, the event threads, the editor,
the containers and algorithms.  All of these are modelled, and the safety of
everything that keeps state over calls is proved, but for `ConfigFileReader` and the
keys of `RSACipher`.  What is left:

1. the algorithms of section 5 that are only model-checked, `RSACipher` aside:
   rewritten as recursive functions they could be proved as `Readline`'s were;
2. liveness where it is missing: a `display()` and a `close()` of a widget that
   return.
