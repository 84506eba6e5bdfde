# Verification of C-modules

TLA+ models, TLC runs and TLAPS proofs of the programs in this repository. The
repository is a collection of small C programs; the ones with state that lasts,
with concurrent actors or with a format to respect are modelled, the others are
listed at the end with the reason.

Every definition that stands for code is listed in `PROJECT.json` under `map`
with the lines it translates; what is not code of the repository (the kernel, the
tty and its device, TCP, UDP, libftdi, the callers of the two list files, which
have no `main`) is marked external there, and said to be external at the head of
its module.

## 1. The system

| component | state | operations | interacts with |
|---|---|---|---|
| hello driver, `hello-driver/hello.c` | one `struct hello_pipe` (mutex, `len`, `data`), what the module has acquired | load with its error path, unload, open, release, ioctl | tasks that share the struct and its mutex; the kernel's module reference count |
| connection list, `linklist/testlink.c` | nodes, head, last and the cursor `con_current_node` | insert, find, remove | a caller that allocates and frees the nodes |
| linked list, `linklist/linklist.c` | nodes, head, last | eight functions | a caller; `malloc` |
| serial port commands, `network-module/uart.c`, `uart/uart.c` | descriptor, the static buffer `s1`, the answer | connect, flush, write, sleep, read, disconnect | the device, whose lines arrive when they will |
| KVM network server, `network-module/kvmnetwork.c`, `udpser.c` | the connection, `strArgc`, `strArgv`, `retString`, descriptors | accept, receive, parse, ask the port, reply; the same for a datagram | the serial port functions (calls), clients (TCP or UDP) |
| TCP client, `tcp/tcpcli.c`; UDP client, `network-module/udpcli.c` | the connection, or none | connect, send, receive, close | a server |
| TCP one-shot server, `tcp/tcpser.c` | one connection, one buffer | accept, receive, send back, exit | clients that are `tcpcli.c` |
| UDP echo, `udp/udpser.c`, `udp/udpcli.c` | message count, address of the last sender; loop counter | receive and acknowledge; send and wait | each other over a lossy network |
| sequence numbers, `lollipop/lollipop.c` | two numbers | one comparison | - |
| alarm loop, `signalalarm/alarmmain.c` | `timeup`, the alarm | poll, arm, clear; handler | its own signal handler, the clock |
| signal waiting loop, `signalalarm/signal.c` | mask, pending signals, interval timer | block, start the timer, `sigwait`, handle | the kernel's timer, whoever sends signals |
| GPIO SPI master, `gpio-spi/spi_gpio.c` | four pin numbers, the pins, a byte each way | open with its setup, exchange, close | the GPIO driver (ioctls), the slave on the pins |
| token splitter, `token/token.c` | - | split a string into an array | `strtok`, `malloc` |
| MBR reader, `hdmbr/mbr.c`, `main.c` | the words a drive answered with | identify, trim the names, print the capacity | the drive (ioctls) |
| EEPROM tool, `ftdi-eeprom/eeprom.c` | 128 words in the device, a struct, an image | two builders, a decoder, seven commands | libftdi, whose transfers may stop half-way |

What is hard in them, line by line, is the `hazards` list of `PROJECT.json`. In
short:

* *Order.* The driver is visible before its mutex is initialised; the alarm is
  armed before its flag is cleared; signals come before the mask is set; the port is
  flushed before late lines come.
* *Failure.* Error paths release by flags that an earlier failure leaves at their
  defaults; results of `copy_from_user`, `write`, `ftdi_*`, `malloc`, `accept` and of the
  ioctls on the pins are not looked at, so that a clock edge the driver refuses puts
  master and slave out of step.
* *Sequences of legal calls.* Both lists are broken by particular mixtures of
  calls; a request of five tokens, or a second one on the same connection, overruns an
  array of the server; one rejected ioctl blocks the driver.
* *Waiting.* The mutex, `recv` on both sides of a connection (after an empty answer, and
  for a client with nothing to send, for ever), `recvfrom` with no
  timeout, a loop that waits for a flag, and one that takes signals lowest number
  first.
* *Boundaries.* Sizes granted to strings in an EEPROM image, lengths narrowed to a
  byte, the wrap of sequence numbers, an array sized by one delimiter and filled by
  several, names without a letter.

## 2. The modules

| module | models | properties that make it correct |
|---|---|---|
| `HelloDriver` | `hello.c` | `MutualExclusion`, `UnloadedHoldsNothing`, `OnlyARejectedCallKeepsTheLock`, `ALeakLastsUntilUnload`, `OnlyAFailedLoadStrandsFiles`, `QuietLoadIsSafe`, `EveryCallReturns` |
| `MessageStore` | what the device promises: one message, read and written in one step | `HelloDriver!ImplementsStore` |
| `ConList` | `testlink.c` | `SearchIsComplete`, `OnlyAHeadTakenFromTheRightBreaksTheList` |
| `ConSequence` | a sorted sequence of IDs with a cursor | `ConList!ImplementsSequence` |
| `LinkList` | `linklist.c` | `SoundListsAreSpoiltByFew` |
| `IndexStack` | a stack | `LinkList!ImplementsStacks`: each end, used alone |
| `Uart` | the serial port functions and the line | `AnswerIsItsOwn`, `CommandIsSentWhole` |
| `KvmServer` (on top of `Uart`) | the server, its clients, TCP | `FaultsHaveTheirCause`, `AnswersItsRequest`, `LeakOnlyByReset`, `EveryClientIsAnswered` |
| `KvmDatagram` (on top of `KvmServer`) | `processUDPRequest`, its clients, UDP; one transport in each behaviour | `WaitsHaveTheirCause` |
| `TcpEcho` | the one-shot server, its clients, TCP with segments and resets | `EchoIsABeginning`, `EveryClientEnds` |
| `UdpEcho` | UDP server, clients, network | `NoNumberIsShared`, `ClientsKeepStep`, `EveryClientFinishes` |
| `Lollipop` | the macro and its program | `ComparesOnTheCircle`, `NeverBothNewer` |
| `AlarmLoop` | the loop, the handler, the clock | `HeartbeatIsNeverLost`, `BeatsForever` |
| `SignalLoop` | the mask, the timer, `sigwait`, the handler | `OnlyAnInterruptEndsIt`, `EverySignalIsTaken` |
| `SpiMaster` | every pin access of `spi_gpio.c`, and the slave | `DataErrorsStayInTheirBit`, `StepIsLostForGood`, `OpenedIsReady` |
| `ByteExchange` | what a call promises: a byte swapped in one step | `SpiMaster!ImplementsExchange` |
| `EepromImage` | both builders' and the decoder's operators | - |
| `EepromBuild` | build a struct, decode the image | `BuiltIsDecoded`, `FixedSpaceIsEnough` |
| `EepromTool` | runs of the tool on one device | `WrittenIsShown`, `DamageIsNoticed`, `FaultsNeedDamage` |
| `TokenSplitter`, `DiskIdentity` | `enStrTok`; names and capacity of a drive: operators | - |
| `SmallPrograms` | the programs around those operators | `FieldsFitTheArray`, `PrintsTheDrive` |

The `MC...` modules and `EepromInputs` give the constants their values. Two of them also
compose: `MCPrograms` puts five programs that know nothing of each other into one
specification, one of them in each behaviour and the others idle; `MCSignals` runs
the two signal loops side by side. An operator whose comment
begins with "Mutated form of" is a plausible mistake in the operator it names; no
specification uses it. It is there to show that the property it belongs to notices
the mistake (`mutants` in `PROJECT.json`).

### How state and actions correspond to the code

* **HelloDriver.** `loader` is the position of `hello_init` or `hello_exit`, one
  action per call that can fail or that others can see. `err` says which call
  failed: from it follow `alloc_ret`, `cdev_err` and `IS_ERR` at `error:`. `held` is
  what has been acquired and not given back. `pc[t]` is where the ioctl of task `t`
  is: `locking` (before `mutex_lock`), `check`, `rret` (read copied, `len` to be read
  again), `wdata` (`len` set, bytes not copied), `unlock`. Both minors run the same
  code on the same struct, so a task stands for an open file on either.
  `stale` are files whose struct was freed; `raced` records that `mutex_init` found
  the mutex held. `oops` is a kernel fault, after which nothing is claimed.
* **ConList, LinkList.** `heap` is memory, `allocated` what has not been freed. `Walk` is
  the `while` loop of an operation: where it leaves, or that it meets NULL or freed
  memory, or that it never ends. A step that would use such a pointer sets `fault`.
  `ConList.careful` and `LinkList.used` are habits of the caller, chosen once: whether
  it finds the head before removing it, and which functions it keeps to.
* **Uart.** `upc` is the next system call of the thread; `tty` what the kernel has
  received, `wire` what the device has still to send. A line of an answer is the
  pair of the command's number and the line's. `healthy` is chosen once: on a
  healthy port no call fails and the device answers within `sleep(1)`.
* **KvmServer.** `spc` is where `processTCPRequest` is; while it is `uart` the steps are
  those of `Uart`. A request is its first token, its second one or none, and how many
  follow (`Extras`): those are only counted, since the server stores them in `strArgv`
  and never reads them. `first` is the request that set `strArgv[0]` and `strArgv[1]`,
  which later requests of the connection do not set again. A client whose argument is
  empty sends nothing and waits all the same: it is `mute`. A request is one `send` on an
  idle connection, far shorter than a segment and than the 1024 bytes `recv` takes, so it
  arrives whole. `fault` is how the process ended.
* **KvmDatagram.** `transport` is chosen once. Over UDP the server takes any request that
  has arrived, on fresh locals, and always returns to `select`; the steps in
  between, and those of the port, are the ones of `KvmServer`. An empty argument is a
  datagram without a byte (`Empty`), which the server drops without an answer. `Lose` takes
  a datagram off the network.
* **TcpEcho.** `srv` is the next call of the server. A message is the number of its
  bytes; `flying` are under way, `arrived` is what `recv` may return, in segments of any
  size. Closing with bytes unread, or with connections not accepted, resets them.
* **UdpEcho.** `packets` and `acks` are the datagrams under way. A duplicate is a
  datagram delivered and left in the set; `faults` counts duplicates and failed
  calls, `lost` records losses and the end of the server.
* **AlarmLoop.** `timer` counts down to SIGALRM, `age` is the time since the process
  last ran; it may be kept from running for `MaxDelay` ticks. `reloads` is the choice
  of the build, because `timeup` is not `volatile`.
* **SignalLoop.** `raised` is the kernel's set of pending signals, one bit each; others
  send signals whenever they like and without end. A tick
  may come at any time, unless `prompt` (chosen once) keeps ticks out until the process
  is back in `sigwait` with nothing pending. `causes` records what may end the process.
* **SpiMaster.** `pc` is the next ioctl of the thread, one step each. `level` are the
  pins, `taken` what the slave has sampled of the present byte. `failing` are the ioctls
  that may fail in this behaviour; each use of one of them then fails or not.
  `spi` records whether the last open was in mode 0, the one with the four pins.
  `lost` counts the edges that did not reach the pin, modulo a byte; `bad` are the bits
  of the exchange whose data calls failed. To `ByteExchange` a call is asked until the last
  bit is clocked and answered after it, its result being `InByte`.
* **SmallPrograms.** A program reads its input and computes its outcome in one step;
  `TokenSplitter` and `DiskIdentity` are translated operator by operator, and the
  properties compare them with definitions of their own.
* **Eeprom...** A build is the sequence of byte writes the code makes, so that one
  that lands on another is seen. `ftdi_eeprom` is the set of structs: its numbers are
  natural and its strings sequences of characters of any length, and the operators reduce
  what does not fit a field as the code's types do. `EepromTool` runs one command of
  `main` per step; a transfer may stop after any of some numbers of words. A device may
  hold anything when the tool first meets it (`Contents`), and `found` keeps what that was.

## 3. The runs

Numbers of distinct states are those of the present configurations.

| run | checks | bounds | states |
|---|---|---|---|
| `hello_quiet` | refinement of `MessageStore`, what a failed or finished load gives back, that every legal call returns | 2 tasks, 2 bytes of data, every call of `hello_init` may fail, no open before it is done | 296 thousand |
| `hello_early_open` | mutex and freed struct when tasks open during the load and make rejected requests | 2 tasks, 1 byte, every call may fail | 3.7 million (tasks symmetric) |
| `conlist` | every sequence of operations; refinement of `ConSequence` | 4 nodes, 4 IDs (repeated ones too) | 11 thousand (addresses symmetric) |
| `link_list` | every sequence of operations; refinement of a stack at each end | 3 nodes, 2 indexes | 17 thousand (addresses symmetric) |
| `kvm_any` | crashes, who waits for ever, what is asked and answered, descriptors | TCP, UDP and UDP with losses; 2 clients of 3 requests each that may be killed; requests of 0, 1, 2 and 5 tokens and empty ones; 3 commands to the port, 1 line per answer, 2 descriptors | 2.5 million (clients symmetric) |
| `kvm_port` | what is sent to the port and what it answers; that every client is answered | TCP with 3 clients of one request, an empty one among them, UDP with 2; commands of 2 lengths, up to 2 lines per answer, all failures of the port | 102 thousand |
| `udp_echo` | numbers, step and termination | 2 clients of 3 messages, 2 faults, any number of losses | 2.1 million |
| `programs` | the order on the whole circle; build, then decode; splitting; what is printed of a drive; the one-shot server | 16 numbers, window 5, arguments -3 to 20; some 150 structs, among them strings whose length wraps in a byte; strings up to 6 of 3 characters with 4 words of delimiters; names up to 4 characters, words of 2 bits; 2 clients, messages up to 2 bytes, buffer of 3, any failing call | 22 thousand |
| `signals` | the heartbeat; what ends the waiting loop and which signals it takes | alarm of 5 ticks, delays up to 6; signals sent by others without a bound | 137 thousand |
| `eeprom_tool` | sequences of commands | 3 contents of the device at first (erased, zeros, programmed without a serial number), 5 serial numbers, 4 words written singly, 5 lengths of transfer, 1 single write between images | 37 thousand |
| `spi` | what a failing ioctl damages; refinement of `ByteExchange` | bytes of 3 bits, 4 of them; 6 sets of failing ioctls; 2 descriptors | 1.3 million |
| `eeprom_long_strings` | expected to be violated, see section 6 | lengths of the serial number 0 to 34 | - |

Why the bounds are enough. Two tasks are the least that contend for the mutex, and
no step of one depends on the number of others; two bytes of data are the least
that a torn message needs. Four nodes give the connection list a cursor with nodes
on both sides and two beyond it, and three the linked list both ends and a middle
node. Three requests of one client reach the second writing of `strArgv` and the
second `free`, and five tokens are the least that overrun it at once; two clients reach
a state left by one connection to the next, and a third waits while they are served. Three
messages let a client take an answer for one of two earlier ones. A circle of 16
with a window of 5 has numbers inside the window, beyond it and on both sides of the
wrap; the theorem about it holds for every size. Two clients of the one-shot
server are one it accepts and one it does not, and two bytes one message in two
segments. Three bits are a first, a middle and a last one, and with two lost edges a
byte still lies between the two sides; the theorems hold for every width. Words of 2 bits
with a sector of 2 and groups of base 3 have the same shape as the code's
numbers: the groups are just enough for four words, and sectors times their size
overflow them. `MaxAsks`, `MaxLines`, `PerClient`, `DatagramClients`, `MaxFaults`, `MaxWrites`,
`MaxDelay` and `MaxFds` are the bounds that stand in guards.

Deadlock is checked for `eeprom_tool`, whose program can always be run again. The others
really stop: the model stops at a crash, processes exit or finish, or a caller
waits for a mutex that was never given back.

### Fairness

* `HelloDriver.Fairness`: the code inside the mutex does not sleep, so a task there
  goes on (weak fairness). Kernel mutexes hand themselves to waiters in turn, so a
  task that finds the mutex free again and again takes it (strong fairness of
  `Lock`). No task need call and nobody need unload.
* `KvmServer.Fairness`: the server thread runs, a device sends what it has to send,
  and `tcpcli.c`, which has nothing else to do, makes its next call. A client with an empty
  argument makes them too, and then holds up the server for ever: `EveryClientIsAnswered`
  promises an answer only until such a client is served.
* `KvmDatagram.KvmFairness`: the same for either transport; over UDP nothing makes the
  network deliver, so the run that uses it leaves losses out.
* `TcpEcho.TcpFairness`: both programs go on, and TCP delivers what was sent. Nobody
  need be killed and no reset need overtake.
* `UdpEcho.Fairness`: a client that may send sends; the server receives what has
  arrived, and so does the client. The network owes nothing: it may lose everything.
* `AlarmLoop.Fairness`: time passes, a pending signal is delivered, the process runs.
* `SignalLoop.SigFairness`: the process runs and the interval expires. Nothing bounds the
  signals of others, and `sigwait` takes the lowest: `EverySignalIsTaken` excuses a signal
  that waits behind lower ones sent infinitely often.

## 4. What is proved

For every value of the constants that meets the module's assumption.

**HelloDriverProofs** (`HelloAssumption`: the marks for no task, zero and a fault are
what they say, requests and failing calls are among the known ones). `IInv` is
`TypeOK` and: what is held at each step of the loader (`HeldAt`); something never
acquired was released only after a failed `alloc_chrdev_region` (`PhantomAt`); nobody has
a file of the struct before `cdev_add` and after rmmod (`NobodyIn`); whoever is
inside an ioctl owns the mutex, unless `mutex_init` came too late (`OwnerInside`); a
mutex nobody inside holds was left by a rejected call; and, without early opens, the
mutex is free and nobody is in until the load is done (`QuietAt`). Each conjunct is
preserved by the loader in one lemma and by the tasks in another. From `IInv` follow
`Exclusion`, `LockKept`, `CleanUnload`, `QuietLoad`, `Stranding` and `LeakLasts`; type
correctness is `TypeCorrect`. `MutualExclusion` alone is not inductive, since it does
not say that the mutex names the task inside; nor is `UnloadedHoldsNothing`, since
the steps of `error:` release the right things only because of what was held when
they began.

`Linearizable` shows that with no early open the driver implements `MessageStore`
(`ImplementsStore`). It needs `IInv`, and `WriteAt`: while a writer copies its bytes, `len` is
still what it set, because nobody else is inside. `StoreIs` evaluates the refinement
mapping: the message is that of the one task between `len =` and the copy, or else
what the struct holds. `LoaderIsHidden` (kfree forgets the message, everything else
stutters), `TaskIsHidden` and `TaskIsSeen` then go through the actions.

**ConListProofs** (`ConListAssumption`: the memory is finite, NULL is no address, IDs are
numbers). What the code promises is said of `Chain`, a recursive function of the
heap, and its walks are such functions too. The proofs speak of `IsList(s)` instead: the
memory holds the nodes `s`, linked both ways in this order and sorted, with head, last
and cursor on them. `ListIsWellFormed` and `WellFormedIsList` show the two to agree;
`WalkRight` and `WalkLeft` follow a walk to the node where it leaves. Where that would take
an induction, the least index at which the claim fails is led to a contradiction
(`LeastOf`); that the nodes of a list are distinct, and hence no more than the memory,
follows from the ends of its links (`ListIsDistinct`, `ListIsShort`). `LinkedIn` and
`LinkedOut` say what linking a node in and out makes of a list, and `NextOnList` that every
step on a sound list does one of these, moves the cursor, changes nothing, takes the
head from its right, or uses an empty list. From it `SearchesAreComplete` and
`OnlyTheHeadBreaksIt`. `RefinesTheSequence` is the refinement of `ConSequence`: `MapsTo` evaluates
the refinement mapping on `IsList(s)`, `SlotIs` and `MetIs` show that an insertion and a
search end where the sequence's do, and `InsertMaps`, `FindMaps` and `RemoveMaps` take the
steps. The invariant is that a careful caller's list is sound
(`CarefulListsStaySound`).

**KvmServerProofs** (`UartAssumption`; `KvmAssumption`, with finitely many clients;
`NoneAssumption`; `DatagramAssumption`). The port is proved alone first, under
`UartSpec`, in which anybody calls its functions in their order: `UartInv` is the types
(`UartTypes`); which lines the queues may hold at each step (`QueuesAt`); that between
the flush and the return every line is of the present command or of one the device owed
an answer for (`FlushAt`); that what has been read, received and is still to come of the
present answer is its first lines in order, after all others (`StreamAt`); that without
failures the line is quiet but between write and read (`HealthyAt`); and that no command
has reached past its own cells of `s1` (`CellsAt`). Theorem `PortKeepsAnswersApart`.
`ServerIsACaller` shows that the server is such a caller over either transport:
`KvmSpec` implements `UartSpec`, a step of the server that does not touch the port being
a stutter. What was proved of the port so holds in the server (`AnswersAreTheirOwn`,
`CommandsAreWhole`). `KvmInv` then adds the types of the server (`ServerTypes`); which
request it has in hand at each step, and that it stays on the connection until it is
replied to (`RequestAt`); that a request is on its way until its reply is, and that none
without a byte is on a connection (`ClientAt`); that `strArgc` above zero and a set
`strArgv[0]` mean an earlier request, and that the request in hand is the first or a
further one (`FaultAt`); that a connection is
accepted or in the backlog once, and only one that was made (`LinkAt`); that clients
which reset, and are neither accepted nor in the backlog, are at least as many as the
descriptors lost (`LeakAt`); and that whoever waits in the backlog has its request on
the connection, or over UDP its datagram on the way (`WaitAt`). The checked properties
are not inductive by themselves: that `strArgv` overflows with fewer than five tokens
only on a further request, for one, rests on what `strArgc` above zero says in every state
before, and that the port is asked what was requested on whose tokens `strArgv` holds.
Requests may have any number of tokens. Theorems `Types`,
`FaultsAreCaused`, `LeaksAreResets`, `WaitsAreCaused` and `AnswersMatchRequests`.

**SpiMasterProofs** (`SpiAssumption`: a byte has at least a bit, and zero is a byte).
The inductive invariant is `TypeOK`; how far the setup has come, unless a setup
failed before it and no open of the SPI pins has made up for that (`SetupAt`, `Sound`); that what the slave has taken and
the edges it missed are, but for whole bytes, the edges there were (`StepAt`); and in an
exchange that began in step and lost no edge, the bits both sides have so far
(`DataAt`). From it follow `EdgesStayLost`, `ErrorsStayInTheirBit` and `OpenDrivesThePins`.
`CallsSwapBytes` is the refinement of `ByteExchange`: while no ioctl fails, the exchanges
are all clean (`PerfectAt`), so the last falling edge is the step that swaps.

**UdpEchoProofs** (`UdpAssumption`). `NumbersAt`: numbers on the way or received are below
`msgcnt`, and no number is on the way to two clients, nor to one while another has it.
`AnswersAt`: what a client counts and the answers still on their way to it are
covered by what the server received from it and by the faults. Theorems `Types`,
`NumbersAreTheirs` and `OnlyFaultsPutAhead`, for any number of clients, messages and
faults.

**SignalProofs** (`AlarmAssumption`: the period is not zero). `EndsAt`:
once the mask is set all four signals are blocked, and a pending interrupt has been
sent; theorem `Ends`. `HeartbeatIsNeverLost` needs the conjunct `ArmedIsYoung`: between
arming and clearing, the time left on the alarm and the time the process has waited
add up to a period, so that the alarm can go off before the flag is cleared only when
the process was starved; theorems `TypeCorrect` and `HeartbeatKept`.

**LinkListProofs** (`LinkListAssumption`: the memory is finite, NULL is no address). Here
too what is checked is said of chains, recursive functions of the heap, and proved of
sequences: `Path(s, a, link)` says that a link leads from `a` through the nodes `s` to NULL.
`ChainOfPath` and `PathOfChain` show that the chain of a pointer is its path whenever it
ends at NULL, and `WalkOnPath` where a search of it stops. `EachEndIsAStack` is the
refinement of `IndexStack`, twice: a caller that keeps to one end has a path along one
link whose nodes all have NULL in the other (`FirstInv`, `LastInv`), so that removing the
end never takes a longer list for a single node; `PathPushed` and `PathPopped` are the two
steps. `FewSpoilASoundList` is about lists that read the same both ways. `SoundIsLine`
replaces the two chains by one sequence with both links; what each call makes of it is
`LineOfOne`, `LineWithoutFirst`, `LineWithoutLast` and `LineWithOneMore`, and from them
`SoundHardlyFails` and `SoundKept` go through the actions. It needs no invariant but the
types (`TypeCorrect`), since it begins from any sound list, however it came about.

**ProgramProofs** is about five programs. The one-shot server (`TcpAssumption`: an argument
and its terminator fit the buffer, as `sprintf` needs). `BytesAt`: the bytes of a
connection are at most those of the argument; `RoundAt`: what the one round of the server
has and has not done at each step; `RepliesAt`: what is on its way back is the accepted
client's. Theorem `EchoesBegin`. The sequence numbers (`LollipopAssumption`: twice the
window is smaller than the circle). `OneTurn` computes the remainder in the definition
of `Ahead`; `MacroIsAhead` is the circular order as the macro writes it, in both directions:
what is printed is 1 where the order says so and 0 elsewhere. Theorems
`TypeCorrect`, `CircularOrder` and `Antisymmetry`: no two numbers are each newer than the
other. The token splitter (`TokenAssumption`: strings and words are finite). `Tokens` is
one recursive function from the positions of the string; that it exists, and that from
every place where a field may begin it stores the fields from there on
(`TokensAreTheFields`), is shown at the greatest position where it would not.
`FieldIsFirst` says that what `strtok` finds is the first field, and `FieldsAreCounted` that
every field but one has a delimiter of its own in front of it, so that one pointer more
than those counted is enough. Theorem `TokensFit`. The drive (`DiskAssumption`;
`DriveAssumption`: names are in whole words, and a drive answers with words).
`TextIsTrimmed` and `BlankIsTrimmed` follow the terminators that the trimming writes;
`NameIsTrimmed` compares the outcome with the name. The groups of digits are taken out of
what is left of the capacity: before each group, the value of those in front times its
power of 1000, and what is left, are the capacity (`DigitsAreTheCapacity`, with
`RecursionExists` and `Upwards` for the three recursive functions). Theorem
`DriveIsPrinted`; the invariant of both is that a program ends with what its operator
makes of its input (`SmallInvariant`).

The EEPROM (`InputsAssumption`: a builder and a struct of `ftdi_eeprom`; `ToolAssumption`:
serial numbers are sequences of characters, places and cuts are words, values are
integers, and a device holds words of 16 bits). A build writes to an image byte after byte. `Laid` says that a list of
writes goes to different bytes; `LaidAfter` puts two such lists together, `AppliedIs`
reads a byte back after all of them, and `WritesAre` shows that the header, the fields and
the three texts of either builder are such a list, for the 2232H as long as the strings
have at most 47 characters. `BuildHolds` says what then stands in each byte, `ShortIs`
that a number is what its bits add up to, and `HeldIs` and `DecodedIs` take the decoder
through it. With `AddressesDiffer`, and the invariant `BuildInv` (what is kept is the build
and its decoding), follows `BuiltIsDecodedHolds`.

The checksum turns a word by one bit after each word it takes in. `SameSum`: images
alike in their first words have one sum there. `OtherSum`: when one word differs, it
differs at some bit, turning keeps that bit apart from the others, and the two sums
differ at the place where it ends; `DamageShows` adds the case of the word that holds the
checksum. The invariant of the tool is `ToolInv`: the EEPROM holds words; the last whole image
is the one built for an accepted serial number; what `readall` has told is about what its
transfer brought (`Told`); and the words with the lengths of the texts have a high byte
of at least 2, unless one was written singly or is still as it was found. The last conjunct is needed because a
transfer that stops half-way leaves a mixture of images: an erased word and a word of
any image both keep that bound, whatever stood there before. Theorems `WrittenIsShownHolds`,
`DamageIsNoticedHolds` and `FaultsNeedDamageHolds`, for any contents at first, any serial numbers, any number of
single writes and transfers that stop anywhere.

## 5. What is only model-checked

* Liveness (`EveryCallReturns`, `EveryClientIsAnswered`, `EveryClientFinishes`,
  `EveryClientEnds`, `BeatsForever`, `EverySignalIsTaken`): the prover does not reach
  properties that rest on fairness.

Every other property of the passing runs is a theorem of section 4. Left to the run that
violates it is `FixedSpaceIsEnough`, which is false.

## 6. Where the code and its words part

Checked, by a run that must find it violated:

* `eeprom_long_strings`: `ftdi_2232h_eeprom_build` grants the strings all but 28 bytes
  ("28 are always in use (fixed)", `eeprom.c:275`) or 120 bytes of a 256-byte image,
  and lays them out from 0x9A with two bytes of header each. Strings it accepts run
  over the header fields or into the checksum. `BuiltIsDecoded` says up to which
  length that cannot happen (47 characters).

Met while modelling, and part of the models as the code does it:

* `uart.c:63` says "no more string" where a non-blocking read finds nothing yet: the
  rest of the answer may still be on the line (`NoStaleAnswer`, part of `AnswerIsItsOwn`,
  says what becomes of it).
* `eeprom.c:838` reports "Write serial number Success." whatever `ftdi_write_eeprom`
  returned.
* `eeprom.c:505` says that high current is in byte 0; line 506 reads it from byte 2, the
  vendor ID.
* `eeprom.c:854` offers a to f for a serial number; line 823 turns f away.
* `linklist.c:115` says "only one data, previous and next are null" of a test that
  also holds for the head of a longer list built by `add_last`.
* `alarmmain.c:119` arms the alarm before line 120 clears the flag.

## 7. What is not modelled

* `signalTimerStop` (`signal.c`), `SignalHandler1` and `SetTimer` (`alarmmain.c`) and `gpio_write_int`
  (`spi_gpio.c`): nothing calls them.
* Lengths a caller passes that overrun a buffer (`hello.c:66`, `uart.c:51`,
  `kvmnetwork.c:158`): the models take what fits. A request on a connection that TCP cuts in
  two (`KvmServer`), which the server would take for two.
* `read` and `write` of the driver's file operations, which return 0, and the unused
  fields of its struct.
* Text: `printf`, `perror`, usage lines, and the dump of a drive's words in hexadecimal
  (`mbr.c`).
* `dhcf/dh1cf.c`, which packs a slot and an address into three words for
  `dhcf/lookup3.c` to hash: there is no state, and nothing to say of the result that does
  not depend on the hash, which is third-party code.
* `ftdi-eeprom/main.c` (lists a device), the shell scripts, the language samples and the
  Makefiles.

## 8. Plan

Done: the modules above, in the order driver, connection list, port, server, sequence
numbers, alarm loop, EEPROM, linked list, UDP, SPI master, signals, one-shot server,
datagrams, drive and tokens; the theorems of section 4.

All properties of the passing runs but the liveness ones are proved. What could be added
is in section 7; what is in section 5 waits for a prover that takes fairness.
