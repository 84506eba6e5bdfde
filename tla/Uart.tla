-------------------------------- MODULE Uart --------------------------------
(***************************************************************************)
(* The serial port functions of network-module/uart.c (uart/uart.c is the  *)
(* same code with a main): connect, set the line, write one command, wait  *)
(* a second, read lines until there is none, disconnect.  The steps of one *)
(* call interleave with the device on the line.                            *)
(*                                                                         *)
(* The device and the tty are external.  The device answers a command with *)
(* some lines, each of which reaches the tty's input queue whenever it     *)
(* will; a line that comes while the port is closed is lost, and closing   *)
(* the port empties the queue.                                             *)
(***************************************************************************)
EXTENDS Naturals, Sequences, FiniteSets, FiniteSetsExt

CONSTANTS
  Commands,    \* strings a caller passes to uartCommand
  Length,      \* strlen of each
  BufSize,     \* bytes of the static buffer s1 (20)
  MaxLines,    \* lines the device answers with, at most (a bound)
  MaxAsks,     \* commands written in a behaviour (a bound)
  UartFaults   \* calls that may fail: "open", "write", "hangup", "memory"

ASSUME UartAssumption ==
  /\ Length \in [Commands -> Nat]
  /\ \A c \in Commands : Length[c] + 3 <= BufSize
  /\ MaxLines \in Nat \ {0} /\ MaxAsks \in Nat /\ BufSize \in Nat
  /\ UartFaults \subseteq {"open", "write", "hangup", "memory"}

VARIABLES
  upc,         \* the next step of the calling thread
  open,        \* fd is an open descriptor
  s1,          \* the static buffer of uartCommand, cell by cell
  sent,        \* what the last write put on the line
  cmd,         \* the command being executed
  buffer,      \* the lines collected: <<k, i>> is line i of the answer to command k
  tty,         \* lines the kernel has received
  wire,        \* lines the device has still to send
  asks,        \* how many commands have been executed
  done,        \* history: the commands executed
  healthy,     \* no call fails, and the device answers within the second of sleep(1)
  overdue      \* history: answers still on the wire when the input was flushed

uartVars == <<upc, open, s1, sent, cmd, buffer, tty, wire, asks, done, healthy, overdue>>

MayFail(call) == ~healthy /\ call \in UartFaults

NUL == <<"nul", 0>>
LF == <<"lf", 0>>
CR == <<"cr", 0>>
NoString == <<<<0, 0>>>>     \* uartCommand returned NULL
Owners(lines) == {l[1] : l \in Range(lines)}

Text(c) == [i \in 1 .. Length[c] |-> <<c, i>>]

UartInit ==
  /\ upc = "idle"
  /\ open = FALSE
  /\ s1 = [i \in 1 .. BufSize |-> NUL]
  /\ sent = <<>>
  /\ cmd \in Commands
  /\ buffer = <<>>
  /\ tty = <<>> /\ wire = <<>>
  /\ asks = 0 /\ done = {} /\ overdue = {}
  /\ healthy \in BOOLEAN

-----------------------------------------------------------------------------
\* The caller starts the sequence for command c.
Ask(c) ==
  /\ upc = "idle" /\ asks < MaxAsks
  /\ upc' = "connect"
  /\ cmd' = c
  /\ asks' = asks + 1
  /\ buffer' = <<>>
  /\ UNCHANGED <<open, s1, sent, tty, wire, done, healthy, overdue>>

\* A failed open is reported and the sequence goes on with fd = -1.
uartConnect ==
  /\ upc = "connect"
  /\ upc' = "baud"
  /\ \/ open' = TRUE
     \/ MayFail("open") /\ open' = FALSE
  /\ UNCHANGED <<s1, sent, cmd, buffer, tty, wire, asks, done, healthy, overdue>>

\* Mutated form of uartBaudrate: the input is not flushed.
uartBaudrateNoFlush ==
  /\ upc = "baud"
  /\ upc' = "write"
  /\ overdue' = Owners(wire)
  /\ UNCHANGED <<open, s1, sent, cmd, buffer, tty, wire, asks, done, healthy>>

\* tcflush(TCIFLUSH) discards what has been received so far.
uartBaudrate ==
  /\ upc = "baud"
  /\ upc' = "write"
  /\ tty' = IF open THEN <<>> ELSE tty
  /\ overdue' = Owners(wire)
  /\ UNCHANGED <<open, s1, sent, cmd, buffer, wire, asks, done, healthy>>

\* Mutated form of Filled: nothing marks the end of the command.
FilledUnterminated(c) ==
  [i \in 1 .. BufSize |-> IF i <= Length[c] THEN Text(c)[i] ELSE s1[i]]

\* memcpy of the command, then line feed and carriage return.  What a longer
\* command left behind them stays.
Filled(c) ==
  [i \in 1 .. BufSize |->
    IF i <= Length[c] THEN Text(c)[i]
    ELSE IF i = Length[c] + 1 THEN LF
    ELSE IF i = Length[c] + 2 THEN CR
    ELSE s1[i]]

\* write(fd, s1, strlen(s1)); its result is not looked at.
uartWrite ==
  /\ upc = "write"
  /\ upc' = "sleep"
  /\ s1' = Filled(cmd)
  /\ done' = done \cup {cmd}
  /\ LET end == Min({i \in 1 .. BufSize : s1'[i] = NUL})
     IN \/ /\ open
           /\ sent' = SubSeq(s1', 1, end - 1)
           /\ \E n \in (IF healthy THEN 1 ELSE 0) .. MaxLines :
                wire' = wire \o [i \in 1 .. n |-> <<asks, i>>]
        \/ /\ ~open \/ MayFail("write")
           /\ sent' = <<>>
           /\ UNCHANGED wire
  /\ UNCHANGED <<open, cmd, buffer, tty, asks, healthy, overdue>>

\* Mutated form of uartSleep: the device is not waited for.
uartSleepNot ==
  /\ upc = "sleep"
  /\ upc' = "read"
  /\ UNCHANGED <<open, s1, sent, cmd, buffer, tty, wire, asks, done, healthy, overdue>>

\* sleep(1), which a prompt device does not outlast.
uartSleep ==
  /\ upc = "sleep"
  /\ healthy => wire = <<>>
  /\ upc' = "read"
  /\ UNCHANGED <<open, s1, sent, cmd, buffer, tty, wire, asks, done, healthy, overdue>>

Leave(string) ==
  /\ upc' = "close"
  /\ buffer' = string
  /\ UNCHANGED <<open, s1, sent, cmd, wire, asks, done, healthy, overdue>>

\* Mutated form of ReadLine: a line replaces those read before it.
ReadLineOverwriting ==
  /\ upc = "read" /\ open /\ tty # <<>>
  /\ buffer' = <<Head(tty)>>
  /\ tty' = Tail(tty)
  /\ UNCHANGED <<upc, open, s1, sent, cmd, wire, asks, done, healthy, overdue>>

\* read returns a line, which is appended.
ReadLine ==
  /\ upc = "read" /\ open /\ tty # <<>>
  /\ buffer' = Append(buffer, Head(tty))
  /\ tty' = Tail(tty)
  /\ UNCHANGED <<upc, open, s1, sent, cmd, wire, asks, done, healthy, overdue>>

\* read returns -1: the queue is empty, or fd is -1.
ReadNothing ==
  /\ upc = "read" /\ (tty = <<>> \/ ~open)
  /\ Leave(buffer)
  /\ UNCHANGED tty

\* read returns 0 and leaves an empty string, when the line hangs up.
ReadEnd ==
  /\ upc = "read" /\ open /\ MayFail("hangup")
  /\ Leave(buffer)
  /\ UNCHANGED tty

\* realloc fails once a line has been read.
ReadNoMemory ==
  /\ upc = "read" /\ open /\ tty # <<>> /\ MayFail("memory")
  /\ tty' = Tail(tty)
  /\ Leave(NoString)

\* close; the tcsetattr after it fails, so the line keeps the new settings.
uartDisconnect ==
  /\ upc = "close"
  /\ upc' = "done"
  /\ open' = FALSE
  /\ tty' = <<>>
  /\ UNCHANGED <<s1, sent, cmd, buffer, wire, asks, done, healthy, overdue>>

\* The caller takes the string.
Collect ==
  /\ upc = "done"
  /\ upc' = "idle"
  /\ UNCHANGED <<open, s1, sent, cmd, buffer, tty, wire, asks, done, healthy, overdue>>

Call ==
  \/ uartConnect \/ uartBaudrate \/ uartWrite \/ uartSleep
  \/ ReadLine \/ ReadNothing \/ ReadEnd \/ ReadNoMemory
  \/ uartDisconnect

\* The device sends its next line.
DeviceLine ==
  /\ wire # <<>>
  /\ wire' = Tail(wire)
  /\ tty' = IF open THEN Append(tty, Head(wire)) ELSE tty
  /\ UNCHANGED <<upc, open, s1, sent, cmd, buffer, asks, done, healthy, overdue>>

-----------------------------------------------------------------------------
(* Properties.                                                             *)

\* The string uartCommand returns holds lines of an earlier command's answer
\* only if the device still owed them when this call flushed the input.
NoStaleAnswer ==
  buffer # NoString => Owners(buffer) \subseteq {asks} \cup overdue

\* The answer to its own command is in it from its first line on, in order
\* and without a gap, however much of it is missing at the end.
AnswerIsAPrefix ==
  \A p \in 1 .. Len(buffer) : buffer[p][1] = asks =>
    buffer[p][2] = Cardinality({q \in 1 .. p : buffer[q][1] = asks})

\* What uartCommand returns is a beginning of its own answer, with lines of
\* others only as far as the device was late with them.
AnswerIsItsOwn == NoStaleAnswer /\ AnswerIsAPrefix

\* The device is sent the command, line feed and carriage return, followed by
\* nothing when no longer command came before.
CommandIsSentWhole ==
  sent # <<>> /\ upc \in {"sleep", "read", "close", "done"} =>
    LET n == Length[cmd] IN
    /\ Len(sent) >= n + 2 /\ SubSeq(sent, 1, n + 2) = Text(cmd) \o <<LF, CR>>
    /\ (\A c \in done : Length[c] <= n) => Len(sent) = n + 2
=============================================================================
