# Verification of CS_Labs

The repository holds a student's solutions to the labs of a systems course
(CS:APP). Each lab is a program of its own and they share no state; the proxy
lab holds two programs that talk to each other. This directory models the
programs whose behaviour is worth checking, states what makes them correct,
checks small instances with TLC and proves the central properties with TLAPS.

Contents: [1 inventory](#1-inventory), [2 modules](#2-modules-and-the-code),
[3 runs](#3-runs), [4 proofs](#4-proofs), [5 what the code does
wrong](#5-what-the-code-does-wrong), [6 not modelled](#6-what-is-not-modelled),
[7 plan](#7-plan).

## 1. Inventory

### Shell lab: tsh (`ShellLab/shlab-handout/tsh.c`)

* **State.** The job list `jobs[MAXJOBS]` (pid, jid, state), `nextjid`, the
  signal mask; in the kernel the pending signals and the state of each child.
* **Operations.** The read loop, `parseline` and `builtin_cmd`; `eval` (a command
  in the foreground or the background), `do_bgfg`, `waitfg`, `quit`, the handlers of SIGCHLD, SIGINT and SIGTSTP, and
  the helpers of the job list (lines 398-526).
* **Interaction.** Main program and handlers share the job list; a handler runs
  between any two steps that do not block its signal, and handlers nest. Children
  report by SIGCHLD and `waitpid`; the shell answers by `kill(-pid, ...)`.
* **Hard behaviour.** The interleavings of the main program, nested handlers, the
  startup of children and the keyboard; SIGCHLDs that coalesce; a reused pid; a
  full job list; a failed `fork`; quotes, ampersands and lines longer than the
  buffer.
* **Correctness.** At most one foreground job; the list agrees with the
  processes; no child's end or stop is lost; keyboard signals reach only the
  foreground job; `waitfg` returns; the states follow the comment at lines 28-36;
  the slot `do_bgfg` works on is never another job's; the commands carried out
  are those that were typed.

### Cache lab: csim (`CacheLab/csim.c`) and transpose (`CacheLab/trans.c`)

* **State.** csim keeps tags `cache[S][E]`, one linked list per set that records
  every use of a line, and three counts. The transpositions keep two matrices,
  loop counters and temporaries.
* **Operations.** `proc_instr` for a load or store, twice for an `M`; `push`,
  `front`, `pop`. The three branches of `transpose_submit`; the baseline `trans`;
  `registerFunctions` offers both to the driver, `is_transpose` checks them.
* **Hard behaviour.** The list grows by an entry per access and only evictions
  shorten it; -1 marks an empty line; the 64-column branch stores a quarter of
  each block in the place another quarter will take.
* **Correctness.** The victim is the least recently used line; the counts are
  those of an LRU cache. B is the transpose of A, no access leaves the matrices,
  and no block is loaded into the rated cache twice.

### Proxy lab: csapp, proxy, tiny (`ProxyLab/proxylab-handout`)

* **csapp networking.** State: an address list, a descriptor, the place in the
  walk. Operations: `open_clientfd`, `open_listenfd`, `Accept`, `Close`. Hard: any
  call may fail at any address. Correct: no descriptor is left behind, a later
  address is tried, -1 means that none worked.
* **csapp robust I/O.** State: `rio_t` (buffer, pointer, count). Operations:
  `rio_readn`, `rio_writen`, `rio_read`, `rio_readlineb`, `rio_readnb`. Hard: short counts,
  EINTR, resets at any byte. Correct: nothing lost, doubled or reordered, whole
  lines and blocks.
* **proxy.** State: the descriptor table, `connfd` of main, the locals of each
  thread. Operations: accept, create a thread, read a request, connect, relay,
  close. Threads share the descriptor table and, by the address main passes
  them, `connfd`. Hard: descriptors are reused at once, one thread's fatal error
  ends them all, a server may never answer. Correct: each client gets the reply
  to its own request, no descriptor leaks, every client is served.
* **request rewriting** (`parse_url`, `uri2req_header`). Buffers that are never
  initialised, three forms of URL, headers dropped or replaced.
* **tiny.** An iterative server: one connection after the other, static files,
  CGI programs in a child. Hard: clients that leave or never finish, files that
  change between `stat` and `open`, programs that do not end. Correct: a closed
  connection carries one whole reply, every client is served unless one holds
  the server. `cgi-bin/adder.c` is its CGI program.

### Data lab (`DataLab/datalab-handout`)

* **bits.c / tests.c.** Thirteen puzzles over 32-bit words and the functions
  they are compared with. Correct: equal on every argument.
* **btest.c / decl.c.** Reads options (a puzzle, its arguments, rating, limit),
  makes test values, runs each puzzle under an alarm whose handler jumps back with
  `siglongjmp`, adds up points. Hard: a solution that never returns, an alarm
  that goes off late, options given twice. Correct: right verdicts, every puzzle
  tested on the arguments that were fixed, full marks only for right solutions.
* **ishow.c, fshow.c.** Read numbers and display their bits. Hard: the ends of the
  ranges, signed and unsigned. Correct: what is displayed is what was typed.
* **driver.pl, bddcheck.** Course scripts.

### Others

The drivers of the shell and proxy labs feed traces and compare output; the
attack and bomb labs hold notes on binaries that are not in the repository.

## 2. Modules and the code

| Part | Modules |
|---|---|
| tsh | `JobControl` (abstract), `JobList` (the helpers), `JobTable` (the list alone), `Shell` (main program, handlers, children, kernel), `ShellProperties`, `MCShell`; `ShellProofs` |
| tsh command line | `CommandLine`, `MCCommandLine`; `CommandLineProofs` |
| csim | `LRUCache` (abstract), `Csim`; `CsimProofs` |
| transpose | `Trans`, `MCTrans`; `TransProofs` |
| csapp networking and I/O | `Sockets`, `Rio`, `Connection` (both); `ConnectionProofs` |
| proxy | `Proxy`; `ProxyProofs` |
| request rewriting, tiny | `ProxyRequest` (operators), `Tiny`, `MCTiny`; `TinyProofs` |
| data lab | `Bits` and `Numbers` (operators), `Btest`, `Show`, `DataLab` (both), `MCDataLab`; `DataLabProofs` |

A definition whose name ends in `_Bug...` is the code with one plausible mistake
in it. No specification uses it; each shows that a property notices.

**Shell.** `pc` is the place of the main program: `prompt`, then for a command
`fork`, `add`, `report`, `wait`, and for `fg`/`bg` `set`, `read`, `cont`, `wait`.
`handler[s]` is the place of each handler, `stack` the order in which they
interrupted one another; `Deliver(s)` pushes one when its signal is pending and
not blocked, and only the topmost moves (`Runs`). A stretch the code runs with
every signal blocked is one step. `KillGroup` is `kill(-pid, sig)`: it finds the
process only once it has its own group (`SetPgid`), and until `Exec` the child
still has the shell's handlers, which swallow the signal. Signals have their
default actions in the programs; SIGCONT from anyone but the shell is left out.
A process id may be handed out again as soon as `waitpid` has returned it.
Which command comes next is the choice of an action.

**CommandLine** is the text side of the same program: `fgets` with its buffer,
the `feof` test before `eval`, `parseline` with its search for quotes and blanks,
and the dispatch. A character is a member of a small set; a letter stands for
each builtin's name. Its property compares the commands with those of a reader
that takes one character after the other and knows no buffer (`Meant`).

**JobControl** is the state machine of the comment at tsh.c:28-36 with stops of
background jobs, which line 31 leaves out and `sigchld_handler` handles.
`ShellProperties` maps it to the job list: the status of a process is the state
of its slot.

**Csim.** `trace` is the history of accesses; `LoadOrStore`, `Modify` and
`ModifyAgain` are lines of the input. The number of sets S and of bytes per
block B stand for 2^s and 2^b; instruction lines, which csim skips, are left
out. `lru[n]` is the linked list of set n with its dummy entries. **LRUCache**
knows only which tags a set holds and which was used before which.

**Trans** is `transpose_submit` and `trans` at the real sizes. Each element of A is its own
coordinates. A step is one pass of the innermost loop that is not straight-line
code, or one row of `trans`; what it touches, in order (`Pass`), goes through the cache named at
trans.c:7-8, with A and B a multiple of its size apart.

**Sockets** walks the address lists of the two ends, `NothingIsLeftOpen` and
`WalksEndRight` being about every failure on the way. **Connection** composes it
with Rio: the bytes flow once both ends are connected.

**Rio.** A writer and a reader with a bounded socket between them. A `write` or
`read` moves any number of bytes it may; reads may be interrupted or reset. An
interrupted write changes nothing and is left out. The wrappers' exit on error
is the state `exited` of the call.

**Proxy.** A thread is named by the client whose arrival made main create it;
`th[t]` holds its place and locals, among them the descriptor it read through
main's pointer (`ReadArgument`). Lines and replies are tokens that name their
client. A read keeps the connection it looked up when it began, as the kernel
does. `Abort` is the exit of the csapp wrappers. When a client leaves before
its request line, `buf` is uninitialised and the line is any that the stack may
hold.

**ProxyRequest** turns a URL form and header lines into the lines sent on; what
the uninitialised `host_hdr` and `other` held is its parameter `stack`.

**Tiny.** Clients connect directly or by the proxy; a request names a file by
what the server will find there. A request is sent at once; the headers loop
takes the lines that are there up to a blank one. What a client asks is in `ask`,
what it has received in `reply`. `more headers` is a server
that waits for lines or, at the end of the stream, spins. A connection closed
with unread lines may be reset and lose its reply.

**Bits.** A word is the set of its one bits and the width a parameter, so the
puzzles are the code's operators on sets. `isTmax` returns a set of possible
results: `x + 1` overflows for the largest int, the language leaves that open
and the optimiser uses it. The other overflows (`isLessOrEqual`, `negate`) wrap
in the build of the Makefile. The machine's floating point, which tests.c
relies on, is rounding to the nearest value, ties to even.

**Numbers** has the three copies of `get_num_val`, which differ in what they take,
and the fields `show_int` and `show_float` display. A text is what `strtoll` or
`strtof` makes of it. **Show** is the two programs' loops over their arguments.
**DataLab** runs one of btest, ishow and fshow.

**Btest** reads its options one by one (`ReadOption`, `FixArgument`), then draws one random value per free argument where the code draws several: the
tests compare every combination, so several values find what each of them finds.
`LateAlarm` is the alarm of a finished test, whose jump goes to a frame that has
returned: the process crashes, or the frame's place on the stack still makes
sense and a timeout is reported for that puzzle or the next.

## 3. Runs

| Run | Bounds | What it shows | States |
|---|---|---|---|
| ShellSafety | 2 slots, 2 pids, jids to 2, failing forks, ctrl-c and ctrl-z | `TypeOK`, `AtMostOneForeground`, `JobsAreChildren`, `ChildrenAreListed`, `NoLostChild`, `StopsAreShown`, `SignalsOnlyForeground`, `KeepsItsJob` | 1.9 million |
| ShellWaiting | the same, with the bounds of `MCShell` | `ImplementsJobControl`; `WaitEnds`, `ZombiesAreReaped` under fairness | 119 000 |
| CommandLine | every text of at most 6 of 6 characters, buffer of 5 | `CommandsAreMeant` | 278 000 |
| CsimLRU | 2 sets of 2 lines, blocks of 2, 12 addresses, 5 accesses | `OneLinePerTag`, `QueueOrdersLines`, `CountsAreLRU`, `SecondAccessHits`, `ImplementsLRU` | 790 000 |
| Transpose | both functions on 32x32, 64x64, 61x67, 5x3, 24x9, 46x8 | `FinishedBlocksAreRight`, `EachBlockLoadsOnce`, accesses in bounds (`TypeOK`) | 1 900 |
| RioStream | 2 addresses; messages to 5 bytes, socket 3, buffer 2, lines and blocks to 4 | `NothingIsLeftOpen`, `WalksEndRight`, `InOrder`, `ReturnsWhole`, `EverythingArrives` | 446 000 |
| ProxyServes | 3 clients, 4 descriptors, arguments read in time | `OwnConnections`, `NoDescriptorLeaks`, `RepliesReachTheirClients`, `AllAreServed` | 64 000 |
| TinyServes | 2 clients, every URL form, file and program | `RepliesAreRight`, `AllAreServed` | 400 000 |
| Puzzles | 8-bit words, 4 exponent bits, TEST_RANGE 3, 400 command lines, 2 numbers to display | `VerdictsAreRight`, `FixedValuesAreTyped`, `FullMarksMeanAllRight`, `ValuesAreExact`, `TestsComeToAnEnd` | 37 000 |
| ShellBgCrash | 2 slots, 2 pids | `NoCrash` is violated | |
| JobTableFour | 4 slots, 5 pids | `JidsFindTheirJobs` is violated | |
| ProxyWrongClient | 3 clients at once, 6 descriptors | `RepliesReachTheirClients` is violated | |

**Why the bounds are enough.** In both shell runs two pids, two slots and job ids
to 2 (`JidBound` stops new commands once they exceed it) give a foreground and a
background job at once, a handler for one in the middle of an operation on the
other, two children that end on one SIGCHLD, reuse of a pid and of a slot, and any
fork may fail. ShellSafety has every interleaving of that. ShellWaiting, whose
question is liveness, leaves out what `MCShell` names: the lowest free pid is taken
(a symmetry), the shell ends at the prompt only, and with a second job the user
presses one key at a time, with two children while `waitfg` waits. With a
single job both keys may come at any moment and nest. None of this holds a handler
or the program back for good, so the fair behaviours that remain are fair of Shell.
A list that is full while another child is started needs more processes than
slots and is left to the theorems, which cover every table size. Six characters hold a
command, an ampersand and a quoted argument, or two lines, and a buffer of five
is shorter than the longest line. A queue
of csim needs five accesses for a hit, an eviction and a second eviction that
must skip what the first left behind. Five bytes through a buffer of two and a
socket of three put a line's end, the buffer's end and the limit of a call at
every place relative to one another. The proxy's instance has a client whose
server never answers, one that leaves early and whose server refuses, and one
that must be served all the same. They come in any order or together, and with four
descriptors both `accept` and a thread's connect may find none. `ReadInTime` says
that main has not accepted again before a thread read its argument: the code does not see
to that, and ProxyWrongClient drops it. With two
clients each of Tiny's requests can be in the way of every other one, and
eight-bit words keep every boundary of the puzzles and of the displayed numbers:
signs, carries, denormals, ties, infinities. The command lines are those in which
options meet: an argument given twice, out of order, with and without a name. Transpose needs no bound: the sizes are those the course
grades.

**Fairness.** Shell: strong fairness of the main program, the handlers and the
delivery of SIGCHLD, because handlers keep interrupting, the program keeps blocking
SIGCHLD, and no finite burst starves what waits; weak fairness for the delivery of the
other signals, which only their own handler delays, and for the startup of children. Nothing makes a
program end or the user type. Rio: both processes run and a read is not
interrupted for ever; the walks over the addresses go on. Proxy: main and threads are scheduled, servers outside
`Hung` answer. Tiny: the server and the CGI program run; clients owe nothing.
Btest: the program runs, and an alarm set goes off if its test does not return.
CommandLine, Trans and Csim are sequential and only checked for safety.

`CHECK_DEADLOCK FALSE` is set where the system may stop for good: the end of
csim's input or of the shell's, servers without clients, an exited reader, the end
of a program of the data lab. Shell
and Trans have an explicit final step and are checked for deadlock.

## 4. Proofs

TLAPS checks every step; nothing is assumed but the ASSUMEs named here.

**ShellProofs**, for every `MAXJOBS`, set of pids and choice of signals and fork
errors: `TypeCorrectness`, `ForegroundIsUnique`, `NoStaleJobs`,
`NoSigchldIsLost`, `BackgroundIsSpared` and `StopsBecomeVisible` follow from
`Invariance`. The properties are not inductive alone: that a job is unique in the
foreground depends on where the main program is (`ForegroundAtWork`); that
`addjob` lists a child that still exists, on SIGCHLD being blocked since before
`fork` (`ChildBeforeAdd`); that a stop becomes visible, on the stop being
unreported, in the hands of the handler, or marked (`StopsOnTheWay`,
`ReportedAreStopped`); and the slot that `do_bgfg` holds with signals unblocked
may have been emptied meanwhile (`SlotHeld`), though never given to another job:
`SlotsKeepTheirJobs`. With a finite set of pids no larger than the table,
`NoChildIsMissing`: a full table would name more processes than there are, and a
reaped pid is not given away before its job is deleted (`Reaped`). The module
begins with the lemmas on `addjob`, `deletejob`, `fgpid` and the other helpers.

Its last part proves `JobStatesAreImplemented`: every step of the shell is a
step of `JobControl` or a stutter, a full list and failing forks included. Beside
the invariant it needs that a used slot always has a state (`StatesAreSet`), and
how a change of one slot shows in the statuses (`OneChange` and its like).

**CommandLineProofs**, for every set of characters with the blank, the newline and
the quote in it, every text and buffer size: `CommandsFollowTheText`. Two recursions
have to meet: `parseline` searches a line from word to word, the reader of
`Meant` takes each character. `Scan` relates them at each position: the
words the reader has ended, and the arguments the search finds from where its open
word began, are those of the line (`ScanStep`, `ScanEnd`). `LineMeans` carries this
over a line by taking the first position where it would fail. Across lines,
`Boundary` says that `fgets` starts only where the reader has seen a line end, with
the count of full buffers since the last newline (`FgetsStops`). That the recursive
functions exist at all is proved too (`FromExists`, `ReaderIs`).

**CsimProofs**, for every S, E, B, and memory: `TypeCorrectness`,
`TagsAreUnique`, `QueuesAreOrdered`, `SecondAccessesHit` and the refinement
`CsimImplementsLRU`. The invariant is that a queue, with dummies and repeated
entries, orders exactly the loaded lines. `NoSentinelTag` is assumed: without it
the highest address has the tag of an empty line (section 5).
`CountsAreThoseOfLRU`: the summary is that of an LRU cache as the trace alone
defines it. `HistoryOK` ties the queues to the trace: a set's loaded tags are
those last accessed, an older entry is a tag accessed longer ago, and a block that
is not loaded has seen E others of its set since. Hence an access hits exactly if
it is an `LRUHit` (`ResidentIsHit`, by counting the tags used since), and the
counts go up together (`CountsOK`).

**ProxyProofs**, for every number of clients and descriptors. `TypeCorrectness` holds
on every schedule. The rest is stated as `Spec /\ []ReadInTime => []...`:
`ThreadsKeepTheirConnections` and `DescriptorsDoNotLeak` are false of the code as it
is, since main may accept again before the thread it started last has read `connfd`
(proxy.c:42-58; ProxyWrongClient shows what follows), and the theorems say that this race
is all there is: whatever clients, servers and descriptors do, as long as it does not
happen no connection is confused and none is left open. The invariant (`Uses`)
says that each open descriptor has one holder and that at most one thread is being
started, whose connection `connfd` is; `Held`, which needs no assumption, that whoever
uses a descriptor has a number of the table. `RepliesAreDelivered` adds where each token is on
its way (`Data`): in whose inbox, in whose buffer, asked of whose server. A thread
may carry another client's request only when its own client has gone.
`RunsAreInTime` ties this to the run: the behaviours of `InTimeSpec` are those of
`Spec` that satisfy `ReadInTime`.

**ConnectionProofs**, for every message, buffer, socket and limit: `TypeCorrectness`,
`StreamIsKept`, `CallsReturnWhole`. `InOrder` is nearly inductive; that a call
returns what it should needs `CallsHaveRoom` (what it has got is less than it
asked for) and `LinesAreOpen` (a line in progress has no newline yet). For address
lists of any length: `WalksLeaveNothingOpen` and `WalksEndAtTheFirst`, which need
at each point of a walk which of its addresses have failed so far and how many
descriptors it holds (`WalksOK`), and whose socket is bound (`BoundOK`).
`ConnectionRunsRio` says that connecting first gives Rio no new behaviour, so that
the theorems about Rio hold of connections.

**TransProofs**, for every set of sizes the branches allow: `MatricesAreTransposed`.
The invariant says for each loop what it has put into the block it works on after
k passes (`BlocksOK`: for M = 64 the quarter parked in B, for M = 32 the rows that
are still to be swapped), that the blocks left are right (`LeftOK`) and that at
the end nothing but finished blocks is there (`DoneOK`). `PlacesExist` is the
type invariant: no pass reads or writes outside A and B, for which the lemmas on
each pass say that its sequence of accesses is one over the places there are
(`PassIn`), and one on the fold that the cache keeps its sets (`FoldIn`).

**TinyProofs**, for any clients, pages and headers: `TypeCorrectness` and
`EveryReplyIsRight`. The invariant has what the current connection holds at each
point of `doit` (`ServedOK`), and that whoever is not served yet has nothing
(`ConnectionsOK`).

**DataLabProofs**, for every width that is a power of two with an exponent field
that has room for all its integers (`BitsAssumption`; the run has 8 and 4 bits, the
code 32 and 8). `PuzzlesAreRight`: the thirteen puzzles compute what tests.c does,
isTmax for all words but the largest int. The backends know nothing of 2^n, so the
module starts there: 2^n counts the subsets of n things (`SubsetsAre`), which gives
the recursion (`PowerIs`), and `Num`, a sum over a set, unfolds bit by bit
(`NumUnfolds`, `NumLess`). From these follow that words and numbers correspond
(`BitsOfNum`, `NumOfBits`), what complement, sum and shifts do to the number, and
that the binary searches, folds over the halves of the width, exist and keep what
they look for (`SequenceFoldExists`). For floats, sizes are in the order of their
bits (`MagnitudeGrows`), a value between two neighbours is rounded to the nearer one
(`NearestIsBetween`), and the cut bits of `float_i2f` say which that is
(`RoundsToNext`).

Then btest, for every command line, value drawn, and choice of slow puzzles and
puzzles that never return: `OnlyIsTmaxCanFail` states `VerdictsAreRight`,
`TheNumbersTypedAreUsed` `FixedValuesAreTyped`, `FullMarksAreEarned` the points, and
`TheLastOptionDecides` what an argument is fixed to. The invariant is about the late
alarm: it can only belong to the test that runs or to the last one that ended
(`AlarmOK`), so that what it brings back has no points yet or keeps them without a
right verdict (`VerdictsOK`). It also needs that what is drawn are words
(`DrawsOK`), as many as the puzzle has arguments, and that every text taken so far
fits (`OptionsOK`). `TheNumbersShownAreTyped` states `ValuesAreExact` for ishow and
fshow: each answer given is right and stays so (`ShowInv`), and the mantissa and
exponent displayed give the magnitude (`FieldsAreExact`).

**Only model-checked.** Liveness everywhere, and of the invariants the cache misses
of Trans (`EachBlockLoadsOnce`): it speaks of two sizes only, 32x32 and 64x64, and
the run goes through both from end to end, so that a theorem would say no more.
`ZombiesAreReaped` and `WaitEnds` are among the first: of coalesced SIGCHLDs the
proofs have the safety half, `NoSigchldIsLost`.
ENABLED is out of the prover's reach too, and so are the library's induction
theorems, which take an operator: where a definition recurs, as in CommandLine, or
a fold of the library does, as in Trans and Bits, a least counterexample takes the
place of the induction.

## 5. What the code does wrong

Three runs end in a counterexample to what the repository says of itself.

* **ShellBgCrash** (tsh.c:196): the line printed for a background job is read
  from the list after SIGCHLD is unblocked; a job that has ended is gone and the
  null pointer is dereferenced.
* **JobTableFour** (tsh.c:432): `nextjid` wraps to 1 while job 1 may live, so two
  jobs can share an id and `%1` reaches one of them. It takes four slots: with
  fewer the holes that `deletejob` leaves cannot be filled in that order.
* **ProxyWrongClient** (proxy.c:50): threads get the address of one variable. Two
  may serve one connection; when one closes it and the descriptor is reused,
  the other writes its reply to a new client.

The models have these behaviours too, though no run is spent on them:

* tsh.c:313 reads the pid of a slot that may be empty by then: `waitfg(0)` never
  returns. `WaitEnds` speaks only of waits for a process that exists.
* tsh.c:314: a stop handled between the state change and SIGCONT leaves a
  running job listed as stopped. tsh.c:373: ctrl-c sent while a child has no
  group or program yet is lost. A job deleted while `fg` works on it leaves its
  slot in state FG. tsh.c:177 and 441: a failed fork, or a job that
  finds the list full, is not handled.
* tsh.c:181: children start with SIGCHLD blocked, against the comment above it.
* tsh.c:234: a last argument that starts with an ampersand is dropped even in
  quotes. tsh.c:135: a last line without newline is never evaluated. tsh.c:218: a
  line longer than the buffer is cut into several commands and loses a character
  at each cut.
* csapp.c:973: when `close` fails, `open_clientfd` returns without freeing the
  address list; `open_listenfd` does the same.
* csim.c:77 and 111: with s = b = 0 the highest address hits in an empty cache.
* proxy.c:57: when two clients come at once one may never be served. proxy.c:85:
  a refused server ends the proxy. proxy.c:125: a URL without a port goes
  through an uninitialised pointer, where lines 102-108 promise port 80; one
  without a host resolves nothing. proxy.c:147: the client's Host header is
  dropped and any other takes its place.
* tiny.c:108: a client that leaves before the blank line makes the server spin;
  tiny.c:167: an empty file ends it; adder.c:15: no `&`, no answer.
* bits.c:171: built with `-O1` as in the Makefile, `isTmax` is the constant 0 and
  btest reports an error for the largest int.
* btest.c:350: the alarm of a finished test is not cancelled. btest.c:496: `!*valp`
  tests the old value where the pointer is meant, so that a second `-1` is a bad
  argument unless the first was 0. ishow and fshow take an integer with anything
  behind it.

## 6. What is not modelled

The text of traces, headers and pages; names and addresses. In tsh's command line
the overrun of `argv` past MAXARGS. The csapp wrappers that are one library call
with an exit on error, most of which no program here uses. btest's `-g` and its
counter-examples, the decimal digits `printf` makes. The length of a header line:
Rio shows where a long line is cut, ProxyRequest has whole ones, so that the rest
of one that proxy.c:144 would take for the blank line is left out. Tiny's error
pages are one part of a reply: a reset that loses some of one loses all of it. An
`execve` that fails in Tiny's child is left out: the wrapper ends the child there
(tiny/csapp.c:80-84) with no output of the program sent. No property
says that a URL without a port (proxy.c:125) should be served: the model has such
a request end the proxy. The course's drivers and graders; the attack and bomb
labs, whose programs are not in the repository. `tiny/csapp.c` is a copy of the
proxy's `csapp.c`: one model stands for both.

## 7. Plan

The order was: the shell (job list, then program and handlers), csim and its
abstraction, robust I/O, the proxy, then tiny with the rewriting of requests,
the puzzles and their tester, and transposition; after that the options of btest
and the display tools, the sockets, the command line, and the proofs of all these
parts. What could still be added:

1. **Proofs.** A bound on the cache misses of Trans for every size, in place of
   `EachBlockLoadsOnce` for two of them.
2. **Models.** Header lines of every length, by composing ProxyRequest with Rio.
3. **Abstract specifications.** A server that answers each request once, which
   both Proxy and Tiny should implement; a byte stream for Rio.
