# ottercat: a TLA+ model of the socket client

`ottercat` sends command lines to an `otter` daemon over a Unix socket and
prints what comes back. The program is small, but two threads share one object
through three mutexes and two condition variables, and a retry protocol runs on
top. This directory models the program from its command line to its exit code,
model-checks it with TLC and proves its main safety results with TLAPS.

## 1. The system

| Component | Source | State | Operations |
|---|---|---|---|
| sockpush | `main/sockpush.c` | `sp_item_t`: descriptor, `read_buf`/`read_size`/`read_id`, three mutexes, two condition variables with their `*_inactive` flags, `readers`, `waiting_readers` | `sp_open`, `sp_close`, `sp_reader_create/destroy/purge`, `sp_read`, `sp_write`, `sp_sendcmd`, thread `sp_iothread` |
| cmd_devmgr | `main/cmd_devmgr.c` | `state`, `cmd_sid`, `rc`, `global_timeout`, the reader | `sub_devmgr_socket` and its JSON readers |
| dterm | `main/dterm.c` | command stream, cursor, memory pool | `dterm_init/deinit`, `dterm_cmdstream`, `sub_proc_lineinput` |
| main | `main/main.c` | arguments, command string, exit code | `main`, `ottercat_main`, `sub_readline` |
| cliopt | `main/cliopt.c` | option struct | getters, setters |

The main thread runs `main` -> `ottercat_main` -> `sp_open`, `dterm_cmdstream`
-> (per line) `cmd_devmgr` -> `sp_reader_create`, `sp_sendcmd`, `sp_read`...,
`sp_reader_destroy` -> and at the end `sp_close`. `sp_iothread` connects, reads
lines and publishes each in `read_buf`. The threads meet in `user_mutex`
(publication, reader accounts, writes), `readline_mutex`/`readline_cond` ("a
line is there") and `readdone_mutex`/`readdone_cond` ("the readers have it").

What is hard here:

* `sp_read()` peeks under a *trylock*, and a woken reader copies the line
  *without* `user_mutex`; only the readdone handshake keeps the I/O thread away;
* the readdone flag is armed after the broadcast, so its signal can be early;
* `sp_close()` cancels a thread one of whose cancellation points lies inside the
  critical section of `user_mutex`;
* the connection may come late, break, and come back;
* a command that timed out is sent again, and acks name no command;
* a wait is ended by the wall clock and a command by the monotonic one, in three
  units of time;
* every buffer has 1024 bytes and its own idea of what happens at the end.

What makes each component correct: sockpush hands out the newest line, whole,
at most once, and its calls return; cmd_devmgr answers each command within its
deadline, with that command's own answer, and gives its reader back; dterm runs
the non-blank lines of the stream, except JSON lines it cannot use, and stops at a
failure; main opens, runs and closes in order, and gives back what it took on
every path.

`PROJECT.json` lists every component, the hazards with their source lines, the
map from definitions to source lines, the runs, mutants, findings and theorems.

## 2. The modules

* **Mailbox** - what sockpush promises a reader: a one-place mailbox with the
  newest line (`Publish`), taken at most once (`Take`) or given up (`Skip`).
* **Sockpush** - `sockpush.c`. One action per stretch of code between two
  points where the other thread can interfere; the control states `io` and `cl`
  are the places in the two functions. A line is its position in the daemon's
  output (`read_buf = n`: the buffer holds the n-th line, 0 stands for
  `read_size = 0`). The daemon may appear, vanish and send (external). The
  client calls the `sp_*()` functions in any order that respects two rules: a
  reader before a read, and no reader left at `sp_close()`. `readdone_mutex`
  protects critical sections that nobody can observe half-way, and has no
  variable. Spurious wakeups only repeat the loop around the wait; a timeout can
  strike at any moment.
* **Ottercat** - the program: `main()`, `ottercat_main()`, the option store,
  `sp_open()` step by step with its clean-up switch, `dterm_init()`, the line loop
  and the handler's calls, composed with `SP == INSTANCE Sockpush`. Its main
  thread *is* the client of Sockpush: a call into sockpush moves `pc` behind the
  call and Sockpush's `cl` into it, `InCall` runs it, and the I/O thread and the
  daemon interleave. `res` counts how often each resource is held, the option
  objects of `main()` included (`Declare`, `FreeTable`); an object that is lacking
  and read all the same ends the process (`pc = "crashed"`). That
  this client keeps Sockpush's two rules is not assumed: it is `SockpushSpec`.
* **CmdDevmgr** - `sub_devmgr_socket()` with the loop of `dterm_cmdstream()`
  around it. It uses `sp_read()` through what Mailbox promises: some line of the
  daemon is handed out, older ones may have been overwritten, or nothing comes
  within `read_timeout`. A line carries what the JSON readers extract: type,
  err, sid, and whether the frame is usable; `of`, the command it answers, is
  history that the code does not see. Time is counted in ticks.
* **Deadlines** - the time in the same handler and in `sp_read()`, with the
  code's own arithmetic: `struct timespec`, the deadline and its carry,
  `diff_timespec()`, milliseconds. Two clocks run, and somebody sets one of them;
  a send may fail.
* **DtermStream** - `dterm_cmdstream()` with `sub_str_sanitize()`,
  `sub_str_mark()` and the control of `sub_proc_lineinput()`. The stream is cut in
  place, so the buffer is state; the reference is stated on the text as given
  (`Starts`, `LengthAt`). A character is of one of six kinds; two of them make
  their line a JSON object, which is run if it has its strings and dropped if not
  (`executed` records what goes to `cmd_devmgr()`). An uninitialised `cmdrc` is any
  value.
* **Buffers** - the command string of `main()` and `sub_readline()`, `readbuf` and
  `linebuf` of `sp_iothread()`, `protocol_buf` of `sub_proc_lineinput()`, byte by
  byte where a byte's age or place matters. A copy of negative length ends the
  process (`NoRoom`).
* **SockpushProofs**, **CmdDevmgrProofs**, **DtermStreamProofs**,
  **OttercatProofs**, **DeadlinesProofs**, **BuffersProofs** - theorems (the one
  about Mailbox is in Mailbox itself).
* **MCSockpush**, **MCCmdDevmgr**, **MCDtermStream**, **MCOttercat**,
  **MCDeadlines**, **MCBuffers** - the instances TLC checks; one cfg per run.

Definitions whose name has the form `X_Something` next to a definition `X` are
mutations: plausible slips in the code, each of which makes one property fail.

### Abstractions worth knowing

* Subscribers do not exist (`sp_subscribe()` returns -1).
* A write is never partial and never blocks on a full socket buffer.
* In Ottercat a line of the daemon may have any of the effects CmdDevmgr
  derives from its contents, and the time may be over after any `sp_read()`; the
  number of sends is capped by `MaxSends`, which theorem `SendsAreBounded` justifies.
  `verbose` and `debug` are left out. Memory pools (talloc) and the JSON parser's memory are
  granted; `malloc()`, `calloc()`, mutexes, threads and `dterm_init()` may fail.
* The allocator hooks of cJSON and argtable are one resource, `hooks`.
* In CmdDevmgr time passes only in `sp_read()`, an empty-handed `sp_read()`
  costs exactly `read_timeout`, and `sp_sendcmd()` returns. Deadlines says how far
  the first is true, Ottercat when the second is not.
* In Deadlines a clock ticks in nanoseconds while a wait lasts; how long a
  `sp_sendcmd()` takes is bounded by `SendTime`.
* The daemon acks only commands of this client, in order, with a fresh sid per
  session.

## 3. The runs

| Run | Bounds | Checks |
|---|---|---|
| `sockpush_threads` | 4 lines, backoff limit 3 | `TypeOK`, `IndInv`, `NoRepeat`, `NoOrphanLock`, `BufferStable`, refinement `MailSpec`; `ReadReturns`, `ReadReleasesIo`, `CloseCompletes` |
| `ottercat_program` | all sets of options, 2 lines of the daemon, 2 commands, 2 sends each, backoff limit 1 | `TypeOK`; `Balanced`: no resource released twice and, at the end of every path, all but the two option objects outside `argtable[]` released; `ThreadHasObject`: the I/O thread never outlives what it uses; `NoLeftOverAnswer`: a successful command took a line published after it had its reader; refinement `SockpushSpec`; `EndsUnlessSignalLost` |
| `devmgr` | 2 commands, 1 try, timeout of 2 ticks, 1 unrelated line, 1 corrupted rxstat, 1 rxstat per session | `TypeOK`, `DeadlineMet`, `ReaderReleased`, `OwnAnswers`; `Returns` |
| `deadlines` | a second of 2 ms of 2 ns, `read_timeout` 3 ms, 1 try, sends of 1-2 ns, 2 lines, the wall clock set twice by up to 3 ns, both clocks starting anywhere in a second | `TypeOK`, `ElapsedExact`, `WaitExact`, `CommandDeadline`; `Returns` |
| `dterm_stream` | all streams of up to 5 characters of 6 kinds | `TypeOK`, `CursorInBounds`, `LinesInOrder`, `EmptyOnlyAtEnd`, `StopsAtFailure`; `Ends` |
| `buffers` | buffers of 4 bytes, 2 arguments of up to 3, 11 bytes of the daemon, headers of 3 and 1 bytes | `TypeOK`, `CommandKept`, `LinePublished`, `AnswerInBounds` |

Why the bounds are enough. The handshake of sockpush concerns one publication
and the next; with four lines a reader can have a line, miss one, sleep over one
and be woken by another in one behaviour. The backoff limit is 3 instead of
60: the doubling overshoots it as the code's does (4 here, 64 there). In
Ottercat and CmdDevmgr two commands are the least with which something of one
(a line, an ack, a reader) can reach the other, and two sends the least with which
an answer comes twice; two lines let one be left over. The timeout of 2 ticks
lets a line come early, half-way or at the last moment, and makes
`read_timeout/2` a whole tick. In Deadlines a `read_timeout` of 3 ms is more than a
second and not a whole number of them, so the seconds, the milliseconds and the
carry all matter; the deadline with exactly a second of nanoseconds is among the
starting positions, and steps of the clock cross it. Eleven bytes fill a buffer
of 4 twice with a line in between, so a line can wrap, wrap twice, end on the
last place, and follow a longer one; two arguments of up to 3 characters pass the
size of the buffer. Five characters hold two commands with every mixture of
separators between and around them. The safety results that are proved hold for
every value anyway.

Deadlock is checked in every run; the end of the program, of the command or of
the stream is the only place to stop.

What the runs show that is easy to get wrong when reading the code:

* a deadline of exactly 1000000000 ns (`sockpush.c:423`) makes the wait fail at
  once; the handler then sends again early, and still ends (`WaitExact`, `Returns`);
* setting the wall clock back lengthens one wait by as much, and only the wait it
  happens in (`CommandDeadline`);
* of a line longer than the buffer, only what follows its last full 1024 bytes is
  published (`LinePublished`);
* whitespace at the end of the stream, such as that of CR LF, runs one empty
  command: nothing is sent and an answer is waited for (`EmptyOnlyAtEnd`);
* a JSON line without its strings is dropped, and chance decides whether the stream
  then goes on (`dterm.c:316`); no other line is lost or repeated and a failure is
  final (`LinesInOrder`, `StopsAtFailure`);
* when `socket()` fails nobody notices; every command then fails, and everything
  is released (`Balanced`, `NoLeftOverAnswer`).

### Disagreements between code and text

Each is a run that must end in a violation, and a finding in `PROJECT.json`.

| Run | Text | Code |
|---|---|---|
| `ottercat_ProgramEnds` | "There's a timeout enforced" (`cmd_devmgr.c:239`) | Broadcast (`sockpush.c:633`), reader times out or copies and signals (469-472), *then* the I/O thread arms `readdone_inactive` (637): it waits with `user_mutex`, and the next write or reader destruction blocks for ever. Only another `sp_read()` would free it (`ReadReleasesIo`). `EndsUnlessSignalLost` shows that nothing else hangs the program. |
| `sockpush_Reconnects` | "Connect to the socket" after `sp_iothread_RECONNECT` (`sockpush.c:575`, 649) | The closed descriptor is never replaced. |
| `devmgr_AckAnswersCommand` | acks "indicate a receipt or error of the command that was just sent" (`cmd_devmgr.c:20`) | After a resend, a late ack is taken for the next command's. |
| `devmgr_RetriesAsAsked` | "Integer number of request retries: default 0" (`main.c:269`) | With none asked for, a command without an answer is sent twice: `global_timeout` is half a `read_timeout` longer than the tries (`cmd_devmgr.c:210`). With five (six tries) it is sent four times: the time since `ref` is subtracted anew in every round (339). `SendsAreBounded` (section 4) says what the code does allow. |
| `dterm_SentIsData` | "we only truly care about the data object, which must be a string" (`dterm.c:208`) | The length sent is that of the whole line (231), from the shorter data string. |
| `buffers_CommandAsGiven` | inline cmd is the "Command string to cat onto daemon socket." (`main.c:343`) | The last blank replaces the terminator (319, 320); the string ends where memory happens to hold a zero. The same is true of a line from stdin (395). |

Two faults of the start-up are in Ottercat as the code has them, and are no runs of
their own. `main()` declares and documents `--timeout` and `--retries` (`main.c:268`,
269) but `argtable[]` (275) lists neither: `Refused` sends every command line with
one of them to the usage hint, so the tries and the timeout are always the defaults.
For the same reason `arg_nullcheck()` does not see that one of their objects is
lacking, and `arg_freetable()` (415) frees neither: `Balanced` leaves exactly these
two out at the end of `main()`, and `Parse` crashes where they are lacking and read.

`NoLeftOverAnswer` is about `read_buf`, not about the daemon: a line that the daemon
sent before the command began, and that the I/O thread publishes only afterwards, is
taken for its answer. `devmgr_AckAnswersCommand` is such a case.

The `@todo` notes at `sockpush.c:453` and 625 suspect that a line is read several
times. `NoRepeat` shows that it is not, as long as the daemon sends it once; the
second send of a command does make the daemon answer twice. The comment at
`sockpush.c:433` speaks of a timed lock where there is a trylock: a reader can
sleep over a line published just then, and gets the next one (`MailSpec`).

### Fairness

`sockpush_threads`: weak fairness of the I/O thread, of a pending cancellation,
and of the client *inside* a call (`IoStep`, `IoCancelled`, `ClientStep`): the
scheduler runs both threads, a cancelled thread ends at its next cancellation
point, a timed wait ends. Neither the daemon nor the client owes a new line or a
new call. `ottercat_program`: the same, with the whole main thread for the client.
`devmgr`: weak fairness of the handler; the daemon may stay silent for ever.
`deadlines`: weak fairness of the handler and of time while it waits; nobody has
to set a clock or send a line. `dterm_stream`: weak fairness of the loop, each
command being taken to return.

## 4. What is proved

Every invariant that a passing run checks is a theorem, for every value of the
constants; so are the action property and the two refinements. The inductive
invariants are defined in the `...Proofs` modules (Sockpush's in Sockpush, where
its run checks it).

**Sockpush**, for every number of lines and every backoff limit:

* `SockpushInvariant`: `Spec => []IndInv`. `NoRepeat` and `BufferStable` are not
  inductive. What carries them is *HandshakeInv*: a reader that was announced a
  line, or is copying it, finds the I/O thread between its broadcast and its
  readdone wait with the flag still up. That needs *MutexInv* (who holds what,
  where), *LineInv* (`read_id`, `read_buf` and the lines received move in step,
  except between the increment and the copy), *ReaderInv* (a reader never runs
  ahead, and has not had the line being published) and *LifeInv* (nothing runs
  after `sp_close()` has cancelled).
* `TypeCorrect`, `LockLeftFree`, `CopyUndisturbed` follow from it.
* `ImplementsMailbox`: `Spec => MailSpec`, with `newest <- read_buf` and
  `seen <- last_read - 1`: `IoFill` is `Publish`, a copy is `Take`, creating or
  purging a reader is `Skip`, everything else stutters.
* `LinesReadOnce` then is `MailboxNoRepeat` (proved of Mailbox) carried over.

**CmdDevmgr**, for every timeout, number of tries, commands and stray lines:

* `DeadlineHolds`: while the loop goes on, `0 < global_timeout <= GlobalTimeout -
  elapsed` (`DeadlineInv`); so a last `sp_read()` ends before `GlobalTimeout +
  ReadTimeout`.
* `SendsAreBounded`: `SendsInv` says that k empty-handed reads have cost
  `ReadTimeout * k` of time and, since the whole time is taken off in every round,
  `ReadTimeout * (1 + ... + k)` of `global_timeout`. What is left must be
  positive, so k(k+1) is below 2 * `Tries` + 1. This is the code's number of sends,
  not the one that `--retries` is said to set.
* `ReaderAlwaysReleased`, `TypeCorrect`.
* `AnswersAreOwn`: acks are matched by their order only. `OwnInv` says that every
  earlier command was sent at least once (`CountInv`), so that `attempts <= cmd`
  means once each (`Once`). Then, between command, daemon and handler, at most one
  ack is under way, it is the present command's and nothing has been accepted yet;
  and every session carries the number of its own command (`PendingInv`). What the
  handler has accepted at each place follows (`AcceptedInv`): the ack gives it its
  sid, and an rxstat must match that.

**Ottercat**, for every stream of commands and every number of lines:

* `ProgramKeepsRules`: `Spec => SockpushSpec`, that is, Ottercat implements
  Sockpush. `CallInv` (theorem `CallsInOrder`) says, for each place of the main
  thread, whether the handle is open, whether a reader is held and where in
  sockpush the thread may be; from it every call meets its precondition.
* `ProgramInherits`: `NoRepeat`, `NoOrphanLock`, `BufferStable`
  and `MailSpec`, proved for every client of sockpush, hold of the program.
* `AllReleased` and `ThreadKeepsObject`. `HeldInv` (theorem `ResourcesHeld`) says
  how often each resource is held at each place of the main thread: those of
  `sp_open()` from their step on, in the order of the steps, the others in the part
  of `main()`, `dterm` and the handler that owns them, the objects of `timeout` and
  `retries` from `Declare` to the end. `ThreadKeepsObject` also
  needs Sockpush's `IndInv`, carried over by `ProgramKeepsRules`: the thread runs
  only while the handle is open.
* `NotLeftOver`: a reader has skipped, when it was created, every line up to
  `mark` (`FreshInv`); by Sockpush's `IndInv` what it gets after that is newer, and
  only a line that it got makes the result of `sp_read()` positive.
* `ProgramTypes`.

**Deadlines**, for any number of milliseconds in a second and nanoseconds in a
millisecond:

* `ElapsedIsExact`, `WaitIsExact`, `CommandDeadlineHolds`. `TimeInv` says where
  the time has gone at each place of the handler and how far the wall clock is from
  the deadline; the conversions are exact by lemmas about quotient and remainder
  (`DivMod`, `DivUnique`, `DiffExact`, `MillisExact`, `DeadlineExact`).
* `TimeTypes`: the wall clock stays late enough for the settings that may still
  come (`ClockInv`).

**Buffers**, for buffers, lines and arguments of any length:

* `LinesPublishedWell`: the cursor is the number of bytes of the line modulo the
  size, and the places before it hold the last of them (`LineInv`).
* `AnswersInBounds`: what each stage has written of `protocol_buf`, and that a
  command from stdin is no longer than its buffer (`AnswerInv`).
* `CommandsKept`: the two passes over the arguments add up the same lengths. Their
  sum is a recursion, about which the prover cannot reason; `CommandInv` instead
  says that there *is* a function of partial sums (`Sums`) whose last value was
  allocated and whose value at `copied` is the size so far. An argument counted
  extends the function, an argument copied moves along it, and as it never exceeds
  its last value the copy stays inside.
* `BufferTypes`.

**DtermStream**, for streams of every length:

* `CursorStaysInBounds`, `StreamTypes`: the string keeps its terminator
  (`StreamInv`) and the scans stop there, for which the least position exists by
  the well-foundedness of the naturals.
* `LinesRunInOrder`, `EmptyRunsLast`, `FailureEndsStream`. The loop writes
  terminators into the string as it goes, so `PlaceInv` says that from the cursor on
  it is still the text as given, with the cursor at the start of a line or, with
  nothing left, behind the end. `ProgressInv` says that what has been run is exactly
  the commands that start before the cursor, a dropped JSON line being none;
  `NextLineFinds` shows that a step over whitespace
  passes no start, and that the marked length is that of the line. `RunInv` and
  `FailInv` carry the records of what was run (theorem `StreamProgress`).

Assumptions: only the named `ASSUME`s - naturals, positive timeouts, numbers of
tries and sends, backoff limit and units of time; and of the two JSON headers that
the shorter is at least two bytes shorter than the longer, which fits the buffer
(19, 21 and 1024 in the code).

Only model-checked: the liveness properties (`ReadReturns`, `ReadReleasesIo`,
`CloseCompletes`, both `Returns`, `Ends`, `EndsUnlessSignalLost`), since fairness
is out of reach of the prover; and the violations, which are traces.

## 5. Not modelled

* The argument parser and the JSON parser (libraries): only what the code relies
  on. Output formatting, `verbose`, `debug`, compile-time headers, unused helpers
  (`sub_hexwrite`, `sub_copy_stringarg`, `sub_intf_cmp`, `sub_mutex_timedlock` ...),
  subscribers.
* SIGPIPE ends the program where it is; nothing is promised then, and the model
  stops there.
* The exit code stays 0 when a command fails: `ottercat_main()` reports the failure
  on stderr only, and no text says otherwise.
* A session may go on behind its first good rxstat; only the daemon knows.
* An inline JSON command whose type is about as long as `protocol_buf` moves the
  cursor past the buffer (`dterm.c:220`). `AnswerInBounds` leaves this case out; the
  model has the bytes that are written there and the copy of negative length
  (`NoRoom`), but not what they overwrite.
* Releasing twice what forgives it (a closed descriptor, a null pointer) is
  modelled as harmless; unlocking an unlocked mutex in `sp_close()` and in the
  clean-up of `sp_open()` has no effect on Linux and is left out.

What would come next: action properties that bound what a step of the handler or
of the command loop may change, and their proofs from the invariants above.
