# A verification project for winpty-rs

winpty-rs gives Rust programs on Windows a pseudo-terminal through one of two
backends: ConPTY (the operating system's pseudoconsole) and WinPTY (a library
with an agent process). This directory holds TLA+ models of its concurrent
machinery, TLC configurations that check them on small instances, and proofs
that TLAPS checks for every value of the constants.

Paths such as `base.rs:378` are relative to `src/src/pty/`.

## 1. Inventory

| Part | State it keeps | Operations | Talks to |
| --- | --- | --- | --- |
| Reader thread (`base.rs` 462-596) | its process, the result in hand | receive a process, loop of peek / `ReadFile` / queue, clear the flag, set the event | `reader_process_rx`, `reader_out_tx`, `reader_alive_rx`, `reader_ready`, `reader_atomic`, `reader_exit_event`, the pipe |
| Watcher thread, asynchronous mode only (598-633) | the process it was sent | wait for the child, wait for the reader with a time limit, `CancelIoEx` and again, signal | reader (channel, event, pending read), `cleanup_tx` |
| `PTYProcess` owner: `new`, `set_process`, `drop` (430-646, 860-963) | `process`, handles, both join handles | hand a child to the reader; stop, cancel, join, close | both threads |
| `PTYProcess` callers: `read`, `is_eof`, `cancel_io` (648-676, 788-858) | none of their own | receive from the channel, test pipe, child, channel and flag, cancel | reader, child |
| Write path (`write`, 688-792; `cancel_io`, 896-907) | `write_mutex` with its boolean, `write_overlapped`, a count | chunked `WriteFile`, overlapped completion | the input pipe |
| Process status (`get_exitstatus`, `is_alive`, `wait_for_exit`, 315-371, 837-893) | `process`, `pid` | ask the kernel | the child |
| Text conversion (281-326) | none | bytes to text | |
| ConPTY backend (`conpty/pty_impl.rs`) | `handle`, `console_allocated`, the shared `(flag, handle)` under a mutex, pipe ends | `new`, `spawn`, `set_size`, `drop`, a detached cleanup thread | `PTYProcess`, the console host |
| WinPTY backend (`winpty/pty_impl.rs`) | the agent pointer, two pipes | `new`, `spawn`, `set_size`, `drop` | `PTYProcess`, the agent |
| Facade (`../pty.rs`) | the chosen backend | `new` with fall-back, `new_with_backend`, forwarding | both backends |
| Loaded calls, bindings, placeholders, build script, examples, tests | | | |

### How the parts interact

`PTYProcess::new` starts the reader, and in asynchronous mode (ConPTY) the
watcher. Neither does anything until `set_process` sends a process handle on
`reader_process`. The reader then forwards the handle to the watcher and reads
until its loop ends. It reports the end three times: it clears the atomic
`reader_atomic`, sets the event `reader_exit_event`, and ends, which closes its
channel ends and lets `join` return. Callers on any thread receive from
`reader_out`; `PTYProcess` is `Sync`, so several may be inside `read`, `is_eof` and
`cancel_io` at once, while `set_process` and `drop` have the struct to
themselves.

The watcher waits for the child; then it waits on the event, cancels the
reader's pending `ReadFile` whenever the wait times out (5 s first, 50 ms after),
and, when the event is set, signals the consumer. In ConPTY that consumer is a
detached thread which closes the pseudoconsole, unless `drop` has closed it: the
two share a flag and the handle under a mutex.

`drop` of `PTYProcess` queues empty messages until the reader says it has one,
sends a stop, cancels, waits 50 ms on the event and repeats; then it joins the
reader, closes the pipes, joins the watcher and closes the event.

### What makes it hard

* Three or more threads share flags, an event, four channels and a pending read;
  the end of the output is visible in five places that change one after another.
* `is_eof`, in the reader and in the struct, puts together a verdict from tests
  made at different moments.
* A cancel hits only a read that is pending at that moment: each cancel needs a
  retry and each retry needs an end.
* Both `drop`s must end whatever the threads are at, and a child that never exits
  must not block the one that joins the watcher.
* Writers on several threads share one pipe in pieces; an asynchronous piece is
  issued while the one before still waits in the kernel, and a cancel meant for a
  read takes it back.
* The pseudoconsole may be closed from two places, and a panic in `spawn` poisons
  the lock that guards it.

### What makes each part correct

* Reader: what it takes from the pipe is queued, in order, once; the end mark is
  the last thing queued; nothing is queued after an end was reported; it does not
  end before its child unless someone cancelled; uncancelled, it drains.
* Watcher: it never disturbs a reader whose child runs; a reader whose child has
  gone is always unstuck; the consumer hears of it only after the reader's end.
* Owner: `drop` always ends; it closes the output pipe after the reader and the exit
  event after both threads. (The watcher may still issue one late `CancelIoEx` on
  the pipe's closed handle: `PROJECT.json` lists that hazard.)
* Callers: a blocked `read` always returns; a positive `is_eof` means the child
  has gone and the pipe is empty.
* Writers: messages are not mixed, what reaches the pipe of one is its beginning,
  Ok means all of it, and every call returns.
* Status: once `is_alive` says that the present child has exited its code is known.
* Console: it is taken away by nobody but the PTY that allocated it, until one frees
  it twice, and a PTY that is over leaves no pseudoconsole or agent.
* ConPTY: the pseudoconsole is closed exactly once, not before the child has gone
  unless the struct is dropped, and the detached thread always ends.

The hazards behind these, each at its line, are listed in `PROJECT.json`.

## 2. Plan

The order is by how much of the library stands on the part.

| Step | Module | Content | State |
| --- | --- | --- | --- |
| 1 | `PTYProcess` | reader, watcher, callers, `set_process`, `drop`, in both modes | done, safety proved |
| 2 | `ConPTY` (extends 1) | the pseudoconsole shared by `drop`, `set_size` and the cleanup thread | done, safety proved |
| 3 | `PTYBackends` | constructors with every failure, fall-back, the console that PTYs share | done, proved |
| 4 | `OutputStream` | what a PTY promises of its output; `PTYProcess` shown to implement it | done, proved |
| 5 | `PTYCalls` | several writers under `write_mutex`, chunks, overlapped completion, the count; the questions about the child | done, safety proved |
|  | `InputStream` | what a PTY promises of its input; `PTYCalls` shown to implement it | done, proved |
| 6 | `PTYProcess` (`AgentFreed`) | `winpty_free` before the drop of the `PTYProcess`, as the field order has it | done, proved with 1 |
| 7 | `BuildConfig` | which backends `build.rs` compiles in, across interrupted builds | left |

Every safety property of every passing run, the two refinements among them, is
proved for all values of the constants; liveness is model-checked (section 6).

## 3. The modules and the code

A module of the name `MC...` holds the model values TLC needs and nothing else; a
`.cfg` gives the constants their values. `..._proofs` modules extend the module
they speak of. Definitions marked *Variant for the mutants* are bugs the code
could have had: a property is kept only if TLC finds one of them with it.

### `PTYProcess` (base.rs)

One program counter per thread; each kernel call, channel operation, atomic and
event is an action of its own, so that the other threads come in between.

| State | In the code |
| --- | --- |
| `rpc`, `rproc`, `rres`, `sawEmpty` | where the reader's closure is, its `process`, the result it is about to send, what `PeekNamedPipe` told it |
| `wpc`, `watchQ` | where the `alive_thread` closure is, the handle forwarded to it (the channel carries one in a lifetime) |
| `dpc`, `process`, `closed`, `panicked` | where `drop` is, `self.process`, the handles it has closed, the `unwrap` in `set_process` |
| `upc`, `uacc`, `ret` | each caller: the method it is in, the local `is_eof`'s tests combine into, the last result of any call |
| `procQ`, `stopSent`, `out` | the channels `reader_process`, `reader_alive`, `reader_out`; of stop messages only "one is there" matters, for the reader takes one and ends |
| `ready`, `atomic`, `exitEvent` | `reader_ready`, `reader_atomic`, `reader_exit_event` |
| `io`, `pipe`, `hostBuf`, `hostOpen`, `child`, `farEnd` | external: the `ReadFile` in flight, the pipe, the console host, the children |
| `struck`, `cancels`, `produced`, `taken` | history for the properties and bounds; nothing in the code |

`Async` selects the branch the code takes on `async_`. `is_eof(process, stream)` is
two actions, `SyncPeek` and `SyncAlive`, because the child lives on in between;
`PTYProcess::is_eof` is `EofPeek`, `EofAlive`, `EofQueue`, `EofAtomic`. `set_process` and the
drop take the struct exclusively (`Exclusive`), as the borrow checker makes them.
The fields of WinPTY's struct drop in their order, the agent first: `AgentFreed` closes
the host at some moment of a synchronous drop, with the child alive and output left
or not.
The loop of `drop` that queues empty messages is `DropNudge`, bounded by `MaxNudges`.

### `OutputStream` and the refinement

`OutputStream` is the abstract specification: units written by children pass through
`inFlight` to a queue and on to callers; marks may come between; after an end mark
or a stop nothing is put. It knows no thread, pipe, flag or cancel. `PTYProcess`
instantiates it as `Stream`: `written` is `produced`, `inFlight` the units in host,
pipe, completed read and hand (`InFlight`), `queue` the channel, `over` that the
reader is past its loop, `mayEnd` that the child it serves has exited or that a drop
has begun.
`ImplementsStream` is `Stream!Spec`.

### `PTYCalls` (base.rs: write, cancel_io, is_alive, wait_for_exit, get_exitstatus)

A module beside `PTYProcess`, for none of these calls touches the reader or the
watcher, and those touch of theirs only what `CancelIo` models. It takes `async_` as
a variable, so that one run covers both modes.

| State | In the code |
| --- | --- |
| `upc`, `msg`, `sent`, `total` | each caller: where it is, the message it writes, the chunks `WriteFile` has taken, `total_written` in chunks |
| `holder`, `write_pending` | `write_mutex` and the boolean in it |
| `stream`, `fetched`, `accepted` | external: all chunks `WriteFile` took, the first `fetched` read by the host, those up to `accepted` in the pipe, the rest waiting in the kernel |
| `process`, `pid`, `child`, `code`, `hostOpen` | the two fields, the children, the far end of the input pipe |
| `result`, `count`, `length`, `calls`, `cut`, `cancels` | history: what each write answered, what a cancel took, bounds |

A chunk is `BUFFER_SIZE` bytes; the pipe holds `Capacity` of them (128 KiB, that is
16). A synchronous `WriteFile` without room waits (`upc` is "wait") with the mutex
held; an overlapped one pends and the loop goes on. `GetOverlappedResult` is given a
fresh copy of `write_overlapped` each time, whose fields no write has filled, so it
answers at once and tells of nothing transferred (`OverlappedCount`).
Under ConPTY, where input and output are one handle, a cancel takes pended writes back.
A synchronous write fails when the host has gone (`WriteFails`); an asynchronous one may
fail at any chunk, in `GetOverlappedResult` or in `WriteFile`, and forgets the write that
was pending (`AsyncWriteFails`). `is_alive` and `get_exitstatus` change nothing: they are the
operators `IsAliveAnswer` and `ExitStatus`. `wait_for_exit` blocks, so it has two actions.

### `InputStream` and the refinement

`InputStream` is the abstract specification of the other direction: messages are
handed in, written one at a time, piece by piece, onto one line that the host
fetches from. A message that fails may lose pieces of its own that the host has not
fetched; a cancel may take unfetched pieces of any message, and then that message is
`cut`; nothing else takes a piece back, and "ok" is answered only when every piece
was put. It knows no mutex, no pipe capacity, no overlapped operation and no
callers. `PTYCalls` instantiates it as `Input`: `writing` is the message of the holder
of `write_mutex`, `put` what that writer has `sent`, `line` is `stream`, `answer` is read
off `calls`, `result` and who is still in `write`. `ImplementsInput` is `Input!Spec`.

### `ConPTY` (conpty/pty_impl.rs)

Extends `PTYProcess`: an inner step is an inner action with the outer variables
unchanged, but for the watcher's last one, which sends on `cleanup_tx` (`Inside`).
`cdpc` and `tpc` are the positions of the owner's `drop` and of the cleanup thread;
`flag` and `poisoned` are the shared record under its mutex, and each critical
section is one action; `closes` and `frees` count `ClosePseudoConsole` and
`FreeConsole`. `spawn` is atomic: it holds `&mut self` and the mutex from the
creation of the child to the message for the cleanup thread. `FarEnds = {TRUE}`
records that `ConPTY::new` keeps client handles of the output pipe open. `set_size`
and `spawn` take whatever handle is there: with the pseudoconsole closed `set_size` may
answer either, and a `spawn` may still start a child.

### `PTYBackends` (../pty.rs and the two `new` and `drop`)

Each constructor is the table of its calls (`ConSteps`, `WinSteps`), one action per
call, any of which may fail. A PTY on each thread: two constructors interleave call
by call.

| State | In the code |
| --- | --- |
| `stage`, `step`, `asked`, `goodSize`, `backend` | where each PTY is in its life, the next call of its constructor, the request and size it was given, `PTY.backend` |
| `allocated`, `poisoned` | `console_allocated`; the mutex around the pseudoconsole |
| `held` | what the PTY's code has opened and not closed |
| `console` | external: whose the console of the process is, "own" for the program's |
| `frees` | history: calls of `FreeConsole` for each PTY |

The program may allocate a console of its own whenever there is none
(`ProgramAllocsConsole`), at the start or after a PTY has freed one. What happens between
construction and drop is abstracted to the cleanup thread's one visible act
(`Cleanup`) and to a spawn that panics with the mutex locked (`SpawnPanics`): after that
the cleanup thread and the drop panic on the lock, and neither the pseudoconsole nor
the console is released.

## 4. The runs

| Run | Instance | Distinct states | What it shows |
| --- | --- | --- | --- |
| `sync` | synchronous; 2 callers, 1 child, 1 unit, 1 `cancel_io` | 163,351 | until a drop an end of file is only about a dead child (`EofMeansChildGone`); a true `is_eof` means pipe and host are empty (`EofVerdictMeansPipeEmpty`); no unit is lost or doubled (`NoUnitLost`); the end mark is last (`EndMarkIsLast`) and nothing is queued after the flag or the event (`NothingAfterExit`); all that callers see is a stream of units, marks and one end (`ImplementsStream`); nobody is left waiting for what will not come (`NobodyWaitsInVain`); a drop ends, whenever the agent goes in it (`DropEnds`); both blocked callers return, though one message ends both (`BlockedReadReturns`) |
| `async` | asynchronous; 1 caller, 2 children, 1 unit, pipe with and without a far end of our own | 149,406 | the pipe is closed after the reader and the event after both threads (`TeardownOrder`); without a cancel the reader drains (`UncancelledReaderDrains`); it is not stopped under a running child (`ReaderOutlivesChild`); the consumer hears of the end after the event (`CleanupAfterReader`); the watcher unsticks a reader whose child has gone (`WatcherUnsticksReader`); a drop ends and leaves nobody behind (`NobodyWaitsInVain`); callers see the same stream as in the other mode (`ImplementsStream`) |
| `conpty` | the struct around it; 2 spawns, 1 caller, 1 `cancel_io`, no output | 175,928 | one close of the pseudoconsole (`ClosedOnce`), none forgotten when the inner `PTYProcess` starts to drop (`NoConsoleLeak`), none early by the cleanup thread (`CleanupOnlyAfterExit`); the reader is not stopped under a running child until drop has closed the process handle (`ConReaderOutlivesChild`); a `set_size` before the served child's exit finds it open (`ConsoleOpenWhileServed`); drop and cleanup thread end (`ConDropEnds`, `CleanupThreadEnds`); the pseudoconsole is closed after the child's exit with no drop (`ClosedAfterExit`) |
| `backends` | 2 PTYs, all requests, both backends compiled in | 50,048 | an allocated console has an owner unless a failed `ConPTY::new` forgot it or a drop panicked (`ConsoleHasOwner`); agent and directory handle never stay behind, and the pseudoconsole only when a drop panicked (`PseudoconsoleAndAgentReleased`); until some PTY frees its console twice, nobody's console, the program's included, is taken by another (`ConsoleGoesWithItsOwner`); a PTY has the backend it was asked for (`BackTypeOK`) |
| `calls` | both modes; 2 callers, 2 messages of up to 2 chunks, room for 1, 1 `cancel_io`, 2 children, exit codes 0 and 259 | 461,168 | all that the host sees is the messages one by one, each whole unless it failed or was cancelled (`ImplementsInput`); messages are not mixed (`MessagesUnbroken`); what is in the pipe is the beginning of a message (`DeliveredIsPrefix`) and, after Ok, all of it (`AnsweredIsDelivered`), but for a cancel; a synchronous count is complete, also after a wait for room (`SyncCountsAll`); once `is_alive` says that the child has exited its code is known unless it is 259 (`StatusAfterExit`), also after a `set_process` that panicked; every call returns (`CallsReturn`) |

`TypeOK` is checked in `sync` and, as part of `ConTypeOK`, in `conpty`; `async` leaves it to
those and to `TypeCorrect` (section 6).

The remaining runs each check one sentence of the documentation, a comment or a
message that the code does not keep; TLC's counterexample is the finding.

| Run | The sentence | What happens |
| --- | --- | --- |
| `sync_eof_drained` | "Standard out reached EOF" (base.rs:668) | the child writes and exits between the reader's peek and its liveness test: the end is reported, its last output stays in the pipe and is never read |
| `sync_eof_all_read` | `is_eof` is true "if the process reached EOL" (base.rs:797) | the reader queues its last output and clears its flag between `is_eof`'s test of the channel and of the flag |
| `async_read_end` | `read` returns `Err` "If EOF is reached" (base.rs:659) | the channel is disconnected and `read` returns `Ok("")`; an asynchronous reader queues no end-of-file message at all |
| `async_second_spawn` | `spawn` returns "an error" (base.rs:104) | the reader ended with the first child: the second is started and then `set_process` panics on the closed channel |
| `conpty_eof_seen` | `is_eof` is true "if the process reached EOL" (base.rs:147) | `ConPTY::new` keeps client ends of the pipe, it never breaks, and `is_eof` stays false for ever |
| `calls_count` | `write` returns "The total number of characters written" (base.rs:686) | an overlapped chunk is never counted: under ConPTY every write that succeeds answers 0 |
| `backends_console_lost` | "Create a console window in case ConPTY is running in a GUI application" (conpty/pty_impl.rs:92) | the cleanup thread frees the console, another PTY allocates one, the first one's drop frees that |

### Bounds, and why they are enough

* **Callers.** A caller touches the channel, the pending read and its own verdict.
  Two are needed for one to take the message the other waits for, and for a verdict
  that is overtaken by a read. In asynchronous mode the races are between the
  threads; one caller is enough to block, to take a message, or (in `conpty`) to
  cancel.
* **Children.** The reader serves the first; a second one shows the hand-over to a
  reader that runs, is ending or has gone. A third repeats the second.
* **Units.** The machinery looks at a unit only to tell "something" from "nothing";
  one unit reaches each of host, pipe, completed read, hand, channel and caller,
  before and after each other event. `conpty` has none: its properties speak of
  the ends of threads, which a unit only delays.
* **`MaxNudges` = 1.** The reader receives from `reader_process` once; what is queued
  behind is never looked at.
* **`MaxCancels` = 1** in `sync` and `conpty`: the synchronous reader goes on after a
  cancel and is again where it was; the asynchronous one ends with the first. In
  `async` it is 0, for its cancels are those of the watcher and of drop.
* **`calls`.** Two writers are needed to mix messages, two chunks to cut one, room for
  one to make the second wait in both modes; the cancel can come with a chunk in
  the pipe and one behind it. Two children are needed for a stale identifier.
* **PTYs.** The console has one owner at a time; two PTYs are enough for one to lose
  it to the other.

The proofs of section 6 show, for the properties they cover, that the bounds do not
matter.

### Deadlock

In `calls` deadlock is checked, which says little: an idle caller can always wait for
the child, and is answered; that nobody is stuck is `CallsReturn`. In the other runs it is not
checked (`CHECK_DEADLOCK FALSE`): the program may stop. Its owner
may never drop, a child may run for ever, and a `read(true)` before any `spawn`
waits until a `spawn` that nobody need make; after a drop nothing is left to do.
That no thread waits for ever when it should not is the subject of `DropEnds`,
`BlockedReadReturns`, `WatcherUnsticksReader`, `ConDropEnds` and `CleanupThreadEnds`.

## 5. Fairness

Weak fairness, stated per thread, and only what the platform gives:

* reader, watcher, cleanup thread and a `drop` that has begun keep running; a timed
  wait elapses (`WatcherTimeout`, the second branch of `DropWait`);
* a call that has begun goes on once what it waits for is there (`UserReturns`); no
  one is made to call;
* the host forwards what it holds and closes its end after its last client;
* children exit when the pseudoconsole is closed. In `ConPTY` that is
  `ClosedConsoleEndsChildren`. In `PTYProcess` alone it is `DropEndsChildren`: the only
  consumer of the asynchronous mode closes the pseudoconsole before it drops the
  `PTYProcess`. In synchronous mode nothing ends a child, and drop ends all the same.

* in `PTYCalls`, a call that has begun goes on and one of those that wait for the mutex
  gets it (there are finitely many calls, so no writer is passed over for ever);
  winpty's agent reads its input as long as it runs. Of ConPTY's host nothing is
  asked: an asynchronous write returns without it.

Nothing makes a child write or exit otherwise, and the liveness properties are
stated from its exit on. `PTYBackends` has no liveness and no fairness.

## 6. The proofs

All theorems hold for every value of the constants that the named assumptions
admit: `ConstantsAssumption` (any set of callers, any number of children, units and
cancels, both modes, pipes that can and cannot break, an event that was or was not
created), `BackendsAssumption` (any set of PTYs, any requests, any choice of
compiled backends) and `CallsAssumption` (any callers, messages of any length, a
pipe of any capacity, any exit codes).

* **`PTYProcess_proofs`.** `TypeCorrect`: `TypeOK` is not inductive, for the reader
  queues what it holds; with "what is about to be queued is an item" it is
  (`TypeInv`). `TeardownIsOrdered` and `CleanupFollowsReader` rest on `ShutdownInv`, four
  groups of facts: what the cleared flag and the event say of the reader
  (`ReportInv`), what drop's position says of both threads (`JoinInv`), what the
  closed handles say of drop's position (`ClosedInv`), and how the watcher follows
  the reader (`WatchInv`). Neither property is inductive: that a handle is closed
  says nothing of a thread without the join in between. `ReportedEndIsFinal`, an
  action property, needs `ReportInv`: whoever has reported is past its last send.
  `NobodyWaits` rests on `HeardInv`: a reader that is ready has received its handle, and
  drop leaves its loop only when the reader is ready.
* **`PTYOutput_proofs`.** `HostInv`: but for a synchronous drop, in which the agent is
  freed, the host has closed only when it holds nothing and no child runs; hence a
  broken pipe is drained, and stays so (`Drained`, which includes that nothing holds
  the far end; `DrainedStays`).
  `VerdictInv` carries that through `is_eof`: whatever races with its four tests, a
  verdict that is still true in the making has seen a broken pipe
  (`TrueVerdictMeansEmptyPipe`). `DrainInv`: without a cancel only a broken pipe ends an
  asynchronous read without data (`UncancelledDrains`). `ServeInv` and `EofInv`: handles
  on their way are those of started children, and an end of file, in the hand, in
  the channel or returned before a drop, is about a dead one (`EofOnlyAfterExit`).
  `NothingFollowsTheEnd` is inductive with the types. `LiveInv` and `SpareInv`: until a
  drop begins, the watcher watches the reader's child and is past its wait only
  when that is dead, so its cancel cannot hit a reader whose child runs
  (`ReaderOutlives`); this is the one that needs all the others (`AllInv`).
* **`PTYBackends_proofs`.** `Inductive` proves `IInv`: the types with the tables' lengths,
  who remembers an allocation (`LifeInv`), where an allocated console comes from
  (`ConsoleInv`), that a PTY which remembers one and has not freed it is the one that
  has it, as long as none has freed twice (`OwnInv`), and what each stage of a PTY's
  life cannot hold (`HeldInv`). The four properties of the run follow from it;
  `ConsoleIsNotTaken` is an action property: only `Cleanup` and `ConDrop` end a console, and
  with `OwnInv` the PTY that does has it.

* **`PTYStream_proofs`.** `UnitsAreConserved`: with the types, "what is held, queued and
  taken adds up to what was written" is inductive; the work is in how the number of
  units in the channel changes with a send and a receive, for which lemmas about
  finite sets of positions are proved first. `StreamImplemented`: each action of
  `PTYProcess` maps to one step of `OutputStream` or to a stutter; the invariants of
  `PTYOutput_proofs` give the guards of the abstract steps (nothing is put once it is
  over; "eof" only when the child has gone).
* **`ConPTY_proofs`.** The invariants of `PTYProcess` are carried over to the composition
  (a step of the struct is a step of `PTYProcess`, or leaves it alone). On top: the
  flag and the number of closes agree with the positions of drop and cleanup thread;
  a `true` on `cleanup_tx` before drop's `false` means that the served child has exited
  and the reader has set its event. From these follow `ConsoleClosedOnce`,
  `CleanupWaitsForExit` and `ConsoleStaysOpen`. None is inductive: whether a close is
  early depends on what the channel still holds.
* **`ConPTYStream_proofs`.** What is proved of `PTYProcess` holds inside the struct. `InnerStep`:
  every step of `ConPTY` is a step of `PTYProcess`, leaves it alone, or is one of two it
  does not have, drop closing the child's handle before the inner drop and a `set_size`;
  `SideFrame` says what those two keep.
  With that the invariants of `PTYOutput_proofs`, the conservation of units and the
  refinement (`ConPTYStreamImplemented`) carry over, and the ordering theorems with
  them. One does not: once the handle is closed the watcher's wait fails and it may
  cancel a reader whose child runs. Two others would be empty here, because the
  client handles keep the pipe whole, and what holds in their place is proved: a
  reader that served a child leaves its loop only when a cancel hit it
  (`ConPTYReaderNeedsCancel`), and `is_eof` never answers true (`ConPTYIsEofNeverTrue`, which
  `conpty_eof_seen` shows in one behaviour). `EarlyInv` has `LiveInv` and `SpareInv` up to that
  close, which gives `ConPTYReaderOutlives`; it also has the inner drop start after the
  critical section of the outer one, which gives `ConsoleIsClosed`.
* **`PTYCalls_proofs`.** `WriterInv` says where each writer is in its message and that no
  two have the same; with the types it is inductive (`CallsInv`). Every step takes a
  chunk of the holder (`Takes`) or keeps the stream or a beginning of it (`Keeps`);
  most other proofs speak of these two only. `QueueInv`, that the holder's message is
  the last in the stream, gives `MessagesStayWhole`. `LineInv`, that what a
  synchronous writer waits for is its own, and `SentInv`, that what was sent is there
  unless cut, give `WritesAreWholeOrCut` and `OkIsDelivered`: without `LineInv` a failing
  write might drop another's chunk. `SyncWriteCounts` needs only `WriterInv`;
  `StatusIsKnown` rests on `FieldsInv`, that the identifier is null exactly when the
  handle is, which a panic in `set_process` does not break because the reader does not
  end before a first child.
* **`PTYInput_proofs`.** `InputImplemented`, action by action: `WriteStart` is `HandIn`,
  `WriteLock` is `Begin`, `SyncWriteFile` and `AsyncWriteFile` are `Put`, `WriteFails` and
  `AsyncWriteFails` are `Fail`,
  `WriteReturns` is `Finish`, `HostRead` is `Fetch`, an asynchronous `CancelIo` is `Cancel`; all
  others stutter. `HolderWrites` (from `MutexHeld`) names the message being written;
  `Fail` needs `LineInv`, that the pieces a failing write takes back are its own, and
  `CutIsBehind`, that the host had read none of them.

Only model-checked: the liveness properties (`DropEnds`, `BlockedReadReturns`,
`WatcherUnsticksReader`, `ConDropEnds`, `CleanupThreadEnds`, `ClosedAfterExit`,
`CallsReturn`), because fairness is outside the
provers' reach. `NobodyWaitsInVain` is the safety half of the first three, and that
half is proved.

## 7. What is not modelled, and why

* Bytes: a unit of output is what one `ReadFile` returns, a chunk of input what one
  `WriteFile` takes. The conversion of a UTF-8 sequence cut by the buffer, the dropped
  NULs and the `u32` of the count are properties of bytes.
* The `OVERLAPPED` and the chunk that a pending write leaves behind are temporaries; what
  the kernel makes of their memory is undefined, and the model lets the chunk stand.
  A conhost that goes while a ConPTY writes is not seen by the writer, whose pipe
  stays open.
* Sizes cut from `i32` to `i16`: `CreatePseudoConsole` refuses those that are not positive,
  which `PTYBackends` has among its failing calls.
* WinPTY's `set_size`, which only forwards to the winpty library, and what the library
  does inside `winpty_free`: `AgentFreed` is its one effect, the closed far end.
* A program that calls `FreeConsole` itself: a console that it frees under a PTY is of its
  own doing. That it allocates one is modelled.
* What the system does with a freed pseudoconsole handle, which `set_size` and `spawn`
  may still pass after the clean-up.
* pty.rs:320 says of `cancel_io` "Cancel all pending reading I/O operations"; under ConPTY it
  takes back writes as well. `DeliveredIsPrefix` and `AnsweredIsDelivered` are stated up to
  that (`cut`).
* `read(blocking = false)` of base.rs:173-222, the free function: every caller passes
  `true`. The `GetFileSizeEx` branch likewise.
* A failing `CreateEvent` for the overlapped read, and `EventCreated = FALSE` in the
  runs: the constant is there and the proofs cover it, liveness does not hold of it.
* `CreateProcess` and the attribute list failing in `spawn`: an error is returned and
  no state the models keep has changed. `DeleteProcThreadAttributeList` in `drop`, on a
  buffer that was a local of `spawn`: its effect is outside the models.
* A `ClosePseudoConsole` that blocks until its output is read, as older Windows
  versions do: the library reads on another thread, but how long the call blocks
  depends on the system.
* Reuse of a closed handle value by the kernel: a late `CancelIoEx` does nothing here.
* Standard handles: set by `ConPTY::new`, read by nothing in the library.
* Foreign-function declarations (`bindings.rs`, `calls.rs`, `win_bindings.rs`) and the
  placeholders' methods other than `new`: no state.
* The build script: it runs before the program and leaves it the set of compiled
  backends, the constant `Features`. Examples and tests: clients, read for how the
  library is used.

## 8. Running the checks

```
tlc -workers 2 -config sync.cfg MCPTYProcess
tlc -workers 2 -config async.cfg MCPTYProcess
tlc -workers 2 -config conpty.cfg MCConPTY
tlc -workers 2 -config backends.cfg MCPTYBackends
tlc -workers 2 -config calls.cfg MCPTYCalls
tlapm PTYProcess_proofs.tla
tlapm PTYOutput_proofs.tla
tlapm PTYBackends_proofs.tla
tlapm PTYStream_proofs.tla
tlapm ConPTY_proofs.tla
tlapm ConPTYStream_proofs.tla
tlapm PTYCalls_proofs.tla
tlapm PTYInput_proofs.tla
```
