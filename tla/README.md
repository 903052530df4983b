# gomonty, verified: TLA+ models, model checking and proofs

gomonty runs sandboxed Monty programs (a Python subset) from Go. The Go API
owns native values that a Rust library allocates, hands an interpreter back and
forth between Go and Rust at every pause of a program, and answers the calls
the program makes to its host. This directory models that protocol in TLA+,
checks it with TLC on small instances, and proves its main safety properties
with TLAPS for instances of any size.

To run everything: `tlc -config <run>.cfg <module>` for each run of the table
below, and `tlapm <module>` for each module whose name ends in `Proofs`.

## 1. Inventory

| component | source | state | operations | status |
|---|---|---|---|---|
| Handle ownership | `src/runner.go` | a mutex and a native handle per Runner, Repl and Snapshot; `inFlight` of a Repl; `owner` of a Snapshot | New, Load*, NewRepl, Dump, TypeCheck, Start, feedStart, Resume*, restoreOwner, restore, clear, consumeOpResult | modelled (`Handles`) |
| Rust FFI | `src/crates/monty-go-ffi/src/lib.rs` | boxes `MontyGoRunner`, `MontyGoRepl{inner: Option}`, `MontyGoProgress{inner: Option}` | start, feed, resume_*, take_repl, dump, load, free; every entry point catches panics | who has the interpreter after each call (`Handles`) |
| Go FFI wrappers | `src/internal/ffi/ffi.go` | a pointer per wrapper, a finalizer | constructors, idempotent Close, one wrapper per symbol | Allocate and Free of `Handles` |
| Library loader | `src/internal/ffi/ffi.go` 125-250 | a `sync.Once`; files in a cache directory shared by processes | ensureLoaded, extractEmbeddedLibrary, loadLibrary, register | modelled (`LibraryCache`) |
| Host callback loop | `src/dispatch.go` | the current progress, the waiters map, the channel of a wait | dispatchLoop, dispatchSnapshot, dispatchNameLookup, waitForFutureResults | modelled (`Dispatch`) |
| Telemetry core | `src/telemetry.go` | spans in the context | start/end of execution, callback and wait spans; safeTelemetryCall | when spans begin and end (`Dispatch`) |
| Wire codec | `src/wire.go`, `wire.rs` | none | encode and decode of values, options and results | values (`Codec`); that it can fail (`Handles`) |
| Values and errors | `src/types.go`, `src/errors.go` | none | constructors, conversions, formatting | kinds and fields of values, stat results (`Codec`, `OSHandler`) |
| MemoryFS, vfs handler | `src/vfs/vfs.go` | a map from path to entry | Add*, Read, Write, Mkdir, Unlink, Rmdir, Iterdir, Rename, Resolve, Stat; Handler; `Path.scan` | the tree (`MemoryFS`), calls of programs (`OSHandler`), scans (`PathScan`) |
| shmonty | `src/cmd/shmonty/main.go` | input line, history, transcript, a Repl, telemetry log, scroll position | Update and View, navigateHistory, completePath, appendLogLines, rewind, executeFile | modelled but for texts (`Shell`, `LogPane`) |
| OpenTelemetry adapter | `src/otelmonty` | none | one call per span or attribute | not modelled: no state |
| Monty VM | upstream, not in this repository | | | its answers are a choice, within what `lib.rs` returns |

### How they interact

A caller's goroutine takes a handle out of a Go state under its mutex, calls
Rust without it, and puts what comes back into the owner (a blocking `Lock`) or
into a new Snapshot. `TryLock` guards every entry point, so a second goroutine
gets `ErrConcurrentUse` instead of waiting. `Runner.Run` and `Repl.FeedRun`
run that protocol in a loop (dispatch.go) that calls the host's functions, and
start one goroutine per promised answer when the program waits for some.
Cancellation arrives through the context at any moment; finalizers free what
the caller forgets. The vfs handler is one of the hosts: its arguments and
answers cross the wire codec twice. shmonty is a caller of one goroutine, which
runs programs inside the update of its state. Every process goes through the
library loader first, and meets other processes only in its cache directory.

### What is hard here

* Ownership across a foreign boundary: a handle that is used after its
  release, freed twice or shared is memory corruption, and no Go test sees it.
* Goroutines that feed, resume, dump and abandon one REPL at once. Each step is
  cut at a mutex or an FFI call; tests run one or two orders of them.
* Errors half way: panics in Rust, payloads that do not decode, callbacks that
  panic, Snapshots nobody resumes.
* Promised answers: outcomes that come late, answers that are promises again,
  waiters that return only because the context ended.
* Values that cross by four tables, in two languages, that nothing but tests of
  single values holds together; fields left out because they are zero.
* Processes that extract one library at once, are killed half way, or find what
  a stopped machine left.
* A terminal program whose cursors, offsets and heights are all derived from
  one another, while its input is edited, its files change and its window does.

The list, with lines, is `hazards` in PROJECT.json.

What makes each component correct:

* Handles: no native value is shared, lost, freed twice or used after its
  release; a Repl has one execution at a time; it keeps its session through
  everything that is not the loss of the session in Rust; a call returns.
* Host callback loop: each call of the program is answered once, by its host;
  the session comes back however the loop ends; cancellation ends it; an answer
  the host gave arrives; spans end.
* MemoryFS: the flat map is a tree; every method is what it would be on a real
  tree of directories; a scan sees what stays in place.
* vfs handler: exceptions are true of the files, answers agree with each other
  and with what was changed, and none is refused but a default of os.getenv
  that is no input.
* Wire codec: what crosses and comes back is what it was.
* Library loader: whatever processes race and crash, what is loaded is the
  embedded library; nothing good is spoilt; the cache heals.
* shmonty: the Repl has run the history and nothing else; the transcript shows
  its answers; drafts and completions are not lost; the pane shows lines while
  there are some and stands still under new ones; the frame fits.

## 2. The modules

| module | what it is |
|---|---|
| `Handles` | goroutines, Go states with their mutexes, native values, Rust's answers and rare failures |
| `ReplContract` | what a Repl promises: a session that is ready, running, paused or gone |
| `MCHandles` | fault sets and symmetry for TLC |
| `HandlesProofs` | proofs about Handles |
| `ContractProofs` | what Handles means for the caller of a Repl, and that it implements ReplContract |
| `Dispatch` | dispatchLoop, the goroutines of a wait, the host, the canceler, telemetry spans |
| `HostCalls` | what Run and FeedRun promise about host calls |
| `DispatchProofs` | proofs about Dispatch |
| `MemoryFS` | the map of paths and each method that changes it |
| `FileTree` | a tree of nodes with a parent and a name |
| `MemoryFSProofs` | proofs about MemoryFS, and that it implements FileTree |
| `Codec` | the messages that values travel in, and the four tables of the two sides |
| `OSHandler`, `MCOSHandler` | the os and pathlib calls of a program on a MemoryFS, through the Codec; the values TLC sends |
| `OSHandlerProofs` | proofs about Codec and OSHandler |
| `PathScan`, `MCPathScan` | Path.scan over a MemoryFS that others change; symmetry for TLC |
| `PathScanProofs` | proofs about PathScan |
| `LibraryCache` | processes that extract and load the embedded library |
| `LibraryCacheProofs` | proofs about LibraryCache |
| `LogPane` | shmonty's window on the telemetry log |
| `Shell`, `MCShell` | the rest of shmonty, with a LogPane; the keys, files and terminals TLC tries |
| `ShellProofs` | proofs about Shell and LogPane |

### Handles

`holds` is the handle field of every Go state (`runnerState`, `replState`,
`progressState`) and, for a goroutine, the handle it has taken out of one.
`mu` is who holds each mutex; `inFlight` and `owner` are the fields of these
names; `live` is what Rust has allocated. A goroutine's `pc` says between which
two steps of `runner.go` it is, and a step is what happens between two mutex
operations or FFI calls: `Call` is TryLock, `Take` is takeForExecution or take,
`Execute` and `ExecuteFails` are the FFI call with every outcome `lib.rs` has
for it, `Publish` and `Consume` are consumeOpResult, `PutLock`, `Swap` and
`CloseOld` are restore and clear. Feed, resume and cancelled resume go through
these same steps; Dump, TypeCheck and Start borrow the handle instead
(`Borrow`, `EndDump`, `EndStart`).

Rust moves an interpreter between boxes; a box that is empty is not modelled,
since nothing can be done with it. Three kinds of Snapshot (function or OS
call, name lookup, futures) are one kind of object, as `runner.go` treats their
handles alike. `Faults` lists the rare failures, so that a run says which of
them its property survives.

### Dispatch

One run of the loop, from its first pause to its return. `pc` is the place in
`dispatch.go`, `at` is the progress in hand, `waiters` the map of that name,
`waiting` and `outcomes` the goroutines and the channel of the present wait.
`future` is Rust's record of each call: it is what the program has been given.
Goroutines that a finished wait leaves behind write to a channel nobody reads;
they are not modelled further. The host answers a waiter at any moment with a
value, an exception, a new promise, `Pending(nil)`, or something that Rust cannot
decode (`"bad"`: an exception type that the interpreter does not have). `said` is a
history variable: what was said of each call. A waiter that returns
because of the context has no answer of the host (`"void"`), and that outcome
may be in the channel when the loop looks. A telemetry handler may panic.

A resume ends in one of three ways: `Execute` stops at the next pause, `Raise` is
an error of the program, which comes with the REPL, and `Fail` an error without it:
Rust refused an answer, or panicked, or answered no progress. consumeOpResult then
clears the owner, and the loop returns without the session.

Of the Repl there is only `home`: whether its session is away, back, or lost. How it is taken and restored under
concurrency is the business of `Handles`; the loop is one of its goroutines and
the two modules meet in the operations resume and restoreOwner.

`HostCalls` has no loop, no waits and no channel: a host speaks (`said`), and a
program may next have of a call what was said of that call (`Later`). An answer
that is swapped with another call's, invented, given twice, or given after the
session is back or lost is no step of it.

### MemoryFS, FileTree, PathScan

A path is the sequence of its names, `normalizePath` of a string. An entry has
its kind and `node`, which tells one `*entry` object from another: a write makes
a new object, a rename carries the object to its new path. Every method holds
the mutex throughout, so it is one action; `Path.scan` does not, and in
`PathScan` each IsDir, IsFile, IsSymlink and Iterdir is an action, with the
`Change` of `MemoryFS` in between.

`MemoryFS` refines `FileTree` under the mapping `tree`: a node's parent is the
object at its parent path. There a rename changes one node, whatever is below
it, which is what the loop over string prefixes in `Rename` must achieve.

The code lets a caller break the tree in four ways. `Careless` lists them, and
the runs and theorems have `Careless = {}`:

* `"root"`: `Rename("/", x)` moves the entry of "/" alone and leaves no "/";
  `AddText("/", ...)` makes "/" a file.
* `"inside"`: a rename of a directory into itself leaves a subtree under a path
  that is gone.
* `"under"`: Add* or `Mkdir` with parents below a file: ensureParents stops at
  the first ancestor that exists, whatever it is.
* `"over"`: Add* at the path of a directory leaves its children below a file.

No comment, document or test says what should happen then.

### Codec and OSHandler

A value is a kind, its plain fields and its children; a message is the same with
a number for the kind and only the fields that are not zero. Both are kept flat:
a value is a function from addresses to nodes, where the address of a node is the
fields and positions that lead to it from the root, so that a value of any depth
is one function. The code encodes and decodes a value by recursion into its
children, and does the same at every node whatever is above or below it; so
encoding and decoding are given for one node (`EncodeNode`, `DecodeNode`), and a value
crosses with all its nodes. `Copying` is what crosses: a child in a field that a row does not
copy is dropped with all that is inside it. `GoOut`, `GoIn`,
`RustOut` and `RustIn` are the switches of `wireValueFromPublic`, `toPublic`,
`from_object_ref` and `into_monty`, one row per kind: which field of the message
is copied from or to which field of the value. They are transcribed one by one,
although they agree. A plain field holds a token; the tokens are those that
matter to the codec: zero, -0.0, nil, and some other value.

`OSHandler` takes the actions of `MemoryFS` and adds what a program sees. A call
goes out by `RustOut` and in by `GoIn`; `Errors` lists what each method looks for,
in its order; `MapError` makes an exception of the first; `Found` is the answer
otherwise, and `Effect` the change, an action of `MemoryFS`. The answer goes
back by `GoOut` and `RustIn`, or is refused (`Delivered`): an exception when its type is not one
the interpreter has (`ExcTypes` are those of this code that it has), a value when
`RustIn` does not read its kind or, further on, the interpreter does not admit it
(`Admits`: an instance of a class that a program defined, `types.go:149-153`). Each method holds the mutex, so a
call is one step, but between two calls of a program others change the files
(`ChangeByOthers`). What an entry object holds never changes, so that contents
and targets are constants, functions of the object. `Path.scan` is not repeated
here. `pathArg`, `stringArg` and `bytesArg` never answer an error in the model: the
interpreter checks the arguments of its own functions.

### LibraryCache

One process is one sequence of calls of the operating system: `MakeDir`, `Check`,
`Create`, `Write`, `Close`, `Chmod`, `Move`, `Reread`, `Load`, `Register`, each an
action that may also fail. So may the os.Remove in each error path, and nobody hears
of it (`Discard`); `left` is a ghost, the files that nobody will remove. sync.Once lets one goroutine of a process through and
keeps its answer, failed or not. `End` kills a process anywhere, `Stop` stops the
machine and may leave a moved file short (nothing is synced), `Wipe` clears the
cache. A content is absent, short or whole: the directory is named after the
digest, so there is one library to a directory.

### LogPane and Shell

`LogPane` counts the lines of the log; what is stored is the last of them, and
the scroll offset is taken from the newest, as in `appendLogLines`. `Shell` has
one action per message of `Update`. An input is its parsed text; a script has the
content of the disk when it is run. `session` is what the present Repl was fed,
`entries` what the screen shows of it, `draft` a history variable: what Up took
from the fresh line. A command that runs a program is one step: Update runs it
to its end before it returns, and takes the next key only then. `RowsOf` and `Rows`
are the rows that renderLogPane takes from each line, the last of which it cuts;
`BlockRows` adds the rows it pads with. `resized` is a ghost: the terminal has
changed its size since the position was last clamped.

## 3. The runs

| run | question | states |
|---|---|---|
| `handles_safety` | three goroutines, one Repl, all rare failures: one execution at a time, truthful ErrClosed from feeds, the contract | 101231 up to symmetry |
| `handles_healthy` | two goroutines, no rare failure: is the session ever lost, does every call return | 167805 |
| `handles_loaded` | sessions from bytes and a Runner too, all rare failures: memory safety | 58270 up to symmetry |
| `handles_closed`, `handles_reloaded`, `handles_rejected`, `dispatch_closed` | the findings below: TLC finds the violation | |
| `dispatch` | the callback loop, its promise about host calls, cancellation and the arrival of answers | 20560 |
| `memoryfs` | the tree and its refinement; every call of a program, both codecs | 103667 up to symmetry |
| `pathscan` | scans amid changes | 323100 up to symmetry |
| `shell` | any keys in any order | 1022802 |
| `library` | processes, failing calls, kills, stops and wipes on one cache | 30497 |

Bounds, and why they are enough:

* Handles: three goroutines are the least for one to execute, one to come too
  early and one to read a flag late; two Snapshots let a resume publish one
  while another is spent but still in a goroutine's hands; natives may be
  reused once freed, so a stale reference would show as sharing. `Reserve`
  keeps ownerless runs from using up Progs, so that a goroutine with a paused
  program always finds a Snapshot to publish: in Go that object is allocated.
  It bounds `LoadSnapshot` and `EndStart` and nothing else.
* Dispatch: two calls are the least for one outcome to come first and another
  late. The safety properties and the refinement were also
  checked once with three (633295 states).
* MemoryFS: three levels let a rename move a directory with a directory in it;
  two names let it collide or not. `Depth` bounds every action that makes a
  path.
* PathScan: two changes between any questions are enough to take a directory
  away and put something else in its place; `MaxChanges` bounds only
  `Disturb` during a scan. Depth 2 and four entries give a scan of two levels.
  `Limits` has the two values of max_depth that differ there.
* OSHandler: calls are made of trees of up to three entries (`ServedSize`), with
  paths of up to two names (`ServedDepth`) and the empty string: enough for a
  path with a parent that is missing, a file, a link or a directory, a rename
  onto something, and links that lead to each other. One object holds bytes
  that are no UTF-8, one nothing at all. The defaults of os.getenv are values of
  every kind with every choice of zero, -0.0 and nil in its fields, and up to
  two values inside, one of them nested once more. `Handler(nil, nil)` is tried
  as well.
* LibraryCache: two processes race; three faults let one be killed, its
  successor fail, and the machine stop in between. `MaxTemps` is above what
  three faults can leave. A move that answers ErrExist is tried only of a whole
  copy (`Existing`): the code takes such a target without a look at it. Go's
  os.Rename replaces a file on every platform; on Unix it answers ErrExist when the
  target is a directory, and loading that fails.
* Shell: two inputs and three of history, a script that changes on the disk,
  one notice; a log of four lines of which seven arrive, so that lines are
  trimmed; terminals of which one is too low for the pane, and lines of two rows in
  panes of odd and even heights, so that the last line of a page is cut or not.
  Without OpenTelemetry the pane and the entries are tried, with it editing and
  completion, since each leaves the other alone.

### Fairness

* `CallsReturn`: weak fairness of each goroutine's own steps; strong fairness of
  `PutLock`, because a goroutine blocked in `sync.Mutex.Lock` for a millisecond
  puts the mutex into starvation mode, in which TryLock fails and the mutex is
  handed over. Rust is assumed to return from every call.
* `CancelReturns`, `AnswersArrive`: weak fairness of the loop (with Rust and the
  host's handlers, which are assumed to return). A waiter whose host has
  answered returns under strong fairness of `WaiterReturns`: each wait starts
  its goroutines anew and may be over before a given one has run, so weak
  fairness would promise nothing about it; but the goroutines of a wait start
  in the random order of a Go map, and the scheduler starves none of them for
  ever. The host is not assumed to answer at all, nor the context to end.
* `Heals`: weak fairness of each process's own steps: a process that nobody kills
  goes on, and the calls of the operating system return. No process has to
  begin. When the faults are used up, which is the property's premise, a
  process that begins gets the library.

### What TLC found in the code

Each is a run that must fail, and an entry in `findings`:

1. `handles_closed`: `replState.borrow` reads `inFlight` after it has unlocked,
   so `Dump` can answer ErrClosed for a Repl that is alive. Feeds cannot
   (`FeedClosedIsTruthful`).
2. `handles_reloaded`: a Repl from LoadReplSnapshot can be fed while the loaded
   snippet is paused; the end of that snippet clears the flag and overwrites
   the handle. Memory stays safe (`SoleOwner` holds in `handles_loaded`), but a
   session is closed and two executions share one Repl.
3. `handles_rejected`: resuming with an exception type Rust does not know costs
   the REPL its session. `Dispatch` has the same loss (`Fail`), and
   SessionComesBack says that a run ends without its session in no other way.
4. `dispatch_closed`: an error that a name lookup ends with is joined with
   ErrClosed, though the Repl is alive.

Two comments of shmonty promise more than the code does. No run is kept for
them; the properties are stated so that they allow what happens:

* When NewRepl fails, a rewind has moved the history cursor and forgotten the
  pending line, although the comment at `main.go:562-566` says "Leave the session
  untouched". SessionIsHistory is of the history and the Repl, which are as before.
* A resize does not clamp the scroll position, so that the next telemetry lines
  move a pane that was scrolled back, although the comment at `main.go:411-415`
  says that it "keeps showing the same lines". ViewStable exempts just that
  (`resized`); without the exemption TLC finds a PgUp, a resize that makes the pane
  higher, and a line.

Noticed on the way, and no document promises otherwise:

* A float of -0.0 comes back as 0.0, since both sides leave out what equals zero
  (`wire.go:76`, `wire.rs:83`); the parts of a complex number are pointers to
  avoid just that (`wire.go:110`). `DefaultComesBack` says it is the only loss.
* `os.getenv(key, default)` ends the run when the default holds a type, a file
  handle or another output-only value, or an instance of a class that the program
  defined: the handler returns it, and Rust or the interpreter refuses it
  (`AnswersAreAccepted` says exactly when). When it is Rust that refuses, the session is
  lost (finding 3).
* Rmdir of a directory that is not empty is a FileExistsError, because
  `errors.Is(syscall.ENOTEMPTY, fs.ErrExist)` is true and `mapError` asks that
  first (`ErrorsAreTruthful` allows it).
* read_text and read_bytes of a link answer an empty text: no method but
  Resolve follows links.
* sync.Once keeps a failure of the loader, even a passing one, for the life of
  the process; a target that is a directory is never replaced.
* In shmonty, Down on a line that is not recalled from the history drops what
  was typed.

## 4. The proofs

All are for any number of goroutines, objects, natives, calls, names, levels,
processes, faults, inputs and lines.

* `HandlesProofs`: `TypeCorrect`, `SoleOwnership` and `BorrowingIsSafe` for
  `LoadSpec`, the specification with every operation and whatever faults are
  allowed. SoleOwner is not inductive alone: a step frees or moves what the
  goroutine has, so the invariant also says at which places of its program a
  goroutine holds something, that who borrows has the mutex, and that a Snapshot a
  goroutine may overwrite is empty. `SingleExecution` is for `Spec` only, since
  LoadReplSnapshot breaks it (finding 2): the same invariant with OneExecution
  is inductive for the other operations. It follows that without
  LoadReplSnapshot restore never finds an old handle to close.
* `ContractProofs`: `SessionsSurvive` for `LoadSpec`, and `FeedsTellTheTruth` and
  `ContractImplemented` for `Spec`, on top of the invariant above. FeedsTellTheTruth needs
  `Undecided`: who is still inside a method has not settled on ErrClosed, and
  only Dump reads the flag without the mutex. That the
  session is `Gone` then, held by no goroutine and no paused Snapshot, is the
  accounting of IInv and OneExecution. The other two need `InHand`: until
  Rust has lost it, a goroutine that executes has the interpreter. For the
  refinement, `View` is what the contract sees of a Repl in each of the places
  its session can be (its own handle, a paused Snapshot or a goroutine that
  executes, nowhere): with OneExecution it is in one of them at most, so that the
  mapping is a function of the state; then each step is shown to change the view
  of one Repl at most, in one of the ways ReplContract has.
* `DispatchProofs`: `TypeCorrect`, `SessionIsReturned`, `SpansAreEnded`,
  `PromisesHaveWaiters`, and `HostCallsImplemented`, the refinement of
  `HostCalls`. The inductive invariant adds what ties the place in the loop to
  the rest: which kind of progress is in hand at each place, that the handle is
  held between Rust's calls and not during them, that an outcome in the channel
  is the host's answer unless the context has ended, that an answer handed to
  Rust is never such an outcome, and that each call the program was promised an
  answer to is in the waiters map unless its last waiter promised nil. Three parts
  are about what was said: nothing of a call before it is made (`Unspoken`), what
  the waiter in the map answered has been said of that call, and nothing final
  before it (`Listening`), and the answer of a resume was said of the call it is
  for (`Truthful`), which makes each answer the program gets a step of HostCalls.
* `MemoryFSProofs`: `TypeCorrect` and `TreeStays`, for careful callers. The
  invariant is the two together. TypeOK needs the tree: only in a tree is nothing
  below a path that does not exist, so that what a rename moves lands on
  nothing. The tree itself is kept because nothing is below a file, a link or a
  directory without children. Lemmas about prefixes carry the proof of Rename:
  replacing a prefix can be undone, and the ancestors of what moved are those of
  its new place and what moved with it.
  `FileTreeImplemented`, the refinement of `FileTree`, needs
  this invariant and `Bounded`, that the map stays finite. `TreeOf` of a map
  is the tree it stands for. `IsProper` says that the tree of a good map is one:
  a path has fewer names than the tree has nodes, by the pigeonhole principle,
  so that as many steps up as there are nodes lead along the prefixes of any path
  to "/"; and a path is its parent and its name. Then there is one lemma for
  each way the tree may change: new paths grow it, a new entry in place of a file
  or link replaces one node, a leaf is removed, and a renamed subtree, each of
  whose paths the code rewrites, is one node in a new place (`RebaseParent`).
* `OSHandlerProofs`, about Codec: `RoundTrip`, for values of any kind, depth and
  size. The rows of the tables are compared kind by kind, which gives what Go has
  after Rust sent a value (`GoHas`) and what Rust has when it comes back; that is
  said of one node, and holds of all since what is at an address crosses by
  itself. Rust decodes the value unless a kind it never reads is in it, and it
  is then the same value but for the sign of a zero (`KindsTrip`); the interpreter
  takes it unless a class in it is not the host's, which that sign does not hide.
* `OSHandlerProofs`, about OSHandler. `HandlerOnlyChanges`: the handler and the
  callers beside it do to the map nothing but what `MemoryFS` has as actions. So
  `HandlerKeepsTree`: for careful callers TypeOK and IsTree hold and FileTree is
  implemented under os calls too.
  `NoCallIsRefused` (AnswersAreAccepted), `DefaultIsReturned`
  (DefaultComesBack) and `ExceptionsAreTruthful` (ErrorsAreTruthful) hold
  whatever the callers do. Their invariant is `ServedInv`: the map is finite and
  holds entries of good kinds (`Typed`, which, unlike TypeOK, a careless caller
  keeps too), the three properties, and that exceptions have a name from
  `ExcTypes`, since Rust refuses any other. The part of ErrorsAreTruthful about
  Resolve is why the map must be finite: a walk of as many links as there are
  entries that still ends at a link has been somewhere twice, by the pigeonhole
  principle, and so leads nowhere.
  `ProbesAgree` (AnswersAgree) follows from Typed: what a program is told of a
  path by exists, is_file, is_dir, iterdir and the others is read from the same map
  through the same tables, forth and back.
  `ChangesAreFound` (AnswersHold), for careful callers, needs `DoneInv`: until
  the program takes the answer to a write, mkdir, unlink, rmdir or rename, the
  files are as that call left them; then what a probe is told is TheAnswer to it.
* `PathScanProofs`: `ScansWellFormed`, `NothingTwice` and `NothingMissed`. The first
  two hold whatever the callers do. ReportsOnce is not inductive: `Once` ties
  what is reported to what is queued and what was listed, and `Origins` says that
  each path was found by the listing of its parent, which is listed once, or
  else a second listing could queue it again. `Undisturbed` carries what the
  first answer said for as long as nobody changes the map, since only a change
  makes a scan fail. NothingMissed needs a tree, hence careful callers, and
  `Covered`: what is due is reported as what it is, or it or a directory above it
  is in the queue.
* `LibraryCacheProofs`: `TypeCorrect` and `OnlyFaultsLeaveFiles` from one
  invariant, `Owned`: the shape of the state, NoLitter, and that no process has
  a file that was left behind, so that no name is taken twice. `FilesForget` is the
  lemma for every way a process is done with its file: moved, removed or left.
  `LoadsTheLibrary` and `GoodCopiesStay` need `Sound` as well: who is past
  Write has written a whole copy, and who is about to load finds that or
  nothing. They assume `Existing \subseteq {"whole"}`, that a move answers
  ErrExist of no copy that is short: without it MoveFindsOther loads whatever
  is there.
* `ShellProofs`: all safety properties of the shell. The invariant of types is
  stronger than TypeOK in three places. `OnALine`: a pane with lines has its offset
  on one of them; PaneNeverEmpty does not follow from an offset that fits the
  pane, because a resize changes the height and clamps nothing. `WholePage`: unless
  the size has changed since, the offset leaves a whole page, so that new lines move
  a page only when the log drops its first line (`PageIsKept`). `FrameFillsScreen`
  rests on `RowsFit`: the rows taken from the lines, counted one by one as the loop
  spends its budget, are never more than the pane has, so that the padding makes up
  the rest exactly. `LineShape`: the
  draft is nothing or the pending line, which is what DraftComesBack comes down
  to. `SessionIsHistory` is inductive with them, by the replay of a rewind;
  `TranscriptIsTail` is `InStep` of the entries and the session, and lemmas show
  that a new answer, a notice and the cut to MaxEntries keep it. Completion rests
  on `Largest`: names have a longest common beginning, which the pigeonhole
  principle gives without induction.

Assumed: the named ASSUMEs of the modules, and in the theorems that say so

* `Faults = {}` for SessionsSurvive, which is about the code where nothing rare
  happens (finding 3 is what a rare failure does);
* `Careless = {}` for the theorems about the tree and NothingMissed: "MemoryFS"
  above says what a careless caller does; the same for HandlerKeepsTree and
  ChangesAreFound;
* that LoadReplSnapshot is not used, which is `Spec`, for SingleExecution,
  FeedsTellTheTruth and ContractImplemented (finding 2);
* what a move may answer, for LoadsTheLibrary and GoodCopiesStay.

OSHandlerAssumption says of `Defaults` that they are values (`IsValue`): each kind
has the fields Rust has for it, and children where its row has child fields. This
is what Rust's types say of a MontyObject. TLC evaluates it on the defaults of
the run. The shell's ListingAssumption is that "/" only ends a name, as in what
`os.ReadDir` gives; that what can be typed are lines, in ShellAssumption, says what
the constant is for.

Only model-checked: the liveness properties (CallsReturn, CancelReturns,
AnswersArrive, Heals), since fairness and ENABLED are out of the prover's reach.
Every invariant and every action property of the passing runs is proved.

## 5. Not modelled

* The Monty VM: upstream. Its answers are a choice within what `lib.rs` returns.
* Conversions of Go values, JSON and formatting (`types.go`, `errors.go`), otelmonty,
  slog rendering: data without state that steps share.
* The wire messages of compile, start and feed options, limits and progress, and
  the widths of integers: Go and Rust declare the same ones. That encoding may
  fail is in `Handles`.
* In `vfs`: times and the texts of errors.
* In `shmonty`: the texts of the frame, the one-shot mode, what a program prints.
* What TypeCheck finds, inputs, limits and prints: they do not change who owns
  what. (That TypeCheck borrows the Runner's handle is in `Handles`.)
* Telemetry attributes and truncation.
* Build, examples and workflows.

## 6. Plan

Done: Handles, Dispatch and MemoryFS with their abstract specifications,
PathScan, Codec and OSHandler, LibraryCache, LogPane and Shell; proofs of all
their safety properties and of the three refinements. Next, in this order:

1. Option and progress messages, with `importHandler` (`dispatch.go` 306-345) as
   another host behind the codec.
2. Truncation of telemetry (`telemetry.go` 189-211).

A composition of Handles and Dispatch is not planned: the loop uses only resume
and restoreOwner, whose promise (`ReplContract`) is what Dispatch assumes.
