# KAlgebra: models, checks and proofs

This directory holds TLA+ modules that model KAlgebra (the desktop calculator of `src/src`, in the version that also
listens for HTTP requests), configurations that model-check them with TLC, and proofs checked by TLAPS. A module is
read beside the source file it names; `PROJECT.json` maps every definition to the lines it stands for.

## 1. The system

KAlgebra is one process. The **GUI thread** owns the window (`KAlgebra`, four tabs) and every object in it. `main`
(`src/src/main.cpp`) builds the window, starts an **HTTP server** of its own (`HttpServer`: one listener thread and
five workers) and enters Qt's event loop; when the loop ends it stops the server and returns. Workers call handlers
in `main.cpp`, which reach the window in two ways: they post a call to the GUI thread's event queue (`/add/calc`,
`/add/2d`, `/add/3d`), or they use the window's objects themselves, on the worker (`/tab`, `/vars`, `/func/2d`,
`/func/3d`). The GUI thread's own operations are slots: each runs to its end before the next event, except that a
dialog (`exec()`) runs a nested event loop, in which posted calls are run too.

| component | state it keeps | operations | what makes it correct |
|---|---|---|---|
| HTTP server (`http_server.cpp/.h`) | `running_`, the socket, an epoll instance per worker, registrations, a heap object `EventData` per direction of a connection | `Start`, `Stop`, `Listen`, `ProcessEvents`, `HandleEpollEvent`, `control_epoll_event` | no refused system call (it ends the process), no use after free, nothing leaked, responses sent whole and in order, every request answered, `Stop` returns |
| HTTP messages, URIs (`http_message.*`, `uri.h`) | the table of handlers | parse a request, format a response, find the handler, map failures to status codes | a request is read as it is written; the status, the length and the content of an answer belong together |
| JSON (`json.h`), what the program runs | none after a call | lexer, parser and the tree it builds, access, `dump` with the digits of a double | accepts the grammar of RFC 8259 and nothing else, exact at the limits of integers and UTF-8; what is dumped parses back, and a double has the digits that are its own |
| JSON, what it carries beside that | stacks of the callback parser; a document that is patched | wide characters, comments, callbacks; CBOR, MessagePack, UBJSON, BJData, BSON; pointers, patches, `diff`, `flatten` | each format reads what it writes; a patch from `diff` makes its target; a callback drops what it refuses and nothing else |
| Endpoints (`main.cpp`, parts of `kalgebra.cpp`) | `global_app`, the event queue | ten handlers; posted calls; end of `exec()` | the window outlives the handlers, answers describe the window, acknowledged calls run in order, quitting ends |
| 2D tab (`kalgebra.cpp`, `functionedit.*`) | plot list and its current row, the form (name, text, limits, OK, editing), the tabs beside the plot | `new_func`, `edit_func`, `remove_func`, `functools`, `add2D`, `operate_add2d`, `edit`, limits | the plot that is edited or removed is the one that was opened; what OK accepts was checked |
| 3D tab (`kalgebra.cpp`) | the plot, `expr_3d`, plot style | `new_func3d`, `add3D`, `operate_add3d` | `expr_3d` names the plot on show |
| Console (`consolemodel.*`, `consolehtml.*`) | variables, script, log, mode, options, page | operations, scripts, log, Clear, links | script, log and page agree |
| Variable editor (`varedit.*`, delegate, `AskName`) | the name, whether it can be removed, whether the text is correct | OK, Remove, Cancel | a variable in use is not removed |
| Viewport widget (`viewportwidget.*`) | four spin boxes, the view's rectangle | signals of the boxes, of the view and of the tab | the view shows what the boxes say, and rounding and feedback come to rest |
| Command line (`calgebra/main.cpp`) | arguments, history of expressions | options, one line at a time, the final loop that frees | each line is calculated once and each expression freed once |
| Mobile application (`mobile/`) | a variable per plot; the rows of a table | plots come and go; fill the table | each variable belongs to a plot; the rows of a table are the steps from one end to the other |
| Dictionary, plasmoid, `utils` | little or none | see section 8 | see section 8 |

What is hard here: six threads over shared kernel objects and a heap; handlers that read window objects while the
GUI thread changes them; calls acknowledged before they run; responses sent in parts across events; a form whose
verdict is computed at one event and used at a later one; a row looked up by name long after it was opened; dialogs
whose event loop runs other people's calls; texts from outside read by hand-written loops, with limits of integers,
UTF-8 and floating point, and lengths taken from the input. `PROJECT.json` lists each such place under `hazards`.

## 2. Modules

| module | models | uses |
|---|---|---|
| `HttpSession` | what the server promises a connection: segments answered in order, one response each, bytes in order, hanging up only on a client that left | |
| `HttpServer` | the server: main thread, listener, workers, kernel, clients | refines `HttpSession` |
| `HttpServerProofs` | its inductive invariant and theorems | `HttpServer` |
| `HttpSessionProofs` | the proof that `HttpServer` implements `HttpSession` | `HttpServerProofs` |
| `Plot2D` | the 2D tab: list, form, tools | |
| `Plot2DProofs` | its inductive invariant and theorems | `Plot2D` |
| `Bridge` | workers' handlers, the event queue, the GUI thread, the end of `exec()`, the 3D tab | |
| `BridgeProofs` | its inductive invariant and theorems | `Bridge` |
| `Console` | console and variable editor | |
| `ConsoleProofs` | its inductive invariant and theorems | `Console` |
| `HttpMessages` | a request from bytes to its fields, the table of handlers, the answer and its bytes | |
| `Growing` | an input of one kind that grows by a piece at a time | |
| `Requests` | the machine that grows requests, and what must be read of them and answered | `HttpMessages`, `Growing` |
| `HttpMessagesProofs` | theorems about what is read and answered and what the window is asked to do, for every text | `Requests`, an instance of `FoldProofs` for each loop |
| `JsonLexer`, `JsonParser`, `JsonSerializer` | the part of `json.h` that the program runs | the parser uses the lexer's tokens, the serializer both |
| `JsonFloat` | Grisu2: the shortest digits of a double, with the table of powers of ten | |
| `JsonInput` | wide characters, comments and the parser with a callback | `JsonParser` |
| `JsonReader`, `JsonWriter` | `binary_reader` and `binary_writer`: five binary formats | `JsonParser` |
| `JsonPatch` | JSON Pointer, `flatten`, patches, `diff`, merge patches | `JsonSerializer` |
| `JsonLaws` | what the binary formats keep of a value, what pointers and patches must do | `JsonWriter`, `JsonPatch` |
| `Points` | the list of points in a request for `/func/2d` or `/func/3d`, from JSON to what is answered | `JsonParser` |
| `Table` | the rows of a table of the mobile application | |
| `Mobile`, `CommandLine`, `Viewport` | mirror of the plots, the read-evaluate loop, the spin boxes: an operator for an event each, folded over the events | |
| `Events` | the machine that grows sequences of events for these three, and what the code must have made of them | `Mobile`, `CommandLine`, `Viewport`, `Growing` |
| `FoldProofs` | what a fold and what `FlattenSeq` compute, for any operator; induction over the length | |
| `EventsProofs` | the inductive invariants of `Events` and its theorems | `Events`, an instance of `FoldProofs` for each operator |
| `Inputs` | the machine that grows inputs of every kind, and their reference definitions | `Requests`, `Events`, `Table`, and all from `JsonLexer` to `Points` |
| `MC...` | symmetry sets for TLC | the module they are named after |

The models meet at named places. `HttpServer` reduces a request to the length of its response; `Bridge` takes
over where `HandleHttpData` calls a handler (`Handle`) and uses of the server only what `HttpServer` establishes:
one request at a time per worker, and `Stop` that joins every worker. `Bridge` runs posted calls in outline;
`Plot2D.operate_add2d` and `Console.operate_calc` are the same calls in full, at any moment of their components.
`HttpMessages.HandleHttpData` is what lies between: from the bytes that `HttpServer` receives to the handler that
`Bridge` runs, and from its answer to the bytes sent; `Points` is what the two handlers with points read of them.

### HttpServer

One step is one system call, or the code between two. `main`, `lpc` and `wpc` are the places of the three kinds of
threads; `lfd`, `ldata`, `wdata`, `ctl`, `batch` their locals; `live` and `heap` the `EventData` objects; `regs`,
`fdtab` and `epollOpen` the kernel's tables; `backlog`, `peer`, `inbox`, `wire` the network. `EpollWait` returns what
is ready, level-triggered, at most `kMaxEvents` in any order. `recv` and `send` may move part of what is there or
report EAGAIN; a client may send a request in several segments, close or reset at any time. An address is reused as
soon as it is freed, so that a stale pointer would meet another connection's object. `control_epoll_event` fails as
`epoll_ctl` does (EBADF, EEXIST, ENOENT); the exception has no handler in a thread, so that `fate` becomes
`terminated`. `running_`, a plain `bool` written by one thread and read by others, is read afresh in every
iteration, as in any build whose loops call opaque functions. SIGPIPE is left out. `RespLens` and `kMaxBufferSize`
are counted in units of payload, not bytes. `HandleHttpData` reads a full buffer as a string, beyond its end (line 206),
and copies `kMaxBufferSize` bytes of a response that is mostly shorter (line 226): neither over-read is modelled. The
first may change the request's text, which the model leaves open anyhow; the second copies bytes that are never sent.

### Plot2D

One action is one event of the GUI thread: a tab, a click, a double click, typing, a limit, OK, Remove, the console's
link, a call of `/add/2d`, a variable that appears or goes. A text is a curve, a curve as long as a variable exists
(`VarCurves`), or none (`Broken`). `freeId()` is any name no plot has. Left out: colour, resolution and the interval
of a plot, and what the view paints. Failing `create()` on a request that cannot be drawn is `fate = "crashed"`.

### Bridge

A worker's handler is a sequence of single accesses: `Check`, `Key`, `Value`, `Name` are the four accesses to the
variables of one turn of the loops in `status_vars` and `status_func2d`, `PlotOf` takes the next element of
`m_items`, `Expr3D` is each of the reads of `expr_3d`: for `expr`, its size, `->`, the function, and two or three for
each point (a request says how many its points take, from `PointReads`). `keys()` is a sequence whose order may change when a name is
inserted, as a `QHash`'s does. An index past the end or a null pointer is `fate = "crashed"`; moreover `Tear` lets
the process end at any read of an object that the GUI thread has changed since the request began, since such an
access is a data race. `SetTab` and `Emit` are the two halves of `QTabWidget::setCurrentIndex` on a worker: the tab
bar changes at once, and the signal that makes the page change is queued, for its receiver lives in the GUI thread.
`Define`, `RemoveVariable` and `ChangePlots` stand for the console, the variable editor and the 2D tab, by what they
do to the variables and the list. `/tab` is asked for existing tabs only, as its assertion requires.

### Console

One action is one event. An expression is reduced to the name it assigns and the names it uses; whether Analitza
accepts it is left open (`Succeed` or `Fail`), in both modes. `page` is the last thing `updateView` showed. While
`dialog` is a name, `VarEdit` is open and only its buttons and `operate_calc`, run by its event loop, can act.
The links of the page paste text into the input line, that is, they lead to an operation like any other; the links
that plot are `add2D` and `add3D` of the graph tabs.

### Texts, trees and event sequences

`HttpMessages`, the modules named `Json...`, `Points`, `Table`, `Mobile`, `CommandLine` and `Viewport` are operators:
each is the code's function as a function of its arguments, loops as folds or recursion, exceptions as results.
`Requests`, `Events` and `Inputs` have one input of one kind as their state (`Growing`) and let it grow by a piece at a
time, so that TLC visits every input up to a length; their invariants compare the operators with references that are
written another way (derivations of a grammar, positions in the input, arithmetic). `Inputs` has the variables and the
actions of the other two among its own: its run checks the properties of all three.

- A text of HTTP is a sequence of words and of the characters that the code looks at. What else is a word is left to
  the constant `Symbol`, of which the proofs assume only that the methods and those characters are in it (the run takes
  all strings). A text of JSON is a sequence of bytes. `Accepts` starts from tokens, `parse` from bytes.
- A floating point number of JSON text is a decimal fraction: `strtod` is taken as exact within its range, and the
  limits of integers are scaled down (`MaxUnsigned`, `MinInteger`), as are the size of the buffer of
  `dump_escaped` (`BufferSize`, down from 512) and the range of numbers without an exponent (`MinExp`, `MaxExp`).
- `JsonFloat` has the widths of Grisu2 as parameters. The run takes a float of 5 bits and a `diyfp` of 14, as TLC's
  integers have 32 bits: `kAlpha`, `kGamma` and the table keep the relations that the code's own assertions ask for,
  and what they assert is collected in `holds`. The table is computed (nearest significand, exponent by the logarithm
  of 10); with the widths of a double the same formulas give the 79 entries of the code.
- In the binary formats a byte counts to `Radix` = 128 rather than 256, so that a number of four bytes fits TLC's
  integers; a type has 1 to 4 such digits where the code has 8, 16, 32 and 64 bits. A float is its bit pattern. A type
  of BJData has its marker as its name. `Radix` keeps the code's boundaries between widths.
- An exception is `<<"exception", id>>`; where two may be thrown, which one is not compared. An assertion that fails is
  no exception: it is `Aborted` in place of a result, as in a build with assertions (`src/manual.md` configures one).
  The members of a patch operation (`op`, `path`, `from`, `value`) are fields of a record.
- A callback of the parser is a set of rules: the event, the depth and the values that it refuses. The value of an open
  container is held beside its parent's and put there when it closes, as in `JsonParser`.
- The numbers of a table are integers with a mantissa of `Precision` bits, rounded to nearest, so that a step can be
  lost as it is with 53 bits. The lengths of a viewport are integers of which a spin box shows multiples of `Unit`.
- Which points are near a plot, which expressions evaluate and what they give is left to Analitza.
- `/tab` with the number of no tab aborts on the assertion in `operate_tab`: it has no answer. With no number, or one
  that no `int` holds (`FitsInt`), `stoi` throws, and the answer is 400.
- `functionModified` of the mobile application is left out: its loop (`i < idxB.row()`) does not run for one row.

`Table` and most of the modules of JSON use RECURSIVE operators, so that they are for TLC only. `HttpMessages`,
`Mobile`, `CommandLine`, `Viewport` and `Events` do not, and there are proofs about them. The guards of a CASE exclude
each other, as its value is otherwise any of those that apply; an order that the code's tests need stands as nesting.

## 3. Runs

| run | expect | question | instance |
|---|---|---|---|
| `http_safe` | pass, 244,644 states | does any interleaving reach a refused call, a dangling pointer, a leak, an unfair share, a thread that stopped, or a byte out of place? | 2 workers, 2 descriptors, 4 addresses, 2 connections, one request each, responses of two sends, one `send` with EAGAIN, symmetry |
| `http_live` | pass, 124,745 states | is each request answered, each descriptor closed, each connection accepted, and does `Stop` return? | 1 worker, 1 descriptor, 2 addresses, 2 connections, one `recv` with EAGAIN |
| `http_retry`, `http_fragments`, `http_buffer` | violation | section 6 | |
| `plot2d` | pass, 687,626 states | do form, list and current row stay in step? | 3 names, 1 curve, 1 curve with a variable, limits 0 and 1, 2 plots, two tabs, three tools, symmetry |
| `plot2d_ok`, `plot2d_names` | violation | section 6 | |
| `bridge` | pass, 247,900 states | are handlers, queue and GUI thread in step, and does quitting end? | 2 workers, 2 requests of any kinds, 1 event of the user, 2 variables, 2 plots, 2 tabs, no point or one |
| `console` | pass, 574,192 states | do script, log, page and dialog stay in step? | 2 names, 2 log entries, 2 operations |
| `inputs` | pass, 526,540 states | is each text, tree and event sequence treated as its reference says? | see below |
| `inputs_patch` | violation | section 6 | that of `inputs` |

Safety of the server (`http_safe`): `OnlyRetryTerminates` (no `epoll_ctl` is refused before a `send` reported EAGAIN),
`MemorySafe` (each pointer that a registration, a batch or a thread holds is allocated and agrees with its
descriptor), `NoLeak` (each object and each descriptor is in an epoll set or in a thread's hands), `FairShare` (shares
differ by at most one), `ServingAlive` (from `Start`'s return until `Stop` every thread is in its loop) and
`ImplementsSession`, the refinement of `HttpSession` under the mapping written at the end of `HttpServer`: `owed` is
what is left in the object of the response being sent.

Liveness (`http_live`): `EachRequestAnswered`, `DescriptorsReclaimed`, `BacklogAccepted`, `StopReturns`.

`plot2d`: `EditedPlotThere` (while the form edits, its plot is in the list under its name and is the row Remove
removes), `NamesUnique` (without plots added over HTTP), `EditsOnlyTarget` (editing changes the plot opened),
`OkChecked` and `CrashOnlyUnchecked` (a text is accepted unchecked only if the limits are bad or a variable changed).

`bridge`: `WindowAlive` (a handler runs only while `global_app` points to the window), `CrashOnlyRaced` and
`AnswerExact` (a status request fails, or is wrong, only if what it reads changed under it), `ExecutedInOrder` (a
call runs once, after every call that had been answered before its request came), `TabsAgree` (bar and page agree
once the queue is run, unless a worker's change of tab overlapped another), `ShownIsReported` (`expr_3d` is the plot
that the 3D tab made), `AcknowledgedRuns` (an acknowledged call runs unless the application quits) and `QuitEnds`.

Four of these hazards are bounded, not excluded, as the code does nothing against them: a request during which its data
changed may fail or be wrong (`dirty`), two changes of the tab that overlap may leave bar and page apart (`raced`), a
plot that `add3D` makes is not what `/func/3d` speaks of, and `/add/2d` overwrites the plot that is being edited. The
properties say that nothing else goes wrong. In `console`, `late` marks a call run behind the dialog in the same way.

`console`: `ScriptIsResults` (the script is the operations whose results the log shows), `PageCurrent` (the page
shows the log; its options are those of the newest operation that succeeded, or none, and a newest result stands
below its own), `DialogSafe` (unless a call ran behind the dialog's back, Remove removes no variable in use, and OK
replaces the value that the dialog showed when it opened).

`inputs`, by kind of input:

| property | what it shows |
|---|---|
| `RequestReads` | a request in order is read with the names of its lines and no other, each with the value of its last line (a line without a colon has that of the field before it), with its content and the content's own length; without any line the content is lost up to its first empty line |
| `AnswerTells` | at most one call of the window, only with 200 and never for GET; HEAD does what the other method does, effects included; content and Content-Length agree; only an impossible `/tab` is not answered |
| `ParserAcceptsGrammar` | the loop with a stack accepts the token sequences that the grammar derives and builds their value; with a callback it builds what the rules leave of that value, but for discarded members that stay in an object |
| `LexerExact` | numbers and strings are accepted as in RFC 8259; no integer wraps; strings denote the UTF-8 they should, UTF-16 and UTF-32 included; a comment is as good as a space |
| `DumpParses` | what `dump` writes, `parse` reads as the same value; it throws for bytes that are not UTF-8 and only then; its buffer is not overrun; the digits of a float lie between the halfway points to its neighbours and are as few as Grisu2 promises, no product wraps, no assertion fails, and the table suffices for each exponent of a double |
| `BinaryExact` | each format reads what it writes, up to its last byte and not before, as what the format keeps of it; whatever bytes are accepted are written and read again as the same |
| `PatchMakesTarget` | `patch(a, diff(a, b))` is `b`, and so is a merge patch where one can say it |
| `OperationsExact` | a pointer locates what is there; an operation of a patch does what can be undone, or throws, and then only a move has changed anything (what is added below a primitive does neither: `PatchAsserts`, section 6); `flatten` and `unflatten` are inverse where they can be |
| `PointsAnswered` | a list of points is answered, with a key for each, or refused with 400, by which coordinates are numbers |
| `VariableOfPlot` | which plots have a variable in the mobile application, given that a removal reads the row after it is gone |
| `TableRows` | a table has each step up to its limit or first error, is empty downwards, and is endless only if the step is lost in rounding |
| `SessionCalculates` | arguments, entries over several lines and `ans`; half of the history is freed at the end |
| `ViewportApplied` | boxes and view agree to half a unit; Apply comes to rest at once; what it flattens |

Some of these state what the code does where one may wish for something else (a table that goes down, the variable of
a removed plot, HEAD that adds a plot): no line of the repository says otherwise, so they are no findings.

### Why the bounds suffice

Two workers and two connections let two threads hold objects of different connections, exchange a descriptor number
and reuse an address; four addresses are the two connections' request and response at once. A response of two sends
has a first, a last and no middle part; more parts repeat the same step. Liveness needs no second worker for its hard
cases (descriptors run out with one) and is checked without symmetry. In `plot2d` two plots and three names are what
it takes to confuse one plot with another and to have a fresh name; a longer list adds nothing that an action
compares. In `bridge` a status request and one operation that defines two variables, followed by the user's removal,
meet every access of the loop; two requests on two workers meet every order of posting. In `inputs`, token sequences
of nine hold arrays in objects in arrays with a comma at each level; numbers of seven bytes have every part of the
grammar and cross both limits of integers; the bytes of strings are both ends of each range that the lexer or the
automaton distinguishes, with surrogates and their neighbours, and a started code point may be completed; two pieces
reach the flush of the buffer, scaled to 20; a request has a start line and up to four more pieces (two for the start
lines that differ only in method and path), which is two fields, a repeated one, the empty line and content; five lines
are two entries of two lines and an empty one between; floats are all 479 that the scaled type has, normal and
denormal, both neighbours of a power of two included; wide texts of three characters hold a pair, half a pair, and a
character after it; four pieces of text open and close a comment of each sort, around or inside a string; the 24
callbacks refuse each event at each depth that nine tokens reach, and combinations with a key that comes twice. Values
for the binary formats lie at both ends of each width and of each short form, alone and beside a neighbour, and byte
strings of three or four pieces nest a container in another with a length; documents of three parts have a member or
element before and after the one that differs, with `/`, `~` and digits in keys; a patch acts on each value, on
each token below one, and below nothing. Three points, five plot events and
four movements of a viewport repeat every pair of steps. Bounds on counters (`MaxRequests`, `MaxRecvAgain`,
`MaxSendAgain`, `MaxUser`, `MaxPlots`, `MaxLog`, `MaxSession`, `Pieces`) are in guards of actions of the environment,
or of the operations that grow a list; those of `Inputs` and `Events` (`MaxPieces` ... `MaxMoves`) end their inputs.

`CHECK_DEADLOCK FALSE` appears in `Bridge.cfg`, as the process ends when `main` returns, and in `Inputs.cfg` and
`InputsPatch.cfg`, as an input that has reached its bound does not grow.

## 4. Fairness

`HttpServer.FairSpec`: weak fairness of the main thread's steps within `Start` and `Stop`, of the listener, of each
worker, and of a client's reading. The threads are runnable at every step (every system call is non-blocking,
`epoll_wait` has timeout 0), so that the scheduler runs each again and again; TCP delivers what a client has room
for. A client that never reads leaves its response unsent: `EachRequestAnswered` assumes that it reads. Whether
`Stop` is called, a client connects or closes is open. `Bridge.Fairness` is the same for workers, `main` and the
event loop; requests, the user, Quit and `Tear` may never come.

## 5. Proofs

`HttpServerProofs` proves for every number of workers, descriptors, addresses, connections and every bound:
`TypeCorrect`, `TerminatesOnlyOnRetry`, `MemoryAlwaysSafe`, `NothingLeaked`, `SharesFair`, `AlwaysServing`. The
assumptions are those the module declares: at least one worker, positive capacities, `None` outside the other sets.
The safety invariants are not inductive: that a pointer taken out of a batch is still allocated depends on who may
free it. The strengthening `IInv` says that each `EventData` and each descriptor has exactly one owner, which is
a registration, the listener between `accept4` and `epoll_ctl`, or a worker between taking an event and its last
call (`OwnerInv`), together with what each place of a thread implies for its locals (`PcInv`), what a registration
and a batch may hold (`RegsInv`, `BatchInv`) and, for the shares, the relation of `load` to `current_worker`
(`ShareInv`). A batch holds only events of registrations of its own worker, and only that worker removes or replaces
them: this is why no second thread can free under it. `Invariance` is `Spec => []IInv`; each action preserves each
part in a lemma of its own.

`Plot2DProofs` proves for all names, texts, limits and any length of the list: `TypeCorrect`, `EditedPlotStays`,
`NamesStayUnique`, `OkFollowsText`, `OnlyUncheckedCrashes` and, as an action property, `EditingIsLocal`. The
strengthening adds that, as long as nothing was added over HTTP, the name in the form is taken by no plot while the
form is shown and does not edit (`FormNameFresh`), which holds because `functools` renews it whenever the Add tab
comes up.

`ConsoleProofs` proves for all names, any length of log and any number of operations: `TypeCorrect`,
`ScriptFollowsLog` (the script is the results of the log, in their order, with what was cleared before them),
`PageFollowsLog` and `DialogStaysSafe`. The strengthening types the table of variables, the log and the script
(`TableTyped`, `LogInv`, `ScriptBounded`), and keeps the checks that the dialog made as long as no call ran behind it
(`DialogTrue`): what Remove needs is computed when the dialog opens and when the text changes, not when Remove is
pressed.

`BridgeProofs` proves for any number of workers, requests, variables, plots and tabs: `TypeCorrect`,
`WindowOutlives`, `OnlyRacesCrash`, `ReadsAnswer`, `CallsInOrder`, `TabsSettle` and `ShownPlotReported`. Each of the
properties speaks of what a handler ends with, so that the strengthening must say what it has on the way:

- `LifeInv`: which threads live at which line of `main`. It is what makes `WindowAlive` inductive: `global_app` is set
  before a worker is started, and workers are joined before `main` returns.
- `LoopInv`: while nothing the handler reads has changed since its request came (`dirty`), what it has copied is the
  part of the window's state up to its index: the first `idx - 1` variables, the first `item - 1` plots, the reads of
  `expr_3d` so far. A step of the GUI thread marks every handler that it may mislead; any other step leaves the window
  as it was. With it the index of the next access is in range, which is `CrashOnlyRaced`.
- `OrderInv`: what has been executed and what waits in the queue are one sequence of calls in which none stands twice
  and each stands after whatever was acknowledged before its request came. Posting appends to it, the event loop moves
  the border by one, an acknowledgement comes only of a call that is in it. `ExecutedInOrder` alone says nothing of the
  queue, and so would not survive the event loop's step.
- `TabInv`: of the changes of the tab under way, the last is for the tab that the bar shows, be it in the queue or
  between the two halves of a worker's `setCurrentIndex`; nothing is known of it once two of them overlapped (`raced`).
- `PcKinds`: a handler is only at places of its own kind of request.

`HttpSessionProofs` proves that `HttpServer` implements `HttpSession`: `Implements` is `Spec => ImplementsSession`,
with the mapping of the run `http_safe`. `IInv` and the invariant of `NothingLeaked` come from `HttpServerProofs`: the
mapping finds the response that is being sent in the one object registered for its connection or held by a worker,
which takes that there is just one. `SInv` adds what relates objects to the network:

- `ConnInv`: a connection has one descriptor or stands once in the listen queue, and never both, as long as its client's
  end exists.
- `SegInv`, `HandInv`: what waits in a socket, and what a worker has received and not yet answered, are consecutive
  runs of the segments that the client sent; hence a response answers the segments that come next.
- `LenInv`: an object has a length exactly if it is registered, reported or about to be registered for EPOLLOUT; hence
  nothing is received while a response is being sent, and what `RecvData` takes is not owed an earlier one.
- `HangInv`: a worker that is about to close a descriptor has seen its client leave.

A step of the main thread, the listener, `epoll_wait` or `epoll_ctl` is then no step of the session; receiving waits
for the answer to map (`HandleMaps`: `Answer`), each `send` is an `Emit` (`PartMaps`, `RestMaps`), `close` is `HangUp`
(`CloseMaps`), and a client's step is its own. `Taken` counts a segment only once the handler has run, since the worker
may be anywhere between `recv` and the handler.

`EventsProofs` proves for every set of names, arguments, lines, rectangles and values, over any sequence of events:
`VariablesOfPlots`, `SessionCalculatesAll` and `ViewportIsApplied`, that is, the properties `VariableOfPlot`,
`SessionCalculates` and `ViewportApplied`. The code's state after the events is a fold, and a step adds an event, so
that each proof needs what a fold makes of one element more. `FoldProofs` proves this of `FoldLeft` for any operator,
which stands there as a constant operator of the module; `EventsProofs` instantiates it for each of the code's
(`FlattenSeq` of the references is unrolled alike). `FoldLeft` is a recursive function over sets of indices, which exists
by induction over their number. The library's induction theorems take an operator as a parameter; instead,
`NatSetInduction` speaks of a set that has 0 and each successor, and follows from the least number of its complement,
which `LeastNat` gets from the library's theorem that finite sets are well founded under inclusion. The invariants are:

- plots: the rows are names without repetition, and `VariableOf`: the variable of a name is that of the last event
  that gave it one, and is gone if some later event removed the row above it;
- arguments (`ArgumentsOK`): nothing after the first ending is obeyed, and the mode is that of the last that sets one;
- lines (`LinesOK`): there is exactly one line where the open entry starts (`Open`), what the code holds is what
  follows it (`Reading`), and the entries that end with an earlier line are what they were, as they do not depend on
  later ones. The reference says where an entry may start by recursion over lines; that there is one start, and not
  two, is what makes the code's single buffer right;
- history (`HistoryHalved`): each turn of the final loop takes the element at an index that moves on by one while the
  list shrinks by one (`Remaining`);
- viewport: each box holds a multiple of the unit within its range; the lemmas are about rounding (`NearClose`,
  `NearSame`, `SetValueFlat`), and `ChangeAgrees` is an action property. The assumption on the unit is that it is odd,
  as no value then lies midway between two that a box shows (which way Qt rounds such a value is not modelled), and
  that the limit is a positive multiple of it: with a limit of 0 each box shows 0 only, and Apply would flatten all.

`HttpMessagesProofs` proves, for every text over every set of symbols and for requests of any pieces, what is read
(`RequestsRead`, that is, the property `RequestReads`) and what is answered (`RequestsAnswered`: `AnswerTells`). The
state says little here: `RequestsInvariant` is that the pieces are texts. What is to be shown is what the code computes
from a text, and its loops are the folds `strip`, the two `split`s and the one over the headers, so that each fact is an
induction over the text (`SeqSetInduction` of `FoldProofs`, instantiated for each loop).

What is answered:

- The table of handlers is a chain of concatenations; `MainRegisters` finds its elements one by one, `Dispatch` what a
  path and a method lead to, and `HandlerAnswers` what a handler ends in (`Outcome`): an abort for `/tab` only, a
  refusal, an answer, or, where GET is not registered, an answer with one call. From it follow `RequestAnswered`,
  `HeadDoesTheSame` and, for texts that are no request as well, `TextAnswered`.
- A text that says HEAD is compared with the same text under another method. `RequestTwin` and `TextTwin` show that the
  first token changes neither the other words, nor where the first empty line is, nor what is read after it. The
  first two words are the first two tokens that are not white (`Heard`), so that the method and the path of a request
  can be told from its text (`RequestHeard`).
- That nothing sent has more content than it says speaks of bytes: where the first empty line of an answer is. No line
  of its head is empty (`NoBlank`), so it is the one that ends the head (`ReplyEnds`), and what follows is as long as
  the header says.

What is read (`TextRead`), from the start line on:

- `RequestParts` takes the growing input apart: start line, lines, empty line, content. `LinesNoBlank` and `RestParts`
  show that the code finds the same parts, as no header line has an empty line in it and the first one is where they
  end; without a line, it is the next one in the content.
- `ThreeWords` and `StartRead` split the start line; each header line, with its CR or without, is read as its name and
  its value (`Reads`, `Bodied`), and a line without a colon leaves the value as it is.
- `LineMore` and `LinesRead` add a line to those that were read: a name gets the value of its last line. `HeaderRead`
  does the same for the last line, whose end `split` never sees, since the header ends before it.

`TypeOK` of `Bridge` is checked by a run too; the types of the other modules are proved only.

Only model-checked:

- liveness (`EachRequestAnswered`, `DescriptorsReclaimed`, `BacklogAccepted`, `StopReturns`, `AcknowledgedRuns`,
  `QuitEnds`), which depends on ENABLED through fairness and is outside the prover's reach;
- the properties of `Inputs` about JSON, `PointsAnswered` and `TableRows`: the operators, or the references, are
  RECURSIVE. `JsonFloat`'s table is checked for every exponent of a double, its digits for a small type only.

## 6. What the checks found

| run | what happens | where |
|---|---|---|
| `http_retry` | a `send` that reports EAGAIN is retried by `EPOLL_CTL_ADD` of a descriptor that is registered already; the call fails and the uncaught exception ends the process | `http_server.cpp:195` |
| `http_fragments` | a request that arrives in two segments is handled as two requests | `http_server.cpp:159` |
| `http_buffer` | a response longer than `kMaxBufferSize` keeps its length, not its bytes | `http_server.cpp:227` |
| `plot2d_ok` | bad limits leave OK enabled from an earlier verdict | `functionedit.cpp:231` |
| `plot2d_names` | plots added over HTTP share a name, and editing the second changes the first | `kalgebra.cpp:601` |
| `inputs_patch` | a patch that adds below a string, a number or a boolean comes to the assertion under "if there exists a parent it cannot be primitive"; without assertions it adds nothing and says nothing. The program never calls `patch`: this is about the library it carries | `json.h:24101` |

Each of these runs checks one statement of the code or the handbook and ends in a counterexample.

The handbook differs in one more place, which needs no run: Save Script is said to save "the instructions you have typed
since the session began" (`doc/index.docbook:311`), but Clear empties the script together with the log
(`consolemodel.cpp:191`), and `ScriptIsResults` says that the script has just what the log shows.

## 7. Plan

Done: `HttpSession` and `HttpServer` with proofs, the refinement included; `Plot2D` with proofs; `Bridge`, which
includes the 3D tab, with proofs; `Console`, which includes the variable editor, with proofs; `Events` with proofs, down
to the folds it is built from; `HttpMessages` and `Requests` with proofs, from the bytes to the answer; the other
modules of `Inputs`. Every invariant and action property that a run checks of a state machine of the program is proved.

Next: recursive functions in place of RECURSIVE operators in `Table` and `JsonPatch`, and proofs about them.

## 8. Not modelled

- Analitza (expressions, evaluation, plotting), Qt, KIO and the kernel are external: modelled by what the code
  relies on, and marked so.
- `json.h` is a vendored library of 24,765 lines, five sixths of the code under `src/`. The program calls `parse`,
  `dump`, `operator[]`, iteration and a conversion; the other templates that are modelled are part of the repository,
  but the program never instantiates them. Left out: iterators as such and the members that only move or copy what is
  given (`insert`, `emplace`, `swap`, `update`), conversions to and from C++ types, the allocator, streams,
  indentation and the error handlers of `dump`, the wording of exceptions, and the macros of the first 2,900 lines.
  They keep no state of their own, or their content is C++'s type system, which TLA+ does not have.
- What a response says of colours and resolution, reason phrases, logging and output are left out.
- `Dictionary` keeps no state between two activations beyond what it shows; the plasmoid and `utils` show one graph
  and print documentation; the QML pages other than the table, and the wrapper of the clipboard, are forms.
- Opening dialogs for files, recent files, full screen and the view menus change nothing that a property relates.

### What the models of `json.h` show beside their properties

The program does not reach these; the properties are stated with them. A line of the repository says
otherwise only of an addition below a primitive: the comment that the run `inputs_patch` checks.

- Callbacks: a member whose primitive value, or whose array, is refused stays in its object as a discarded value;
  closing an object takes one such member out of the object around it, so that what is left depends on what comes
  later.
- Wide characters: a surrogate takes the next character as its other half whatever it is, so that UTF-16 that is
  ill-formed may be read as another character.
- CBOR: a negative integer (0x3B) beyond `int64` wraps; a length of 2^64 - 1 reads as an indefinite one. MessagePack and
  BSON cut subtypes to a byte; BSON drops signedness, and its document size is read and ignored.
- UBJSON and BJData: a negative string length is the empty string; a NUL where a marker of a dimension is expected is
  skipped. An annotated array of BJData whose sizes are a row vector, a number or contain 0 reads back as a plain array;
  elements outside their type wrap.
- Pointers: `contains` throws for an empty token at an array; `unflatten` makes an array of an object whose first key is
  "0". Patches: a removal below a primitive is ignored; an addition below one reaches the `JSON_ASSERT(false)` that the
  comment at json.h:24092 rules out; a move whose addition throws has lost its value already.
- The unsigned 2^64 - 1 equals the integer -1.
