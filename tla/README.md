# Verification of LuaRPC

LuaRPC lets a Lua program call functions, read variables and assign variables of
another Lua program, over a socket, with plain Lua syntax. This directory holds
TLA+ models of its C code, the TLC configurations that check them, and theorems
about them that TLAPS checks. File names such as `luarpc.c` are those of the
repository's sources; the models describe the POSIX socket transport
(`luarpc_socket.c`), single threaded server and client.

## 1. The system

### Components

| component | code | state | operations |
|---|---|---|---|
| Client requests | `luarpc_protocol.c` `helper_call`, `helper_get`, `helper_newindex`, `client_newindex`, `helper_wait_ready`; `luarpc.c` `rpc_close` | the handle's `Transport`: stream, timeouts | write a command byte, wait for `RPC_READY`, write path and arguments, read the reply; a Try/Catch around each |
| Request handlers | `luarpc_protocol.c` `rpc_dispatch_worker`, `read_cmd_call`, `read_cmd_get`, `read_cmd_newindex` | the worker's `Transport`, `must_die` | read a command byte, answer `RPC_READY`, read the body, execute, reply; on an exception mark the worker for removal |
| Server loop | `luarpc.c` `rpc_server`, `rpc_dispatch_accept`, `transport_*_list`; `luarpc_socket.c` `transport_select`, `transport_accept` | the list of transports, `is_set`, `must_die`, the loop's `node` | select, dispatch the readable workers, reap the dying ones, accept one connection |
| Negotiation, number codec | `luarpc_protocol.c` `client_negotiate`, `server_negotiate`, `transport_read/write_number`, `..._uint32_t` | `net_little`, `lnum_bytes`, `net_intnum` of each end | header exchange; encode and decode |
| Socket transport | `luarpc_socket.c` | `FILE*` with its buffers (`"r+"`), `O_NONBLOCK` descriptor, `timeout` | read, write, flush, open, listen, accept, close |
| Variable marshalling | `luarpc_protocol.c` `write_variable`, `read_variable`, `..._table`, `..._function` | none of its own | recursive encoding of Lua values |
| Remote paths | `luarpc_protocol.c` `helper_index`, `helper_append`, `helper_remote_index`, `strtok` loops of the handlers | `Helper.nparents`, `parent`, `funcname` | build `a.b.c`, send it, walk it |
| Handles and garbage collection | `luarpc.c` `rpc_client`, `rpc_close`; `luarpc_protocol.c` `handle_gc`, `helper_close` | `fd`, `file`, registry references | create, use, close, collect |
| Exceptions | `cexcept.h` | `the_exception_context` (a chain of `jmp_buf`s) | Try, Throw, Catch; Lua errors that pass by |
| Timeouts | `luarpc.c` `rpc_wait_timeout`, `rpc_com_timeout` | `wait_timeout`, `com_timeout`, `timeout` | set; consumed by `select` |
| Error handler | `luarpc.c` `rpc_on_error`, `luarpc_protocol.c` `deal_with_error` | the registered handler | set, call |
| Serial transport | `luarpc_serial.c`, `serial_*.c` | a port | does not compile against the present `Transport` |

### How they interact

A client's request is an exchange of four messages with one worker of the
server: command byte, `RPC_READY`, body, reply. Each end sees the connection
through one stdio stream opened `"r+"` on a non-blocking socket: writes stay in
the stream until a flush or a read, and a read may take more than it was asked
for and keep the rest. When a read finds nothing, `transport_read_buffer` waits
in `select` for at most the transport's `timeout` and throws. Exceptions end in
the Catch of the request (client: the error handler or a Lua error, and the
handle stays usable) or of the dispatch (server: `must_die`). The server is one
thread: while it serves one worker all others wait, and its list of transports
changes only between the passes over it and during the reaping pass.

### What is hard, and what correctness means

* **A handle outlives its errors.** Nothing in a reply says which request it
  answers. After a timeout the late `RPC_READY` or reply of the earlier request
  is still to come, and the body that the worker expects never does. *Correct:*
  a request that returned without an error was executed as asked, once, and got
  its own reply; none is executed twice; no bytes of a client end the server.
* **One stream, two directions.** Writing on a stream with unread input is
  undefined in ISO C. *Correct:* it does not happen.
* **An argument that cannot be sent** raises a Lua error in the middle of a body.
  *Correct:* what was written of it is never executed.
* **Everyone waits for everyone**: client and worker wait for each other's
  bytes, and the loop waits for one worker. *Correct:* without failures every
  request is answered; with them every read ends and every abandoned worker is
  freed; a client cannot hold up the others for ever.
* **The list changes while it is walked.** *Correct:* it stays a ring of exactly
  the allocated workers, `node` never points to freed memory, a dying worker
  is not served again.
* **Readiness grows stale.** `is_set` is what `select` saw before other workers
  were served. *Correct:* no command read and no accept blocks the loop.
* **C pointers into collected memory.** A helper points to its handle and its
  parent helper with pointers Lua does not see, and handles are closed by hand, by
  the collector, or both. *Correct:* what a helper in memory points to is in memory;
  references of the registry are neither lost nor returned twice; a stream is
  closed once and not used afterwards; what the program gave up gets closed.
* **Two computations of one configuration.** The server computes its own
  configuration and the header it answers apart. *Correct:* both ends end up
  with the same, both support it, and everything arrives as it was sent.
* **Two loops over a chain of pointers.** The length of a path is summed up
  backwards, its names are written forwards, and values are nested without
  lengths. *Correct:* reader and writer agree on where each string, value and
  container ends, and the server looks up the names the program wrote.
* **Two ways out of a function.** Exceptions jump to the Catch, Lua errors to the
  `pcall`, over any Try between. *Correct:* what is thrown in a Try is caught
  there.
* **A time that several share.** `select` takes what it waited from
  `tpt->timeout`, and only some requests set it again. *Correct:* every request
  ends; what is promised as the time of a call is that of the call.

The full list, with the line at which each hazard bites and the property that
would catch it, is under `hazards` in `PROJECT.json`.

## 2. The modules

| module | content |
|---|---|
| `RemoteCall` | abstract specification: requests issued one at a time, executed at most once and as asked, answered after execution, nothing asked after a failure |
| `RpcSession` | one client handle and its worker, from negotiation to close |
| `RpcSessionProofs` | theorems about `RpcSession`, and that it implements `RemoteCall`, for programs that give a handle up at its first link error; in a second part, theorems for programs that go on using it |
| `ServerLoop` | `rpc_server` with its list, any number of connections |
| `ServerLoopProofs` | theorems about `ServerLoop`, and about its passes by way of a history variable |
| `Negotiation` | the header exchange, and lengths and numbers after it |
| `NegotiationProofs` | theorems about `Negotiation` |
| `Handles` | the userdata of one client process: handles, helpers, registry references, the collector |
| `HandlesProofs` | theorems about `Handles` |
| `RemotePath` | helpers, and both loops of `helper_remote_index` |
| `RemotePathProofs` | theorems about `RemotePath` and, on top of them, about the paths of `RequestBody` |
| `RequestBody` | the bodies of one request and its reply: `RemotePath` composed with the writer and the reader of values and with the handlers' walk of the path |
| `RequestBodyProofs` | theorems about the values in `RequestBody`, on top of `RemotePathProofs` |
| `ExceptionContext` | Try, Throw and Catch, Lua errors, `rpc.on_error`, over the C stack of one process |
| `ExceptionContextProofs` | theorems about `ExceptionContext` |
| `TimeoutBudget` | the time a `Transport` has left, for a handle and for a worker |
| `TimeoutBudgetProofs` | theorems about `TimeoutBudget` |
| `MCServerLoop`, `MCRequestBody`, `MCTimeoutBudget` | the instances that TLC checks |

In every module the definitions marked "Mutant" are not part of the model: each
is a plausible bug, put in place of the definition that follows it to see that a
property notices (`mutants` in `PROJECT.json`).

### RpcSession

*State.* The client is at `cpc` (`ready`: waiting for `RPC_READY`; `body`: has it;
`reply`; `failed`: will not use the handle again); `cin` and `cout` are its
stream's unread input and unflushed output, `cjam` says the stream has failed.
The worker has `spc`, `scmd`, `sin`, `sjam`. `c2s` and `s2c` are the flushes
under way. `kind` is the program: the kind of each of its requests, fixed in
Init so that every program over `Kinds` is checked. `outcome`, `answer` and
`ran` are history: what each caller was told, whose reply it took, and how the
server executed each request.

*Data.* A message is a token with the request it belongs to and its first byte,
which is all a reader that expects one byte sees of it. What decides how the
handlers take each other's bytes is kept: an empty path (assignment to a
global), a body cut off by a marshalling error and completed by later command
bytes, a command byte that is read as the length of a path. `CanRun`, `Garbled`, `Crashes`,
`Unreadable` and `NeedsMore` say what a handler does with the bytes it has. `Garbled` is
what it executes without an error although the bytes are not meant for it: a body met by
the handler of another command, one completed by command bytes that are taken for the
values it lacks (`ValueLength` has how many bytes each of them takes), and, in little endian
order, a body whose path is preceded by a stray command byte: the two make a length of 260 and
more, a long body has as many bytes, and `read_cmd_newindex` takes the path that starts
with a zero byte for an empty one, sets a global and acknowledges it. Where the outcome
depends on bytes the model does not keep, all of them are possible.

*Steps.* One action per blocking point. A flush is one token (the library's
bodies fit the 4096 bytes of a stdio buffer, and larger ones arrive as several
reads of one handler without a reply in between); a read takes any number of
the flushes under way. `SwitchJams` lists what a write on a stream with unread
input may do: TRUE, it fails from then on (glibc), FALSE, the input is dropped
(BSD, musl). `ClosesOnError` is the program's discipline: it stops using a handle
whose request ended in a link error.

### ServerLoop

*State.* `next`, `prev` are the links; `live` the nodes and transports allocated;
`isSet`, `mustDie` the flags; `cursor` the variable `node`; `phase` where the loop
is, with `command` and `body` inside `rpc_dispatch_worker` and `negotiate`
inside `rpc_dispatch_accept`; `backlog` is the kernel's queue; `wire` what a
connection has to read and `hungUp` whether its client has gone. Between any two
steps of the loop every client may connect, send, hang up, or, once its worker
is freed, connect again. `transport_select` ignores a failing `select`, which
is modelled as not returning. Accepting follows Linux: a connection whose client has gone stays in the
backlog and is accepted. `MaxFds` is the descriptors the process has; without one,
`transport_accept` asserts (`AcceptAborts`).

### Negotiation

*State.* `plat` is what each end is compiled for: byte order, size and kind of
its `lua_Number`; `tpt` the configuration in its `Transport`; `chan` what is under
way to it. An encoded number is known by its format, size and byte order and
the number it stands for; a reader that expects another format gets `junk`, and
one that takes another number of bytes has lost its place (`astray`). Numbers
are told apart by what encoding may do to them (small integer, fraction, an
integer above four bytes), lengths are always a `uint32_t`.

### Handles

*State.* `mem` says of each userdata whether it is in memory. `file` is a
`Transport`'s stream: "junk" until it is assigned, since `client_create` sets none of
its fields. `handle`, `parent` and `pref` are a `Helper`'s fields, `registry` what each
reference refers to, `held` what the program can still name, `doomed` what a
cycle of the collector has found unreachable and not finalized yet, `handler`
whether `rpc.on_error` has set one. `dead` says how the process ended, or "no":
"freed" and "dangling" are uses of memory or streams that are gone.

*Steps.* `rpc.client` in its outcomes (`Connect`, `ConnectFails`, `OpenFails`,
`Unresolved`), indexing (`Index`, `Append`), requests with the stream they use
(`Request`, `RequestGet`, `Assign` with its helper that nobody ever names,
`RequestFatal`), `Close`, `OnError`, `Drop` for a variable that goes out of scope,
and the collector: `Mark`, then the finalizers in any order, with the program
running in between. `Request` abstracts the exchange that `RpcSession`
models; what matters here is whose stream it reads and writes. `Events` lists
what may happen to the program beyond failing connections: an argument that
is refused, an unresolved host, no socket left, a closed handle in use, an unreadable
reply, a `get` of a handle's own field. The library does not survive all of them
(`dead`), and each can be switched on alone.

### RemotePath and RequestBody

*State.* `parent`, `nparents` and `funcname` are a `Helper`'s fields; `hstack`, `i`, `len`
the variables of `helper_remote_index`, `of` its argument, `at` where it is. A step
is one round of one of its loops. `said` and `extent` are history: the names the
program indexed with, and how long they are joined by dots. A name is any string that
`client_index` and `helper_index` accept: it may be empty (`handle[""]`) and it may have dots
in it (`handle["d.e"]`). `Wrap` is 256 in the code.

`RequestBody` extends it by `phase`, the request's `kind` and `target`, `todo` (what
`write_variable` has still to write: its recursion as a list), `stream` (the tokens under
way), `open` (what `read_variable` has read, of each container it is in: its recursion
as a stack) and `walk` (the words looked up). `Words` is what `strtok` finds in each name:
the name itself when it has no dot, nothing in an empty one, several words in one with dots.
Since the names of a path are joined by dots, the words of the path are those of its names
(`InWords`): one name of the program is looked up as two when it has a dot in it. A table is
the list of its pairs in the order of `lua_next`. A path token knows whether its length is right; a reader
of one that is wrong ends in `misread`, which stands for whatever it then makes
of the bytes (that is in `RpcSession` and ends there in a Lua error, an
exception, a timeout or the end of the process). A call with one helper of another handle
among its arguments gets the tag only (`WriteElsewhere`). `lua_load` of bytecode
gives the function, or a message when it is of another kind of Lua; a C
function arrives as the function of an empty string. A key that is a helper may lead
to nil at the reader, which `lua_rawset` refuses (`PairRaises`).

`Values` is the set that values and what is in them are taken from, and `Nesting` bounds
how deep tables are nested in any of them. What a value is at the other end (`Same`) is said
level by level down to `Nesting`, as are its `Leaves`: the module declares no RECURSIVE
operator, so that it can be proved about.

### ExceptionContext

*State.* `frames` is the C stack as far as it matters: Lua code under a `pcall`,
functions with a Try (`request`, `connect`, `dispatch`, `accept`), `rpc_server`. Each
keeps what its Try found in `the_exception_context->penv` (`prev`); `penv` is the
context, a buffer known by the height of its frame. `skipped` is history: a Lua
error has come to this Try out of one nested in it. Lua code may do anything at
every height: a function a server calls, or the handler of `rpc.on_error`, makes requests
or starts a server of its own, with or without `pcall`. `ended` is "wild" when a
Throw jumps to a frame that is gone (undefined behaviour, so nothing follows),
"uncaught" when there is none.

### TimeoutBudget

*State.* `com`, `wait` and `left` are `com_timeout`, `wait_timeout` and `timeout` of a
`Transport`, `stage` what its request is doing; `granted`, `spent` and `here` are
history: what `timeout` was last set to, and what was waited since, and in this
stage. Each stage waits for up to `MaxPieces` pieces, and each piece comes after
any part of what is left, or not at all. That `select` leaves the rest is Linux's.

## 3. The runs

| run | question | distinct states |
|---|---|---|
| `session_disciplined` | with a program that gives a handle up at its first link error: types, no undefined switch, a refused request never runs, and `RemoteCall` (ok means executed) is implemented | 18,559 |
| `session_retry_glibc` | with a program that goes on using the handle, where the stream fails: a false ok only for an assignment that follows a failed one | 979,203 |
| `session_retry_any` | with such a program and either C library: no request twice, nothing executed after its answer, an idle worker at a command boundary, every request returns, abandoned workers reaped | 119,969 |
| `session_live` | without timeouts and faults: every request answered, none ends the server | 2,693 |
| `server` | ring, cursor, doomed workers, no blocking but in select; every connection taken, every command read, every worker of a gone client freed | 388,068 |
| `negotiation_uniform` | doubles and four byte integers, both byte orders, two protocol versions: agreement, framing, values, and a client learns that it was refused | 37,320 |
| `handles` | with every event: pointers of helpers, references, no use after close or collection, and every given up connection closed | 1,528,019 |
| `bodies` | reader and writer agree on values and containers; the words looked up are those of the names indexed with, in order; whatever is misread has one of two known reasons | 1,473,336 |
| `exceptions` | a Try catches its exceptions exactly when no Lua error came to it out of a nested Try | 94,006 |
| `timeouts` | what each stage of a call may wait, and that every request ends | 3,887 |
| `handles_closed` | violated: a request on a closed handle is not refused | |
| `path_length` | violated: the length sent with a path is not that of the path | |

Bounds. `MaxReq` is 3 (4 for glibc): one request that times out, one that meets
what it left, and one that meets what both left; kinds and interleavings are
all tried. Three connections make every position of a removal in the ring (first,
last, neighbours, the only one), with two descriptors so that the last
accept can fail; one of the clients (`Mixed`) sends anything, the others send
commands, stop in the middle of them, or hang up. `MaxSent` is 2: each end writes
an item and the next one, whose position depends on the first. Two handles and a chain of three helpers are
enough for a parent that is itself a child, for helpers of two handles and for
collections in every order; there are as many references as helpers, and since
each object is made once, an object is never mistaken for the next one at its
address. In `bodies` `Wrap` is 3 and there are four helpers, so that a chain has
none, one, two and too many parents, with each of three names at every place: an
empty one, one that is a word, and one that is as long but two words, so that the order
of the words, and which of them are whose, shows; the helpers are alike (symmetry). The values hold every type, tables
and functions in tables, an empty table, and tables two deep, where a wrong end
mark of the inner one shows in the outer one. In `path_length` three helpers
and names of three lengths are enough to find a path that is too short and one that is
too long. `MaxDepth` is 7, which has room for a server's function that makes a
request whose handler makes another request. `MCTimes` are a negative time, none,
and times below, at and above the default 2;
two pieces in a stage are enough for one that leaves some time and one that
takes the rest. Deadlock is not checked, because programs end:
a client owes no request, a server without clients sleeps, and the bounds stop
both. That no end waits without need is checked by the liveness properties
instead.

Fairness. In `RpcSession` each blocking point of the client is fair, since a
request runs to its end in the client's thread and a read ends by bytes, by
end of file or by `select`'s timeout; so is the worker's next step. Nothing
makes the program issue or close anything. `ClientTimeout` is fair only where
`Timeouts` holds; in `session_live` it is disabled, so that answers come from
the protocol and not from a timeout. In `ServerLoop` only the server's next step is
fair: clients owe nothing, so whatever the loop needs from a client must end
by a timeout (`BodyLost`, `NegotiateFails`). In `Negotiation` the header exchange
is fair and the timeouts are not. In `Handles` only the collector is fair: it
goes on while the program does, in as many cycles as a chain of helpers needs. In
`TimeoutBudget` time passes (a wait that nothing ends comes to its timeout) and
a process whose bytes are there goes on; no peer owes a byte, and no program a request.

### What the violated runs show

* `handles_closed`: `rpc_close` promises a Lua error for a handle that is used
  after it was closed (`luarpc.c:187`); `transport_close` keeps `fd`, so the check
  passes and stdio is given a null stream.
* `path_length`: `helper_remote_index` adds up the names from the helper
  backwards, and in each round adds the one it starts from (`luarpc_protocol.c:814`):
  for `h.a.bcd.e` it announces 1 + 4 + 4 characters where 2 + 4 + 1 follow. It is
  right only with at most one parent, or a first and a last of equal length. The theorem
  `LengthError` says by how much it is wrong otherwise, for chains of any length.

### What other values of the constants show

These are not runs of their own; each line can be tried by changing the cfg
it names. The properties hold in the runs as they are listed.

* `OkUnlessOvertaken` in `session_retry_glibc.cfg`, with `SwitchJams = {FALSE}`: a get
  times out before the worker has come to it. The worker then finds two command bytes,
  takes the get's, and its `RPC_READY` is written over the second, that of an
  assignment, which such a C library drops. The client takes the `RPC_READY` for
  the assignment's, the body of the assignment is read as that of the get, and the
  `RPC_NIL` the get answers is taken for the zero that ends an assignment
  (`luarpc_protocol.c:984`, where `luarpc_protocol.c:1208` has "0 to indicate no error
  and that we're done"): it returns without an error, and nothing was assigned. With glibc
  the stream fails at that write instead: that the library is safe there is luck.
* `OkMeansExecuted` in `session_retry_glibc.cfg`: what the case is that `OkUnlessOvertaken`
  leaves. An assignment times out when the worker has its command byte and waits for
  the body. The next assignment's command byte comes first, so that the worker takes it
  for the first byte of the length of the path; in little endian order the length is
  that byte and 256 times the length that follows. A body of that many bytes is read
  through, its path begins with a zero byte, a key and a value are read out of the middle of
  what is left of it, a global is set, and the zero that acknowledges it is the answer to the second
  assignment: it returns without an error, and something else was assigned. A call and a
  get cannot be deceived in this way, since the only garbled answer that a client
  accepts is that zero.
* `ServerSurvives` in `session_live.cfg`, with `Timeouts = TRUE`: any request retried
  after a timeout does it. The worker
  is in the first command's body and takes the retry's command byte for the
  first byte of a path's length. In big endian order that is a length that
  overflows the stack of `alloca`; in little endian order an assignment to a global
  has an empty path, for which `strtok` gives NULL to `lua_getglobal`. The
  process dies, with every other connection, although `luarpc_rpc.h:22` speaks
  of a connection reset after framing errors. The client may also be the one to
  end: `MisreadReply` has the outcome that a number is taken for the length of
  an error's text.
* `NumbersFramed` in `negotiation_uniform.cfg`, with `FloatBytes = {4, 8}`: the size
  agreed on ("lowest common denominator", `luarpc_protocol.c:665`) is not the size
  that `transport_write_number` writes (`luarpc_protocol.c:274`), when an end has floats
  of four bytes. With `IntBytes = {4, 8}` `ArrivesAsSent` fails too:
  `luarpc_protocol.c:228` reads its own size from a buffer of the size agreed on.
* `ended # "wild"` in `exceptions.cfg`, with `MaxDepth = 5`: after a Lua
  error has left the Try of a request for a `pcall` inside another Try (a server
  whose function catches the error of a request it makes), the next
  exception of the outer one jumps to a frame that is gone. Without nesting the
  same is seen when a program catches the error of a call and then starts
  `rpc.server` on a port in use (`ServerThrows`). `cexcept.h:148` forbids to leave a
  Try by `longjmp`, which is how `luaL_error` leaves it.

Three texts disagree with the code without a run of their own: `PROTOCOL:6` says
one connection is accepted at a time, while `rpc_server` keeps as many as
arrive; and `doc/negotiation.png` shows error replies to a refused header, while
`server_negotiate` throws and closes without a word (`ServerRefuses`; a client
learns of it by the end of file, `ClientLearns`); and `luarpc_protocol.c:1242` would
"allow client to renegotiate active connection", but `server_negotiate` reads again
the command byte that `rpc_dispatch_worker` has consumed, meets the header and
throws, so that the connection is reaped (`RefuseCommand`).

## 4. The proofs

All theorems hold for every value of the constants that the modules' ASSUMEs
admit, and for every length of a run.

**Disciplined sessions** (`RpcSessionProofs`). `TypeCorrect` has no further
hypothesis. The others assume `Disciplined`: the program closes a handle at its first
link error, or there are neither timeouts nor faults (which is what `session_live`
runs). They need it: section 3 has a counterexample without it. The properties are
not inductive, since they say nothing of what is under way. `IInv` adds `History`
(requests before the last one were answered; "unsent" and executed exclude each
other) and `Lockstep`: where the client is determines what both streams and both
directions hold (at most one token in all), and what may be left once the client has
lost interest. From it follow `DisciplinedOkMeansExecuted`,
`DisciplinedNeverSwitchesUnread`, `DisciplinedUnsentNeverRuns`, and step by step
`DisciplinedRefinesRemoteCall`. The proof also shows why `SwitchJams` is irrelevant
there: no stream has unread input when it is written. `Alive` adds that the server
has not ended, by way of `BytesAreHarmless`: what `Lockstep` lets the worker find is
nothing a handler crashes on or misreads. `DisciplinedServerSurvives` follows, with
"lua" not in `Faults`: a Lua error of the code a handler runs does end `rpc_server`.
`Untroubled` is what the absence of failures adds to `Lockstep`.

**Sessions that go on** (`RpcSessionProofs`, second part). After a timeout nothing is in step
any more, and yet, whatever the program retries and whatever the C library does,
`RetryRunsAtMostOnce`, `RetryFramingKept`, `RetryAnswersAreOwn` and
`RetryNoExecutionAfterAnswer` hold, with no hypothesis but the module's own
assumption. The reason is that `RPC_READY` is a permit: the worker writes one for each
command byte it takes, the client sends one body for each it reads, and the worker
is back at a command boundary only when it has consumed a body. `RetryInv` says so of
all that is under way: together there is never more than one permit or body between
the two ends, a permit is the last thing in the client's direction, what the client
waits for as a reply is its own. It has to speak of the worker's buffer, the
connection and the client's buffer as one sequence (`Wire`), of which a step removes a
part or to which it adds one token, since a read may move any number of the flushes
under way. `JamOkUnlessOvertaken` is what `session_retry_glibc` checks: where a write
over unread input fails (FALSE not in `SwitchJams`), ok means executed as asked, but for an
assignment that follows one that came to nothing. Its invariant `JamInv` adds `InStep`: what
the worker executes is the command of a request whose body is the first it meets, and
any other command byte between them is of a later request, for only dropped input can
bring a command and the body of another request together. So a body is executed garbled only
when it is cut (and its request has not returned ok), when it is a get's or a call's that the
handler of an assignment completes (and then the client, which waits for a tag or a
number of results, does not take the zero for one: `Acked`), or when a stray
command byte comes before it: the command being executed is then that of an earlier
assignment, which its caller knows to have failed (`Excused`).

**Server loop** (`ServerLoopProofs`). For any set of connections: `ServerTypes`,
`ListIsOneRing`, `LoopNodeLives`, `DoomedAreReaped`, `BlocksInSelectOnly`. That the
list is one ring is stated without recursion: a part of it that holds the head
and is closed under `next` is the whole. The invariant `LoopInv` uses the same
device for the walks: during dispatch there is a set of nodes still ahead,
closed under `next` up to the head, in which nobody is doomed and what `select`
saw still holds; during reaping there is a set behind, in which nobody is doomed any
more. When a walk reaches the head again the set is the whole ring. The backlog
has each connection once, and what the listener's `is_set` says stays true
because only the loop takes connections away.

`EachPassServesAll` and `EachPassServesOnce` are about a pass of the loop, and need to know what
happened in it: `PassSpec` is `Spec` with a history variable, `served`, the workers dispatched
since `select` returned (`PassIsLoop`: it adds no behaviour). Each worker that `select` saw readable
is dispatched in that pass, and once, whoever else fails in it: so a client that is never
silent holds the others up for one command at a time. The set of nodes passed (`Passed`)
is closed both ways up to the loop's node; when the node is the head again, it is the whole
ring. No run has this history; `EveryCommandRead` checks what follows from it under fairness.

**Negotiation** (`NegotiationProofs`). `NegotiationTypes` and `NegotiationAgrees`
hold for all platforms. `CodecRoundTrip` and `UniformNumbersArrive` assume
`Uniform` (floats of eight bytes, integers of one size), and need it, as
section 3 shows; `UniformNumbersFramed` is the part of the latter about framing. The
invariant `HInv` says for each place of the two ends what is under way: at
first nothing or the client's header, then the server's answer followed by
items encoded under the configuration agreed upon.

**Handles** (`HandlesProofs`). For any number of handles, helpers and
references, under every event: `HandlesTypes`, `HelperPointersLive`,
`RegistryBalanced`, `NoUseAfterFree`. `PointersLive` is not inductive: nothing in it
says why a handle with helpers in memory is not collected. `MemInv` adds that the
references of helpers in memory are exactly those in use (`RefsOwned`), that a
helper's reference is to its parent, or to its handle when it has none (`Linked`),
and that what the program or the registry names is in memory and not doomed
(`Named2`). From a helper its handle is reached along references, parent by
parent, but that every one of them is in memory would need induction over the
chain. `Rooted` does without: every nonempty set of helpers in memory has one
whose parent is not in the set. In the set of all helpers of a handle, that one
has no parent, so its reference is to the handle itself, which is therefore not
doomed.

**Remote paths** (`RemotePathProofs`). For any number of helpers, names of any
length and any width of `nparents`: `LengthError`, `NamesComplete`, `PathTypes` (with
it, that no index leaves `hstack`). What a helper's chain says in all needs no
induction: `HelperOK` says it of one helper by means of the next (what it stands for
is what its parent stands for and its own name), and the loop invariants
(`LengthsOK`, `NamesOK`) of the part of the stack that is filled, or
replayed: the helper at `hstack[k]` stands for the first `k + 1` names. `LengthError` is why
`path_length` is violated and exactly when.

On top of it come the requests. `ReplayInv` adds what `NamesComplete` leaves open,
chains that `nparents` cannot count: `nparents` is the number of parents modulo `Wrap`
(`CountOK`), and the names replayed are as many of the last ones of the chain (`Ends`).
`BodyInv` follows that path through `RequestBody`: the stream of a request starts with
the path of its target, until the handler has read it, and what it then looks up are
the names in it. The helper of the request keeps its path, whatever is written in
between, since nothing but the program makes helpers (`SamePath`). From it follow
`RequestsSendPaths` (a request refines `RemotePath`), `RightNames` (the words that are looked
up are those of the names the program indexed with), and `PathsFit`: the
length of a path is right exactly when `OffByEnds` says so, which is the explanation that
`MisreadExplained` gives of a misread path.

**Values** (`RequestBodyProofs`). For any set of values, any depth of nesting, any lists of
arguments and results and any chains of helpers: `ValuesCross` and `MisreadsExplained`. Nothing
in a stream says how long a table is, so no property of the stream alone says that the two ends
agree. The invariant `Ledger` holds between any two bytes, and is in two halves that meet in what is
to be read next. `Carried` is the writer's: every token of the stream has a list of what was
to be written before it and one after it, which `Wrote` relates as `write_variable` does (a
tag is replaced by what it opens, everything else is taken off), the first of the lists is
all of the values and the last is `todo`. `Taken` is the reader's: every container in `open`
has a list of what there was to be read when it was opened (`Stacked`), of which it has
taken as many as it has read; and the list of an inner one is what its tag opens, followed by
what the outer one was still to read. So the mark that ends the inner one is at the end of its
part, and of no other (`PiecesEnd`), and the two ends are at the same place again when it is
reached (`LeaveOK`). What was read is compared with what was sent in pairs, each of which has its
parts among the pairs (`Crossed`); `SameIs` goes from there down the levels. `Off` is
why a reader may be off: the token after `RPC_REMOTE` is the path of the helper that was to be
written (`RemoteNext`), or of a helper of another handle there is none, and a path is wrong
only where `OffByEnds` says so. `StreamFeeds` is the other part of `MisreadExplained`: while a
reader wants something there is something to read.

Induction over the levels is taken from the well-foundedness of the naturals (`LeastNat`,
`NatSet`): only the theorems of the library with an operator parameter are out of the provers' reach.
`Ledger` quantifies over all lists and is therefore no invariant that TLC could evaluate; that
it is one is shown by its proof alone, and what follows from it is what `bodies` checks.

**Exceptions** (`ExceptionContextProofs`). For any depth: `Catches`. What `penv` is in a Try
depends on what the Trys above it have put back, so `ExcInv` says the same of `penv` and
of every `prev` (`Found`): it is the innermost Try below, or, if that one was
skipped, above it (a frame that is gone or a newer one). No later Try can repair it,
since each puts back what it found. `OutermostErrorsSpareTrys` says what a program must
not do: as long as Lua errors leave no Try but an outermost one (`OutermostOnly`, an
assumption on its steps), everything thrown in a Try is caught by that Try. What `rpc.server`
throws when it cannot open its port is thrown in none, and remains the one exception that may
go uncaught, or to a frame that is gone. A program that makes no requests from inside a server
or a handler keeps to the assumption.

**Timeouts** (`TimeoutBudgetProofs`). For any timeouts: `CallTimes`, and
`WorkerPatience`: a worker waits for no more than one `com_timeout` for the bytes
of all the commands of its life. That is how the code is, not what a program would want: a
worker that has had to wait often enough gives up the next command at once. The invariant
adds that what was waited came out of what was granted (`Ledger`), and that a worker keeps
the times it was created with and makes no calls.

**Only model-checked**: every liveness property (fairness and ENABLED are out of
the prover's reach). Every invariant and every safety property of a passing run is stated by a
theorem, where its hypotheses hold that the section names.

## 5. Not modelled, and the plan

Abstracted everywhere: the text of errors, the contents of values, memory
exhaustion (a failed `malloc` or `alloca`), signals (a write to a socket whose
peer has gone raises SIGPIPE, which the library leaves to its default), and the
`WIN32` branches. The serial transport does not compile and is left out.

Left out of the modules above: names of more than 19 characters (refused before
anything happens); a path or body longer than a stdio buffer, which `RpcSession`
sends in one piece; what a reader makes of a path with the wrong length, of
which `RequestBody` keeps only that it is misread; the finalizers that `lua_close`
runs in an order of its own; a second `rpc.server` after a Lua error has left
the first with its port open; systems whose `select` leaves the timeout as it
was; and the C library's `errno` after a read that got part of what was asked for.

The modules were written in the order of what depends on them: `RpcSession` with
`RemoteCall` (the protocol is the heart of the library), `ServerLoop` (it decides
about all connections), `Negotiation` (the data both rest on), `Handles` (what the
program holds), then what the requests are made of and how they end:
`RemotePath` with `RequestBody`, `ExceptionContext`, `TimeoutBudget`.
The plan is done. What could be added next is in the list of what is left out above: a
path longer than a stdio buffer, and the second `rpc.server` of a process.
