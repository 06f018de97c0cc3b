----------------------------- MODULE RpcSession -----------------------------
(***************************************************************************)
(* One client handle and the server worker that serves it, from the end of *)
(* the negotiation on: helper_call, helper_get, helper_newindex and        *)
(* rpc_close at one end, rpc_dispatch_worker and the read_cmd_* handlers   *)
(* at the other, over a socket wrapped in a stdio stream ("r+") per end.   *)
(*                                                                         *)
(* A request is two flushes of the client, the command byte and, once the  *)
(* worker has said RPC_READY, the body; a flush arrives whole (it is at    *)
(* most one socket buffer), but a read takes any number of the flushes     *)
(* that are under way, and keeps what it does not need in the stream.      *)
(* What a stream does when it is written with unread input in it is        *)
(* undefined in ISO C: SwitchJams lists the outcomes considered.           *)
(***************************************************************************)
EXTENDS Naturals, Sequences

CONSTANTS
  MaxReq,        \* bound: requests the program makes on the handle
  Kinds,         \* the kinds of request it makes
  SwitchJams,    \* writing on unread input: TRUE, the stream fails from then
                 \* on (glibc); FALSE, the input is dropped (BSD, musl)
  ClosesOnError, \* the program closes a handle at its first link error
  Timeouts,      \* reads may time out
  Faults         \* "marshal": an argument that cannot be sent; "lua": a Lua
                 \* error outside lua_pcall; "crash": the client dies

\* A request is a helper call, a helper get, an assignment to a field of a
\* helper, or an assignment to a field of the handle (a global; its path is
\* empty).
AllKinds == {"call", "get", "newindex", "setglobal"}

ASSUME SessionAssumption ==
  /\ MaxReq \in Nat \ {0}
  /\ Kinds \subseteq AllKinds
  /\ SwitchJams \subseteq BOOLEAN /\ SwitchJams # {}
  /\ ClosesOnError \in BOOLEAN
  /\ Timeouts \in BOOLEAN
  /\ Faults \subseteq {"marshal", "lua", "crash"}

VARIABLES
  kind,      \* the program: the kind of each request, fixed from the start
  n,         \* requests made so far; the last one is request n
  outcome,   \* what each request gave its caller
  answer,    \* the request whose reply each caller took for its own
  cpc,       \* where the client is in helper_call / _get / _newindex
  cin,       \* read but not consumed, in the client's stream
  cout,      \* written but not flushed, in the client's stream
  cjam,      \* the client's stream has failed
  copen,     \* the client's end of the connection is open
  c2s, s2c,  \* under way in each direction
  spc,       \* where the worker is in rpc_dispatch_worker
  scmd,      \* the command byte it is executing
  sin,       \* read but not consumed, in the worker's stream
  sjam,      \* the worker's stream has failed
  sopen,     \* the worker's end is open
  ran        \* how each request was executed: "asked", or "garbled" when the
             \* worker took other bytes for its body

clientVars == <<n, outcome, answer, cpc, cin, cout, cjam, copen>>
serverVars == <<spc, scmd, sin, sjam, sopen, ran>>
vars == <<kind, clientVars, serverVars, c2s, s2c>>

Reqs == 1..MaxReq

CMD_CALL == 1
CMD_GET == 2
CMD_NEWINDEX == 4
READY == 64

Cmd == [k \in AllKinds |->
          CASE k = "call" -> CMD_CALL
            [] k = "get"  -> CMD_GET
            [] OTHER      -> CMD_NEWINDEX]

\* What crosses the wire: its first byte is what a reader that expects one
\* byte gets of it.
Token(t, b, r) == [t |-> t, b |-> b, r |-> r]
Tokens ==
  [t : {"cmd"}, b : {CMD_CALL, CMD_GET, CMD_NEWINDEX}, r : Reqs] \union
  [t : {"body", "cut", "ready", "ack", "value", "rets", "errs", "rest"},
   b : {0, 1, 3, READY}, r : Reqs]

CmdToken(r) == Token("cmd", Cmd[kind[r]], r)
Body(r) == Token("body", 0, r)      \* path, then the arguments or key and value

\* Mutant: an argument that cannot be sent goes as nil before the error.
CutBodyFilled(r) == Body(r)

CutBody(r) == Token("cut", 0, r)    \* the same up to the argument that failed
Ready(r) == Token("ready", READY, r)

\* Mutant: an assignment ends with RPC_DONE.
RepliesDone(c, r) ==
  CASE c = CMD_CALL -> {Token("rets", 0, r), Token("errs", 1, r)}
    [] c = CMD_GET  -> {Token("value", 0, r), Token("value", 3, r)}
    [] OTHER        -> {Token("ack", 66, r)}

\* Replies: the results or the error of a call, a value by its tag (nil is 0)
\* and the zero that ends an assignment.
Replies(c, r) ==
  CASE c = CMD_CALL -> {Token("rets", 0, r), Token("errs", 1, r)}
    [] c = CMD_GET  -> {Token("value", 0, r), Token("value", 3, r)}
    [] OTHER        -> {Token("ack", 0, r)}

\* What is left of a token when its first byte is read.
AfterFirstByte(tok) ==
  IF tok.t \in {"cmd", "ready", "ack"} \/ (tok.t = "value" /\ tok.b = 0)
  THEN <<>>
  ELSE <<Token("rest", 0, tok.r)>>

\* A write to a stream fails if it failed before, or if unread input is in it
\* and the C library fails such a write; otherwise the input is gone.
WriteJams(jam, in) == jam \/ (in # <<>> /\ TRUE \in SwitchJams)

WriteFlows(jam, in) == ~jam /\ (in = <<>> \/ FALSE \in SwitchJams)

ClientGone == cpc \in {"closed", "dead"}
ServerGone == spc \in {"closed", "dead"}

Init ==
  /\ kind \in [Reqs -> Kinds]
  /\ n = 0
  /\ outcome = [r \in Reqs |-> "none"]
  /\ answer = [r \in Reqs |-> 0]
  /\ cpc = "idle"
  /\ cin = <<>> /\ cout = <<>> /\ cjam = FALSE /\ copen = TRUE
  /\ c2s = <<>> /\ s2c = <<>>
  /\ spc = "idle" /\ scmd = 0
  /\ sin = <<>> /\ sjam = FALSE /\ sopen = TRUE
  /\ ran = [r \in Reqs |-> <<>>]

-----------------------------------------------------------------------------
(* The client.                                                             *)

\* A thrown exception is caught by the Try of the request and given to the
\* program, which is left with an open handle.
Settle(r, o) ==
  /\ outcome' = [outcome EXCEPT ![r] = o]
  /\ cpc' = IF o \in {"error", "unsent"} /\ ClosesOnError THEN "failed"
            ELSE "idle"

Send(toks) == c2s' = IF sopen THEN c2s \o toks ELSE c2s

\* helper_wait_ready writes the command byte; reading the answer flushes it,
\* after what an earlier request may have left in the stream.
StartRequest ==
  /\ cpc = "idle"
  /\ n < MaxReq
  /\ n' = n + 1
  /\ cin' = <<>>
  /\ \/ /\ WriteJams(cjam, cin)
        /\ cjam' = TRUE
        /\ Settle(n + 1, "error")
        /\ UNCHANGED <<cout, c2s>>
     \/ /\ WriteFlows(cjam, cin)
        /\ Send(cout \o <<CmdToken(n + 1)>>)
        /\ cout' = <<>>
        /\ cpc' = "ready"
        /\ outcome' = [outcome EXCEPT ![n + 1] = "pending"]
        /\ UNCHANGED cjam
  /\ UNCHANGED <<kind, answer, copen, s2c, serverVars>>

\* Mutant: helper_wait_ready takes any byte for RPC_READY.
ReadReadyUnchecked ==
  /\ cpc = "ready"
  /\ \E m \in 1..Len(s2c) :
       /\ s2c' = SubSeq(s2c, m + 1, Len(s2c))
       /\ cin' = AfterFirstByte(s2c[1]) \o SubSeq(s2c, 2, m)
  /\ cpc' = "body"
  /\ UNCHANGED <<kind, n, outcome, answer, cout, cjam, copen, c2s, serverVars>>

\* helper_wait_ready gets one byte: RPC_READY, or a protocol error.
ReadReady ==
  /\ cpc = "ready"
  /\ \E m \in 1..Len(s2c) :
       /\ s2c' = SubSeq(s2c, m + 1, Len(s2c))
       /\ cin' = AfterFirstByte(s2c[1]) \o SubSeq(s2c, 2, m)
  /\ \/ /\ s2c[1].b = READY
        /\ cpc' = "body"
        /\ UNCHANGED outcome
     \/ /\ s2c[1].b # READY
        /\ Settle(n, "error")
  /\ UNCHANGED <<kind, n, answer, cout, cjam, copen, c2s, serverVars>>

\* helper_remote_index and write_variable; the body leaves the stream at the
\* flush, or at the read of the reply.
SendBody ==
  /\ cpc = "body"
  /\ cin' = <<>>
  /\ \/ /\ WriteJams(cjam, cin)
        /\ cjam' = TRUE
        /\ Settle(n, "error")
        /\ UNCHANGED c2s
     \/ /\ WriteFlows(cjam, cin)
        /\ Send(<<Body(n)>>)
        /\ cpc' = "reply"
        /\ UNCHANGED <<outcome, cjam>>
  /\ UNCHANGED <<kind, n, answer, cout, copen, s2c, serverVars>>

\* write_variable raises a Lua error in the middle of the arguments, past the
\* Catch: what was written so far stays in the stream.
MarshalFails ==
  /\ "marshal" \in Faults
  /\ cpc = "body"
  /\ kind[n] # "get"
  /\ cin' = <<>>
  /\ \/ WriteJams(cjam, cin) /\ cjam' = TRUE /\ UNCHANGED cout
     \/ WriteFlows(cjam, cin) /\ cout' = <<CutBody(n)>> /\ UNCHANGED cjam
  /\ Settle(n, "unsent")
  /\ UNCHANGED <<kind, n, answer, copen, c2s, s2c, serverVars>>

\* How the reader of a reply takes a token: a get takes any value, an
\* assignment any zero, a call a whole result or error.
TakesAsOk(k, tok) ==
  \/ k = "call" /\ tok.t = "rets"
  \/ k = "get" /\ tok.t = "value"
  \/ k \in {"newindex", "setglobal"} /\ tok.b = 0
TakesAsError(k, tok) == k = "call" /\ tok.t = "errs"

\* What the reader leaves of the token it took.
Unread(k, tok) ==
  IF k \in {"newindex", "setglobal"} THEN AfterFirstByte(tok) ELSE <<>>

ReadReply ==
  /\ cpc = "reply"
  /\ \E m \in 1..Len(s2c) :
       /\ s2c' = SubSeq(s2c, m + 1, Len(s2c))
       /\ cin' = Unread(kind[n], s2c[1]) \o SubSeq(s2c, 2, m)
  /\ \/ TakesAsOk(kind[n], s2c[1]) /\ Settle(n, "ok")
     \/ TakesAsError(kind[n], s2c[1]) /\ Settle(n, "raised")
  /\ answer' = [answer EXCEPT ![n] = s2c[1].r]
  /\ UNCHANGED <<kind, n, cout, cjam, copen, c2s, serverVars>>

\* A reply of another shape is read as far as it goes; the rest of what the
\* reader expects never comes, and the read times out.  Or a number is taken
\* for an error: the length of its message, allocated on the stack, ends the
\* client.
MisreadReply ==
  /\ cpc = "reply"
  /\ s2c # <<>>
  /\ ~TakesAsOk(kind[n], s2c[1])
  /\ ~TakesAsError(kind[n], s2c[1])
  /\ s2c' = <<>>
  /\ \/ Settle(n, "error") /\ UNCHANGED copen
     \/ /\ s2c[1].t = "value" /\ s2c[1].b # 0
        /\ cpc' = "dead" /\ copen' = FALSE
        /\ UNCHANGED outcome
  /\ UNCHANGED <<kind, n, answer, cin, cout, cjam, c2s, serverVars>>

\* Mutant: only the reply is waited for with a timeout.
ClientTimeoutReplyOnly ==
  /\ Timeouts
  /\ cpc = "reply"
  /\ Settle(n, "error")
  /\ UNCHANGED <<kind, n, answer, cin, cout, cjam, copen, c2s, s2c, serverVars>>

\* No byte within tpt->timeout: a nonfatal exception.
ClientTimeout ==
  /\ Timeouts
  /\ cpc \in {"ready", "reply"}
  /\ Settle(n, "error")
  /\ UNCHANGED <<kind, n, answer, cin, cout, cjam, copen, c2s, s2c, serverVars>>

\* End of file, or a reset (which drops what was under way) when the worker
\* closed with input unread: a nonfatal exception.
ClientEof ==
  /\ cpc \in {"ready", "reply"}
  /\ ~sopen
  /\ s2c = <<>> \/ c2s # <<>>
  /\ s2c' = <<>>
  /\ Settle(n, "error")
  /\ UNCHANGED <<kind, n, answer, cin, cout, cjam, copen, c2s, serverVars>>

\* rpc.close(handle): fclose flushes what the stream can still write.
Close ==
  /\ cpc \in {"idle", "failed"}
  /\ cpc' = "closed"
  /\ copen' = FALSE
  /\ cout' = <<>>
  /\ Send(IF cjam THEN <<>> ELSE cout)
  /\ UNCHANGED <<kind, n, outcome, answer, cin, cjam, s2c, serverVars>>

ClientCrash ==
  /\ "crash" \in Faults
  /\ ~ClientGone
  /\ cpc' = "dead"
  /\ copen' = FALSE
  /\ UNCHANGED <<kind, n, outcome, answer, cin, cout, cjam, c2s, s2c, serverVars>>

-----------------------------------------------------------------------------
(* The worker.                                                             *)

\* Mutant: must_die is not set.
ReapForgotten ==
  /\ spc' = "idle"
  /\ sin' = <<>>
  /\ UNCHANGED sopen

\* An exception in rpc_dispatch_worker sets must_die: rpc_server reaps the
\* worker before it selects again.
Reap ==
  /\ spc' = "closed"
  /\ sopen' = FALSE
  /\ sin' = <<>>

\* A Lua error, or worse, that nothing in rpc_server catches: the loop is
\* left, its sockets open until the process ends.
Die ==
  /\ spc' = "dead"
  /\ sopen' \in BOOLEAN
  /\ sin' = <<>>

\* A jammed stream can be written to (the bytes stay in it) but not read.
DispatchJammed ==
  /\ spc = "idle" /\ c2s # <<>>
  /\ sjam
  /\ Reap
  /\ UNCHANGED <<kind, clientVars, c2s, s2c, scmd, sjam, ran>>

\* rpc_dispatch_worker: read the command byte, write RPC_READY, which the
\* read of the body flushes.
Dispatch ==
  /\ spc = "idle"
  /\ ~sjam
  /\ \E m \in 1..Len(c2s) :
       /\ c2s' = SubSeq(c2s, m + 1, Len(c2s))
       /\ \/ /\ WriteJams(sjam, SubSeq(c2s, 2, m))
             /\ sjam' = TRUE
             /\ Reap
             /\ UNCHANGED s2c
          \/ /\ WriteFlows(sjam, SubSeq(c2s, 2, m))
             /\ s2c' = Append(s2c, Ready(c2s[1].r))
             /\ spc' = "body"
             /\ sin' = <<>>
             /\ UNCHANGED <<sjam, sopen>>
  /\ c2s[1].t = "cmd"
  /\ scmd' = c2s[1].b
  /\ UNCHANGED <<kind, clientVars, ran>>

IsBody(tok) == tok.t \in {"body", "cut"}
EmptyPath(tok) == IsBody(tok) /\ kind[tok.r] = "setglobal"
Asked(tok) == Cmd[kind[tok.r]]

\* Mutant: a body is executed with the arguments it has.
CanRunCut(c, in) ==
  /\ in # <<>>
  /\ IsBody(in[1])
  /\ c = Asked(in[1])

\* What the handler of command c needs: read_cmd_get a path only, the others
\* what their command says.
CanRun(c, in) ==
  /\ in # <<>>
  /\ IsBody(in[1])
  /\ \/ c = CMD_GET /\ ~EmptyPath(in[1])
     \/ c = Asked(in[1]) /\ in[1].t = "body"

\* Mutant: read_cmd_newindex takes an empty path for a name.
CrashesOnEmpty(c, in) == in # <<>> /\ EmptyPath(in[1])

\* A command byte before a body is the first byte of the length of a path: in
\* big endian order, or with more such bytes, it is too long for the stack, or
\* the handler waits for the rest of it.
LongPath(in) ==
  /\ in[1].t = "cmd"
  /\ Len(in) >= 4 \/ \E i \in 2..Len(in) : IsBody(in[i])

\* An empty path is for CMD_NEWINDEX only: strtok gives NULL, which Lua
\* dereferences.  A command byte before an empty path is such a path too: its
\* length reads as 4, and the name as an empty string.
NoName(c, in) ==
  \/ EmptyPath(in[1]) /\ c # CMD_NEWINDEX
  \/ in[1].t = "cmd" /\ Len(in) > 1 /\ EmptyPath(in[2])

\* Handler c takes bytes of body in[i] for others.  Its path may be read, but a
\* key for the number of arguments, or that number for a key.  Or, in little
\* endian order, one command byte (two before an empty path) and the length of
\* the path make a length of 260 and more, within a long body; the path then
\* begins with a zero byte, and read_cmd_newindex takes it for empty.
Misread(c, in, i) ==
  /\ IsBody(in[i]) /\ kind[in[i].r] # "get"
  /\ \/ /\ i = 1 /\ ~EmptyPath(in[1])
        /\ c # CMD_GET /\ c # Asked(in[1])
     \/ /\ in[1].t = "cmd" /\ c = CMD_NEWINDEX
        /\ i = IF EmptyPath(in[i]) THEN 3 ELSE 2

\* Command bytes after a body that is too short for its handler are read as
\* the values it lacks: GET is the tag of a boolean, CALL that of a number of
\* eight bytes, NEWINDEX that of a table, which no command byte ends.
ValueLength(b, in) ==
  CASE b = CMD_GET  -> 2
    [] b = CMD_CALL -> 9
    [] OTHER        -> Len(in)

\* Where the k-th such value ends, if within in.
ValueEnd(in) ==
  LET end[k \in 0..Len(in)] ==
        IF k = 0 THEN 1
        ELSE IF end[k-1] < Len(in)
             THEN end[k-1] + ValueLength(in[end[k-1] + 1].b, in)
             ELSE Len(in) + 1
  IN end

\* How many values the handler may lack: those of a call from the argument
\* that failed on, the value of an assignment, or both key and value when
\* the body is that of a get.
Lacking(c, in) ==
  {k \in 1..Len(in) :
     \/ c = Asked(in[1]) /\ in[1].t = "cut" /\ (c = CMD_CALL \/ k = 1)
     \/ c = CMD_NEWINDEX /\ kind[in[1].r] = "get" /\ k = 2}

\* What handler c may leave unread when body in[i] is executed as what it is
\* not; the empty set: it is not.
Garbled(c, in, i) ==
  IF Misread(c, in, i) THEN {<<>>, in}
  ELSE IF i # 1 \/ ~IsBody(in[1]) THEN {}
  ELSE {SubSeq(in, p + 1, Len(in)) :
          p \in (2..Len(in)) \cap
                {ValueEnd(in)[k] : k \in Lacking(c, in)}}

CanGarble(c, in) == \E i \in 1..Len(in) : Garbled(c, in, i) # {}

\* The server dies of these: of a nil key, an error of lua_settable, or of a
\* length that does not fit the stack, when other bytes are read for them.
Crashes(c, in) ==
  /\ in # <<>>
  /\ NoName(c, in) \/ LongPath(in) \/ \E i \in 1..Len(in) : Misread(c, in, i)

\* Or they begin with a byte that is no tag: read_variable throws a fatal
\* exception.
Unreadable(c, in) == \E i \in 1..Len(in) : Misread(c, in, i)

\* Otherwise the handler waits for more, as it may when it misreads what it
\* has.
NeedsMore(c, in) ==
  /\ ~CanRun(c, in)
  /\ ~(in # <<>> /\ NoName(c, in))

ServerReads ==
  /\ spc = "body"
  /\ NeedsMore(scmd, sin)
  /\ \E m \in 1..Len(c2s) :
       /\ c2s' = SubSeq(c2s, m + 1, Len(c2s))
       /\ sin' = sin \o SubSeq(c2s, 1, m)
  /\ UNCHANGED <<kind, clientVars, s2c, spc, scmd, sjam, sopen, ran>>

\* Mutant: read_cmd_newindex does not read the value.
LeftOverValue(c, in) == IF c = CMD_NEWINDEX THEN in ELSE Tail(in)

\* What is left unread when the handler has what it needs.
LeftOver(c, in) == IF c # Asked(in[1]) THEN in ELSE Tail(in)

HowRun(c, tok) ==
  IF tok.t = "body" /\ c = Asked(tok) THEN "asked" ELSE "garbled"

\* Mutant: the handler starts again on the bytes it has.
EndCommandAgain ==
  /\ spc' = "body"
  /\ UNCHANGED sin

\* The handler returns: back to the loop, at a command boundary.
EndCommand ==
  /\ spc' = "idle"
  /\ sin' = <<>>

Execute(r, how) == ran' = [ran EXCEPT ![r] = Append(@, how)]

\* The reply leaves at the flush, or never if the stream is jammed.
Reply(r, left) ==
  \/ /\ WriteJams(sjam, left)
     /\ sjam' = TRUE
     /\ UNCHANGED s2c
  \/ /\ WriteFlows(sjam, left)
     /\ \E rep \in Replies(scmd, r) : s2c' = Append(s2c, rep)
     /\ UNCHANGED sjam

\* read_cmd_call, read_cmd_get, read_cmd_newindex: execute and reply.
Run ==
  /\ spc = "body"
  /\ CanRun(scmd, sin)
  /\ Execute(sin[1].r, HowRun(scmd, sin[1]))
  /\ Reply(sin[1].r, LeftOver(scmd, sin))
  /\ EndCommand
  /\ UNCHANGED <<kind, clientVars, c2s, scmd, sopen>>

\* The same when the bytes make sense to the handler, but not theirs.
RunGarbled ==
  /\ spc = "body"
  /\ \E i \in 1..Len(sin) : \E left \in Garbled(scmd, sin, i) :
       /\ Execute(sin[i].r, "garbled")
       /\ Reply(sin[i].r, left)
  /\ EndCommand
  /\ UNCHANGED <<kind, clientVars, c2s, scmd, sopen>>

\* The path does not lead to a table, lua_settable raises an error, or a
\* result cannot be sent: a Lua error outside lua_pcall, perhaps after the
\* call itself.
RunRaises ==
  /\ "lua" \in Faults
  /\ spc = "body"
  /\ \/ /\ CanRun(scmd, sin) \/ CanGarble(scmd, sin)
        /\ UNCHANGED ran
     \/ /\ scmd = CMD_CALL
        /\ CanRun(scmd, sin)
        /\ Execute(sin[1].r, HowRun(scmd, sin[1]))
     \/ /\ scmd = CMD_CALL
        /\ \E i \in 1..Len(sin) :
             /\ Garbled(scmd, sin, i) # {}
             /\ Execute(sin[i].r, "garbled")
  /\ Die
  /\ UNCHANGED <<kind, clientVars, c2s, s2c, scmd, sjam>>

ServerCrashes ==
  /\ spc = "body"
  /\ Crashes(scmd, sin)
  /\ Die
  /\ UNCHANGED <<kind, clientVars, c2s, s2c, scmd, sjam, ran>>

\* The fatal case goes to deal_with_error: the handler set by rpc.on_error,
\* or a Lua error that leaves rpc_server.
ServerFatal ==
  /\ spc = "body"
  /\ Unreadable(scmd, sin)
  /\ Reap \/ Die
  /\ UNCHANGED <<kind, clientVars, c2s, s2c, scmd, sjam, ran>>

\* Mutant: the worker is given another chance, as with MAX_LINK_ERRS.
ServerTimeoutForgives ==
  /\ Timeouts
  /\ spc = "body"
  /\ NeedsMore(scmd, sin)
  /\ EndCommand
  /\ UNCHANGED <<kind, clientVars, c2s, s2c, scmd, sjam, sopen, ran>>

\* No byte within worker->timeout.
ServerTimeout ==
  /\ Timeouts
  /\ spc = "body"
  /\ NeedsMore(scmd, sin)
  /\ Reap
  /\ UNCHANGED <<kind, clientVars, c2s, s2c, scmd, sjam, ran>>

\* The client has gone and everything it sent has been read.
ServerEof ==
  /\ \/ spc = "idle"
     \/ spc = "body" /\ NeedsMore(scmd, sin)
  /\ ~copen
  /\ c2s = <<>>
  /\ Reap
  /\ UNCHANGED <<kind, clientVars, c2s, s2c, scmd, sjam, ran>>

-----------------------------------------------------------------------------
ClientStep ==
  \/ StartRequest \/ ReadReady \/ SendBody \/ MarshalFails
  \/ ReadReply \/ MisreadReply \/ ClientTimeout \/ ClientEof
  \/ Close \/ ClientCrash

ServerStep ==
  \/ DispatchJammed \/ Dispatch \/ ServerReads
  \/ Run \/ RunGarbled \/ RunRaises \/ ServerCrashes \/ ServerFatal
  \/ ServerTimeout \/ ServerEof

Next == ClientStep \/ ServerStep

Spec == Init /\ [][Next]_vars

\* A request runs to its end in the client's thread, and each of its reads is
\* bounded by select; the server's loop runs as long as the process does.
\* The program owes no request and no close.
Fairness ==
  /\ WF_vars(ReadReady)
  /\ WF_vars(SendBody \/ MarshalFails)
  /\ WF_vars(ReadReply \/ MisreadReply)
  /\ WF_vars(ClientTimeout)
  /\ WF_vars(ClientEof)
  /\ WF_vars(ServerStep)

FairSpec == Spec /\ Fairness

-----------------------------------------------------------------------------
TypeOK ==
  /\ kind \in [Reqs -> Kinds]
  /\ n \in 0..MaxReq
  /\ outcome \in [Reqs -> {"none", "pending", "ok", "raised", "error", "unsent"}]
  /\ answer \in [Reqs -> 0..MaxReq]
  /\ cpc \in {"idle", "ready", "body", "reply", "failed", "closed", "dead"}
  /\ cin \in Seq(Tokens) /\ cout \in Seq(Tokens)
  /\ cjam \in BOOLEAN /\ copen \in BOOLEAN
  /\ c2s \in Seq(Tokens) /\ s2c \in Seq(Tokens)
  /\ spc \in {"idle", "body", "closed", "dead"}
  /\ scmd \in {0, CMD_CALL, CMD_GET, CMD_NEWINDEX}
  /\ sin \in Seq(Tokens)
  /\ sjam \in BOOLEAN /\ sopen \in BOOLEAN
  /\ ran \in [Reqs -> Seq({"asked", "garbled"})]

\* A request that returned without an error was executed, as it was asked and
\* once, and what it returned is the reply to it (helper_get,
\* helper_call and helper_newindex check no more than a tag or a zero).
OkMeansExecuted ==
  \A r \in Reqs : outcome[r] = "ok" => ran[r] = <<"asked">> /\ answer[r] = r

Assigns(r) == Cmd[kind[r]] = CMD_NEWINDEX

\* An earlier assignment on the handle came to nothing, as the program knows.
Overtaken(r) ==
  \E q \in 1..(r - 1) : Assigns(q) /\ outcome[q] \in {"error", "unsent"}

\* The same on a handle that is used on after link errors, with one exception:
\* an assignment that follows a failed one may be executed garbled (another
\* key, another value) and acknowledged.  What a call or a get returned is
\* always its own result.
OkUnlessOvertaken ==
  \A r \in Reqs : outcome[r] = "ok" =>
    /\ answer[r] = r
    /\ \/ ran[r] = <<"asked">>
       \/ ran[r] = <<"garbled">> /\ Assigns(r) /\ Overtaken(r)

\* No stream is written while it holds unread input: the only thing that keeps
\* the read/write switches of transport_read_buffer and
\* transport_write_buffer on one "r+" stream defined.
NeverSwitchesUnread ==
  /\ ~cjam /\ ~sjam
  /\ cpc \in {"idle", "body"} => cin = <<>>
  /\ spc = "body" /\ CanRun(scmd, sin) => LeftOver(scmd, sin) = <<>>

\* A request whose arguments could not be sent is never executed, although
\* the first part of it was written to the stream.
UnsentNeverRuns ==
  \A r \in Reqs : outcome[r] = "unsent" => ran[r] = <<>>

\* A request is executed at most once, whatever the program retries.
RunsAtMostOnce == \A r \in Reqs : Len(ran[r]) <= 1

\* rpc_dispatch_worker looks for a command byte only where a command starts.
FramingKept ==
  spc = "idle" /\ ~sjam /\ c2s # <<>> => c2s[1].t = "cmd"

\* The bytes of a request never end the server (its loop serves every other
\* connection too).
ServerSurvives == spc # "dead"

\* A request is never executed after its caller got a reply, even on a handle
\* that earlier timeouts have put out of step.
NoExecutionAfterAnswer ==
  [][\A r \in Reqs : outcome[r] \in {"ok", "raised"} =>
       ran'[r] = ran[r]]_vars

\* Every request returns to the program: each blocking read ends with bytes,
\* end of file, or select's timeout.
EveryCallReturns ==
  \A r \in Reqs : outcome[r] = "pending" ~>
                  (outcome[r] # "pending" \/ cpc = "dead")

\* Without timeouts and faults every request is answered.
EveryCallAnswered ==
  \A r \in Reqs : outcome[r] = "pending" ~> outcome[r] \in {"ok", "raised"}

\* The worker of a client that closed its handle, or died, is reaped.
AbandonedWorkerReaped == ClientGone ~> ServerGone

\* The session of a program that gives up a handle at its first link error is
\* the remote call of the abstract specification.
RC == INSTANCE RemoteCall
        WITH MaxReq <- MaxReq, n <- n, outcome <- outcome, ran <- ran
RCSpec == RC!Spec
=============================================================================
