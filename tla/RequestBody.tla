----------------------------- MODULE RequestBody -----------------------------
(***************************************************************************)
(* The body of one request and of its reply, past RPC_READY: the path of   *)
(* the helper, the arguments and the results.  Values cross the wire as    *)
(* tagged bytes, containers between marks, and both write_variable and     *)
(* read_variable are recursive; here the writer keeps a list of what it    *)
(* still has to write, and the reader the containers it is inside of.      *)
(*                                                                         *)
(* The path is RemotePath's.  A helper among the arguments is sent as      *)
(* RPC_REMOTE and its own path, by the same helper_remote_index.           *)
(***************************************************************************)
EXTENDS RemotePath, SequencesExt

CONSTANTS
  Kinds,      \* of requests: "call", "get", "newindex"
  Words,      \* what strtok makes of each name: what is between dots
  Values,     \* that are sent, and those in them
  CallArgs,   \* the lists of arguments it calls with
  NewValues,  \* the values it assigns
  Results,    \* the lists of results of the server's functions
  Nesting     \* how deep tables are nested in any of these

\* A value: nil, a boolean, a number or a string, a function, a C function, a
\* helper of this handle or of another, something that cannot be sent, or a
\* table: its pairs in the order of lua_next.
Value(t) == [t |-> t]
Table(kv) == [t |-> "table", kv |-> kv]
HelperValue(x) == [t |-> "helper", x |-> x]
Key == Value("str")

Plain == {"nil", "bool", "num", "str"}

\* What is in a value: its tables, keys and values alike, are opened as often as
\* they are nested.
Opened(v) ==
  IF v.t = "table" THEN {v.kv[m][j] : m \in 1..Len(v.kv), j \in {1, 2}} ELSE {v}

Levels(v) ==
  LET level[d \in 0..Nesting] ==
        IF d = 0 THEN {v} ELSE UNION {Opened(u) : u \in level[d - 1]}
  IN  level

Leaves(v) == Levels(v)[Nesting]

HelpersIn(vs) ==
  {v.x : v \in {u \in UNION {Leaves(vs[m]) : m \in 1..Len(vs)} : u.t = "helper"}}

IsValue(v) ==
  \/ /\ v.t \in Plain \union {"fun", "cfun", "elsewhere", "userdata"}
     /\ v = Value(v.t)
  \/ v.t = "helper" /\ v = HelperValue(v.x) /\ v.x \in Helpers
  \/ v.t = "table" /\ v = Table(v.kv) /\ v.kv \in Seq(Values \X Values)

ASSUME BodyAssumption ==
  /\ Kinds \subseteq {"call", "get", "newindex"}
  /\ Words \in [Names -> Seq(STRING)]
  /\ \A name \in Names : Len(name) = 0 => Words[name] = <<>>
  /\ \A v \in Values : IsValue(v)
  /\ CallArgs \union Results \subseteq Seq(Values)
  /\ NewValues \union {Key} \subseteq Values
  /\ Nesting \in Nat
  /\ \A v \in Values : \A u \in Leaves(v) : u.t # "table"

VARIABLES
  kind,       \* the request
  target,     \* the helper it is made on
  phase,      \* what the two ends are doing
  sent,       \* the arguments, or the results
  todo,       \* what write_variable still has to write
  stream,     \* the bytes under way
  count,      \* the values the reader expects
  open,       \* what it has read, of each container it is in
  walk        \* the words read_cmd_* has looked up

bodyVars == <<kind, target, phase, sent, todo, stream, count, open, walk>>
allVars == <<pathVars, bodyVars>>

BodyInit ==
  /\ PathInit
  /\ kind = "none" /\ target = NoHelper /\ phase = "program"
  /\ sent = <<>> /\ todo = <<>> /\ stream = <<>>
  /\ count = 0 /\ open = <<>> /\ walk = <<>>

\* The program makes helpers.
Index ==
  /\ phase = "program"
  /\ \/ \E x \in Helpers, name \in Names : Create(x, name)
     \/ \E x, y \in Helpers, name \in Names : IndexHelper(y, x, name)
  /\ UNCHANGED bodyVars

\* helper_call, helper_get and helper_newindex, once the server is ready.
Request(k, x) ==
  /\ phase = "program"
  /\ StartAlone(x) \/ StartNested(x)
  /\ kind' = k
  /\ target' = x
  /\ phase' = "path"
  /\ UNCHANGED <<sent, todo, stream, count, open, walk>>

\* The loops of helper_remote_index.
Replay ==
  /\ phase \in {"path", "remote"}
  /\ AddLength \/ WriteLength \/ WriteName \/ WriteLast
  /\ UNCHANGED bodyVars

Tag(t) == [t |-> t]
PathToken == [t |-> "path", fits |-> claimed = written, names |-> names]

\* The arguments of the request: a get has none, an assignment a key, which
\* helper_newindex wants to be a string, and a value.
Arguments(k) ==
  CASE k = "call"     -> CallArgs
    [] k = "get"      -> {<<>>}
    [] k = "newindex" -> {<<Key, v>> : v \in NewValues}

\* The path is written; a call goes on with the number of arguments.
EndPath ==
  /\ phase = "path"
  /\ PathDone
  /\ \E as \in Arguments(kind) :
       /\ HelpersIn(as) \subseteq made
       /\ sent' = as
       /\ todo' = as
       /\ stream' = <<PathToken>> \o
            (IF kind = "call" THEN <<[t |-> "count", n |-> Len(as)]>> ELSE <<>>)
  /\ phase' = "args"
  /\ UNCHANGED <<kind, target, count, open, walk>>

-----------------------------------------------------------------------------
(* write_variable, at either end.                                          *)

Writing == phase \in {"args", "results"} /\ todo # <<>>

\* The keys and values of a table, in the order of lua_next.
Members(v) == [m \in 1..2 * Len(v.kv) |-> v.kv[(m + 1) \div 2][2 - (m % 2)]]

\* Mutant: a table without its end.
UnpackedOpen(v) == Members(v)

\* write_table: what it has to write after the tag.
Unpacked(v) == Append(Members(v), Value("table_end"))

\* write_function: the bytecode, as a string; lua_dump leaves it empty for a C
\* function.
Dumped(v) ==
  << [t |-> "bytes", dump |-> IF v.t = "cfun" THEN "empty" ELSE "code"],
     Value("function_end") >>

WriteVariable ==
  /\ Writing
  /\ LET v == Head(todo) IN
       \/ /\ v.t \in Plain \union {"bytes", "table_end", "function_end"}
          /\ stream' = Append(stream, v)
          /\ todo' = Tail(todo)
       \/ /\ v.t = "table"
          /\ stream' = Append(stream, Tag("table_begin"))
          /\ todo' = Unpacked(v) \o Tail(todo)
       \/ /\ v.t \in {"fun", "cfun"}
          /\ stream' = Append(stream, Tag("function_begin"))
          /\ todo' = Dumped(v) \o Tail(todo)
  /\ UNCHANGED <<pathVars, kind, target, phase, sent, count, open, walk>>

\* A helper of the handle the request is made on.
WriteHelper ==
  /\ phase = "args"
  /\ todo # <<>> /\ Head(todo).t = "helper"
  /\ StartAlone(Head(todo).x) \/ StartNested(Head(todo).x)
  /\ stream' = Append(stream, Tag("remote"))
  /\ phase' = "remote"
  /\ UNCHANGED <<kind, target, sent, todo, count, open, walk>>

EndHelper ==
  /\ phase = "remote"
  /\ PathDone
  /\ stream' = Append(stream, PathToken)
  /\ todo' = Tail(todo)
  /\ phase' = "args"
  /\ UNCHANGED <<kind, target, sent, count, open, walk>>

\* A helper of another handle: helper_remote_index writes its path to the
\* Transport of that handle, and the tag is all this one gets.
WriteElsewhere ==
  /\ Writing
  /\ Head(todo).t = "elsewhere"
  /\ stream' = Append(stream, Tag("remote"))
  /\ todo' = Tail(todo)
  /\ UNCHANGED <<pathVars, kind, target, phase, sent, count, open, walk>>

\* luaL_error: at the client the body ends here; at the server the loop does.
Unsendable ==
  /\ Writing
  /\ Head(todo).t = "userdata"
  /\ phase' = IF phase = "args" THEN "unsent" ELSE "raised"
  /\ UNCHANGED <<pathVars, kind, target, sent, todo, stream, count, open, walk>>

\* The end of the body, and of the reply.
Flush ==
  /\ phase \in {"args", "results"} /\ todo = <<>>
  /\ phase' = IF phase = "args" THEN "walk" ELSE "reply"
  /\ UNCHANGED <<pathVars, kind, target, sent, todo, stream, count, open, walk>>

-----------------------------------------------------------------------------
(* The path, in read_cmd_call, read_cmd_get and read_cmd_newindex.         *)

\* strtok does not tell the dots between two names from those in a name.
InWords(seq) == FlattenSeq([k \in 1..Len(seq) |-> Words[seq[k]]])

\* Mutant: what the program indexed with is looked up as it is, empty or dotted.
NamesOfAll(path) == path.names

NamesOf(path) == InWords(path.names)

\* A path without a word is for an assignment to a global, when it is empty;
\* otherwise, as with dots alone, strtok gives NULL, and Lua dereferences it.
NoName(path) ==
  /\ NamesOf(path) = <<>>
  /\ ~(kind = "newindex" /\ Len(path.names) = 1 /\ Len(path.names[1]) = 0)

List == [c |-> "list", got |-> <<>>]

\* lua_getglobal and lua_getfield, one for each word.
ReadPath ==
  /\ phase = "walk"
  /\ Head(stream).fits
  /\ ~NoName(Head(stream))
  /\ walk' = NamesOf(Head(stream))
  /\ open' = <<List>>
  /\ IF kind = "call"
     THEN count' = stream[2].n /\ stream' = SubSeq(stream, 3, Len(stream))
     ELSE count' = Len(sent) /\ stream' = Tail(stream)
  /\ phase' = "values"
  /\ UNCHANGED <<pathVars, kind, target, sent, todo>>

\* How a reader ends before its time: it dereferences a null name; or a path
\* leads through what is no table, a Lua error; or the length of a path is
\* wrong, or its bytes went elsewhere, and it takes other bytes for it.
Stops(how) ==
  /\ phase' = how
  /\ UNCHANGED <<pathVars, kind, target, sent, todo, stream, count, open, walk>>

ReadPathFails ==
  /\ phase = "walk"
  /\ IF ~Head(stream).fits THEN Stops("misread")
     ELSE \/ NoName(Head(stream)) /\ Stops("crashed")
          \/ Len(NamesOf(Head(stream))) > 1 /\ Stops("raised")

-----------------------------------------------------------------------------
(* read_variable, at either end.                                           *)

Reading ==
  /\ phase \in {"values", "reply"} /\ open # <<>>
  /\ Len(open) > 1 \/ Len(open[1].got) < count

Push(stack, v) == [stack EXCEPT ![Len(stack)].got = Append(@, v)]

\* luaL_loadbuffer: the function, or a message when the bytecode is not of
\* this Lua's kind.
Loaded(tok) ==
  IF tok.dump = "empty" THEN {Value("empty")} ELSE {Value("fun"), Value("str")}

\* Mutant: lua_rawset takes the value first.
FilledSwapped(c) ==
  IF c.c = "function" THEN c.got[1]
  ELSE Table([m \in 1..Len(c.got) \div 2 |-> <<c.got[2*m], c.got[2*m - 1]>>])

\* What a container is when its end has been read.
Filled(c) ==
  IF c.c = "function" THEN c.got[1]
  ELSE Table([m \in 1..Len(c.got) \div 2 |-> <<c.got[2*m - 1], c.got[2*m]>>])

ReadVariable ==
  /\ Reading /\ stream # <<>>
  /\ LET tok == Head(stream) IN
       \/ tok.t \in Plain /\ open' = Push(open, tok)
       \/ tok.t = "bytes" /\ \E v \in Loaded(tok) : open' = Push(open, v)
       \/ /\ tok.t \in {"table_begin", "function_begin"}
          /\ open' = Append(open, [c |-> IF tok.t = "table_begin" THEN "table"
                                         ELSE "function", got |-> <<>>])
       \/ /\ tok.t \in {"table_end", "function_end"}
          /\ open' = Push(Front(open), Filled(Last(open)))
  /\ stream' = Tail(stream)
  /\ UNCHANGED <<pathVars, kind, target, phase, sent, todo, count, walk>>

PathFollows ==
  Len(stream) > 1 /\ stream[2].t = "path" /\ stream[2].fits

\* read_index: what the path names at the reader.
ReadIndex ==
  /\ Reading /\ stream # <<>> /\ Head(stream).t = "remote"
  /\ PathFollows
  /\ NamesOf(stream[2]) # <<>>
  /\ open' = Push(open, [t |-> "at", names |-> NamesOf(stream[2])])
  /\ stream' = SubSeq(stream, 3, Len(stream))
  /\ UNCHANGED <<pathVars, kind, target, phase, sent, todo, count, walk>>

ReadIndexFails ==
  /\ Reading /\ stream # <<>> /\ Head(stream).t = "remote"
  /\ IF ~PathFollows THEN Stops("misread")
     ELSE \/ NamesOf(stream[2]) = <<>> /\ Stops("crashed")
          \/ Len(NamesOf(stream[2])) > 1 /\ Stops("raised")

\* lua_rawset, of a pair whose key is nothing at the reader.
PairRaises ==
  /\ Reading
  /\ LET c == Last(open) IN
       /\ c.c = "table" /\ Len(c.got) > 0 /\ Len(c.got) % 2 = 0
       /\ c.got[Len(c.got) - 1].t = "at"
  /\ Stops("raised")

\* The reader has all it expects.
ReadAll ==
  /\ phase \in {"values", "reply"} /\ open # <<>>
  /\ Len(open) = 1 /\ Len(open[1].got) = count
  /\ phase' = IF phase = "values" THEN "ran" ELSE "done"
  /\ UNCHANGED <<pathVars, kind, target, sent, todo, stream, count, open, walk>>

-----------------------------------------------------------------------------
(* The reply.                                                              *)

\* The handler has done what it was asked: a call gives a list of results or
\* an error, what is no function an error too, a get one value, and an
\* assignment a zero.
Reply ==
  /\ phase = "ran"
  /\ \/ /\ kind = "call"
        /\ \E rs \in Results :
             sent' = rs /\ stream' = Append(stream, [t |-> "count", n |-> Len(rs)])
     \/ /\ kind = "get"
        /\ \E rs \in Results : Len(rs) = 1 /\ sent' = rs /\ UNCHANGED stream
     \/ /\ kind \in {"call", "newindex"}
        /\ sent' = <<>>
        /\ stream' = Append(stream, Tag(IF kind = "call" THEN "error" ELSE "zero"))
  /\ todo' = sent'
  /\ open' = <<>>
  /\ phase' = "results"
  /\ UNCHANGED <<pathVars, kind, target, count, walk>>

\* lua_settable on what the path leads to, which is no table.
SetRaises ==
  /\ phase = "ran" /\ kind = "newindex" /\ walk # <<>>
  /\ Stops("raised")

ReadReply ==
  /\ phase = "reply" /\ open = <<>>
  /\ IF kind = "get"
     THEN count' = 1 /\ UNCHANGED stream
     ELSE /\ count' = IF Head(stream).t = "count" THEN Head(stream).n ELSE 0
          /\ stream' = Tail(stream)
  /\ open' = <<List>>
  /\ UNCHANGED <<pathVars, kind, target, phase, sent, todo, walk>>

BodyNext ==
  \/ Index
  \/ \E k \in Kinds, x \in Helpers : Request(k, x)
  \/ Replay \/ EndPath
  \/ WriteVariable \/ WriteHelper \/ EndHelper \/ WriteElsewhere \/ Unsendable
  \/ Flush
  \/ ReadPath \/ ReadPathFails
  \/ ReadVariable \/ ReadIndex \/ ReadIndexFails \/ PairRaises \/ ReadAll
  \/ Reply \/ SetRaises \/ ReadReply

BodySpec == BodyInit /\ [][BodyNext]_allVars

-----------------------------------------------------------------------------
\* The names the program made a helper with, or the last ones of a chain that a
\* uint8_t does not count.
Counted(x) ==
  LET all == said[x]
  IN  SubSeq(all, Len(all) - ((Len(all) - 1) % Wrap), Len(all))

\* The path a helper is known by at the server.
Reached(x) == InWords(Counted(x))

\* The handler looks up the words between the dots of the names the program
\* indexed with, in their order: read_cmd_call, read_cmd_get and
\* read_cmd_newindex skip empty names, and take a name with dots, which
\* client_index and helper_index accept, for several.  Of a chain that nparents
\* cannot count they are those of the last names.
RightNameWalked == phase = "ran" => walk = Reached(target)

\* What a value is when it has crossed the wire, apart from what is in it.
Becomes(v, w) ==
  \/ v.t \in Plain /\ w = v
  \/ v.t = "fun" /\ w \in {Value("fun"), Value("str")}
  \/ v.t = "cfun" /\ w = Value("empty")
  \/ v.t = "helper" /\ w = [t |-> "at", names |-> Reached(v.x)]
  \/ v.t = "table" /\ w.t = "table" /\ Len(w.kv) = Len(v.kv)

\* What is in two tables in the same place.
Inside(p) ==
  IF p[1].t = "table" /\ p[2].t = "table"
  THEN {<<p[1].kv[m][j], p[2].kv[m][j]>> :
          m \in DOMAIN p[1].kv \intersect DOMAIN p[2].kv, j \in {1, 2}}
  ELSE {p}

PairLevels(v, w) ==
  LET level[d \in 0..Nesting] ==
        IF d = 0 THEN {<<v, w>>} ELSE UNION {Inside(p) : p \in level[d - 1]}
  IN  level

Same(v, w) ==
  \A d \in 0..Nesting : \A p \in PairLevels(v, w)[d] : Becomes(p[1], p[2])

\* Handlers and callers get the values that were sent, in order and nothing
\* else, and leave nothing in the stream: write_variable and read_variable
\* agree on where each of them ends.
ValuesArrive ==
  phase \in {"ran", "done"} =>
    /\ stream = <<>>
    /\ Len(open[1].got) = Len(sent)
    /\ \A m \in 1..Len(sent) : Same(sent[m], open[1].got[m])

\* The length of its path is wrong.
OffByEnds(x) ==
  /\ nparents[x] > 0
  /\ Len(said[x][Len(said[x]) - nparents[x]]) # Len(said[x][Len(said[x]) - 1])

\* A reader takes bytes for others, or waits for some that are not to come,
\* only after a path of the wrong length, or a helper of another handle among
\* the values.
MisreadExplained ==
  phase = "misread" \/ (Reading /\ stream = <<>>) =>
    \/ \E x \in HelpersIn(sent) \union {target} : OffByEnds(x)
    \/ \E m \in 1..Len(sent) : Value("elsewhere") \in Leaves(sent[m])
=============================================================================
