----------------------------- MODULE ServerLoop -----------------------------
(***************************************************************************)
(* rpc_server: the single thread that accepts connections and serves them  *)
(* all, one command at a time.  It keeps every open transport in a doubly  *)
(* linked ring and goes round it three ways: transport_select marks the    *)
(* readable ones, a first pass dispatches the marked workers, a second one *)
(* removes and frees the workers that must die; then it accepts at most    *)
(* one connection.  Clients act between any two of its steps.              *)
(***************************************************************************)
EXTENDS Naturals, Sequences, FiniteSets

CONSTANTS
  Conns,       \* connections: one whose worker is freed can be made again
  HEAD,        \* the list head
  SERVER,      \* the listening transport
  NIL,         \* no node: the link of a node that is not in the list
  MaxFds,      \* workers the process has file descriptors for
  Commands,    \* what each client sends after negotiating: "cmd", a command of
               \* the library; "con", RPC_CMD_CON again; "junk", another byte
  LuaErrors    \* a Lua error may leave a handler (outside lua_pcall)

ASSUME ServerAssumption ==
  /\ HEAD \notin Conns /\ SERVER \notin Conns /\ HEAD # SERVER
  /\ NIL \notin Conns \union {HEAD, SERVER}
  /\ MaxFds \in Nat
  /\ Commands \in [Conns -> SUBSET {"cmd", "con", "junk"}]
  /\ LuaErrors \in BOOLEAN

VARIABLES
  next, prev,  \* the links of struct transport_node
  live,        \* the workers (node and Transport) allocated and not freed
  isSet,       \* Transport.is_set
  mustDie,     \* Transport.must_die
  phase,       \* where rpc_server is
  cursor,      \* its variable `node'
  fresh,       \* the worker rpc_dispatch_accept negotiates with
  backlog,     \* connections waiting in the kernel, oldest first
  wire,        \* what a connection has to read: nothing, or the start of one
               \* of these (a client waits for the answer before it goes on)
  hungUp       \* the client has closed its end

listVars == <<next, prev, live>>
loopVars == <<isSet, mustDie, phase, cursor, fresh>>
clientVars == <<wire, hungUp>>
vars == <<listVars, loopVars, backlog, clientVars>>

Nodes == {HEAD, SERVER} \union Conns
Linked == {x \in Nodes : next[x] # NIL}
Phases == {"select", "dispatch", "command", "body", "reap", "accept",
           "negotiate", "left", "aborted"}
Stopped == phase \in {"left", "aborted"}

Init ==
  /\ next = [x \in Nodes |-> IF x = HEAD THEN SERVER
                             ELSE IF x = SERVER THEN HEAD ELSE NIL]
  /\ prev = next
  /\ live = {}
  /\ isSet = [x \in Nodes |-> FALSE]
  /\ mustDie = [x \in Nodes |-> FALSE]
  /\ phase = "select"
  /\ cursor = HEAD
  /\ fresh = NIL
  /\ backlog = <<>>
  /\ wire = [c \in Conns |-> "none"]
  /\ hungUp = [c \in Conns |-> FALSE]

-----------------------------------------------------------------------------
(* The list.                                                               *)

\* Mutant: the node after x keeps its old link back.
InsertNoBackLink(x) ==
  /\ next' = [next EXCEPT ![HEAD] = x, ![x] = next[HEAD]]
  /\ prev' = [prev EXCEPT ![x] = HEAD]
  /\ live' = live \union {x}

\* transport_insert_to_list: x goes right after the head.
Insert(x) ==
  /\ next' = [next EXCEPT ![HEAD] = x, ![x] = next[HEAD]]
  /\ prev' = [prev EXCEPT ![x] = HEAD, ![next[HEAD]] = x]
  /\ live' = live \union {x}

\* transport_remove_from_list, then transport_delete (which closes x).
Remove(x) ==
  /\ prev' = [prev EXCEPT ![next[x]] = prev[x], ![x] = NIL]
  /\ next' = [next EXCEPT ![prev[x]] = next[x], ![x] = NIL]
  /\ live' = live \ {x}

\* Mutants: where the walk goes on after a removal.
RemovedFromFreed(x) == next'[x]
RemovedFromSelf(x) == x
RemovedFromNext(x) == next[x]

\* What transport_remove_from_list returns: the node before.
RemovedFrom(x) == prev[x]

\* The kernel forgets a connection closed at both ends.
Forget(c) ==
  /\ wire' = [wire EXCEPT ![c] = "none"]
  /\ hungUp' = [hungUp EXCEPT ![c] = FALSE]

-----------------------------------------------------------------------------
(* The clients.                                                            *)

Unborn(c) ==
  /\ c \notin live
  /\ wire[c] = "none" /\ ~hungUp[c]
  /\ \A i \in 1..Len(backlog) : backlog[i] # c

\* connect(2) succeeds once the connection is in the backlog, before accept;
\* client_negotiate writes its header at once.  Other peers may send anything.
Connect(c) ==
  /\ Unborn(c)
  /\ backlog' = Append(backlog, c)
  /\ \E b \in {"con"} \union Commands[c] : wire' = [wire EXCEPT ![c] = b]
  /\ UNCHANGED <<listVars, loopVars, hungUp>>

\* A command is sent on a negotiated connection when nothing is unanswered.
SendCommand(c) ==
  /\ c \in live /\ c # fresh /\ ~hungUp[c]
  /\ wire[c] = "none"
  /\ ~(phase = "body" /\ cursor = c)
  /\ \E b \in Commands[c] : wire' = [wire EXCEPT ![c] = b]
  /\ UNCHANGED <<listVars, loopVars, backlog, hungUp>>

\* The body follows RPC_READY.
SendBody(c) ==
  /\ phase = "body" /\ cursor = c
  /\ wire[c] = "none" /\ ~hungUp[c]
  /\ wire' = [wire EXCEPT ![c] = "body"]
  /\ UNCHANGED <<listVars, loopVars, backlog, hungUp>>

\* rpc.close, or the end of the client, at any moment.
HangUp(c) ==
  /\ ~Unborn(c) /\ ~hungUp[c]
  /\ hungUp' = [hungUp EXCEPT ![c] = TRUE]
  /\ UNCHANGED <<listVars, loopVars, backlog, wire>>

ClientStep == \E c \in Conns : Connect(c) \/ SendCommand(c) \/ SendBody(c) \/ HangUp(c)

-----------------------------------------------------------------------------
(* The server.                                                             *)

\* Mutant: the listener is left out of the set.
ReadableWorker(x) == x \in Conns /\ (wire[x] # "none" \/ hungUp[x])

Readable(x) ==
  \/ x = SERVER /\ backlog # <<>>
  \/ x \in Conns /\ (wire[x] # "none" \/ hungUp[x])

\* Mutant: is_set is only ever set.
SelectNeverClears ==
  /\ phase = "select"
  /\ \E x \in Linked : Readable(x)
  /\ isSet' = [x \in Nodes |-> isSet[x] \/ (x \in Linked /\ Readable(x))]
  /\ phase' = "dispatch"
  /\ UNCHANGED <<listVars, mustDie, cursor, fresh, backlog, clientVars>>

\* transport_select sleeps until a transport is readable, and sets or clears
\* is_set of each one in the list.
Select ==
  /\ phase = "select"
  /\ \E x \in Linked : Readable(x)
  /\ isSet' = [x \in Nodes |-> IF x \in Linked \ {HEAD} THEN Readable(x) ELSE isSet[x]]
  /\ phase' = "dispatch"
  /\ UNCHANGED <<listVars, mustDie, cursor, fresh, backlog, clientVars>>

\* while( (node = node->next) != transport_list ), first time.
WalkDispatch ==
  /\ phase = "dispatch"
  /\ cursor' = next[cursor]
  /\ phase' = IF next[cursor] = HEAD THEN "reap"
              ELSE IF isSet[next[cursor]] /\ next[cursor] # SERVER THEN "command"
              ELSE "dispatch"
  /\ UNCHANGED <<listVars, isSet, mustDie, fresh, backlog, clientVars>>

\* rpc_dispatch_worker reads a command of the library, answers RPC_READY and
\* goes on to the body, on which the loop waits.
ReadCommand ==
  /\ phase = "command"
  /\ wire[cursor] = "cmd"
  /\ wire' = [wire EXCEPT ![cursor] = "none"]
  /\ phase' = "body"
  /\ UNCHANGED <<listVars, isSet, mustDie, cursor, fresh, backlog, hungUp>>

\* read_cmd_call, read_cmd_get, read_cmd_newindex.
Serve ==
  /\ phase = "body"
  /\ wire[cursor] = "body"
  /\ wire' = [wire EXCEPT ![cursor] = "none"]
  /\ phase' = "dispatch"
  /\ UNCHANGED <<listVars, isSet, mustDie, cursor, fresh, backlog, hungUp>>

\* A Lua error in a handler, outside lua_pcall: no C code above it catches
\* it, and rpc.server returns to the program with its list as it is.
HandlerRaises ==
  /\ LuaErrors
  /\ phase = "body"
  /\ wire[cursor] = "body"
  /\ wire' = [wire EXCEPT ![cursor] = "none"]
  /\ phase' = "left"
  /\ UNCHANGED <<listVars, isSet, mustDie, cursor, fresh, backlog, hungUp>>

\* Mutant: must_die is not set.
DoomForgotten(c) ==
  /\ UNCHANGED mustDie
  /\ phase' = "dispatch"

\* The Catch of rpc_dispatch_worker.
Doom(c) ==
  /\ mustDie' = [mustDie EXCEPT ![c] = TRUE]
  /\ phase' = "dispatch"

\* A byte that is no command is refused with RPC_UNSUPPORTED_CMD; RPC_CMD_CON
\* is left to server_negotiate, which reads the command byte a second time
\* and meets the `L' of the header.
RefuseCommand ==
  /\ phase = "command"
  /\ wire[cursor] \in {"con", "junk"}
  /\ wire' = [wire EXCEPT ![cursor] = "none"]
  /\ Doom(cursor)
  /\ UNCHANGED <<listVars, isSet, cursor, fresh, backlog, hungUp>>

\* End of file.
CommandEof ==
  /\ phase = "command"
  /\ wire[cursor] = "none" /\ hungUp[cursor]
  /\ Doom(cursor)
  /\ UNCHANGED <<listVars, isSet, cursor, fresh, backlog, clientVars>>

\* Mutant: the read of a body has no timeout.
BodyLostEof ==
  /\ phase = "body"
  /\ wire[cursor] = "none" /\ hungUp[cursor]
  /\ Doom(cursor)
  /\ UNCHANGED <<listVars, isSet, cursor, fresh, backlog, clientVars>>

\* End of file or worker->timeout while the body is awaited.
BodyLost ==
  /\ phase = "body"
  /\ wire[cursor] = "none"
  /\ Doom(cursor)
  /\ UNCHANGED <<listVars, isSet, cursor, fresh, backlog, clientVars>>

\* The second walk: transport_remove_from_list gives the node before, from
\* which the walk goes on.
WalkReap ==
  /\ phase = "reap"
  /\ LET x == next[cursor] IN
       \/ /\ x = HEAD
          /\ cursor' = x
          /\ phase' = "accept"
          /\ UNCHANGED <<listVars, clientVars>>
       \/ /\ x # HEAD /\ ~mustDie[x]
          /\ cursor' = x
          /\ UNCHANGED <<phase, listVars, clientVars>>
       \/ /\ x # HEAD /\ mustDie[x]
          /\ Remove(x)
          /\ Forget(x)
          /\ cursor' = RemovedFrom(x)
          /\ UNCHANGED phase
  /\ UNCHANGED <<isSet, mustDie, fresh, backlog>>

NoAccept ==
  /\ phase = "accept"
  /\ ~isSet[SERVER]
  /\ phase' = "select"
  /\ UNCHANGED <<listVars, isSet, mustDie, cursor, fresh, backlog, clientVars>>

\* rpc_dispatch_accept: transport_create clears the worker's flags, it goes
\* into the list, and transport_accept takes the oldest connection.
Accept ==
  /\ phase = "accept"
  /\ isSet[SERVER]
  /\ Cardinality(live) < MaxFds
  /\ backlog # <<>>
  /\ fresh' = Head(backlog)
  /\ backlog' = Tail(backlog)
  /\ Insert(Head(backlog))
  /\ isSet' = [isSet EXCEPT ![Head(backlog)] = FALSE]
  /\ mustDie' = [mustDie EXCEPT ![Head(backlog)] = FALSE]
  /\ phase' = "negotiate"
  /\ UNCHANGED <<cursor, clientVars>>

\* Without a file descriptor left, accept(2) fails, and transport_accept asserts.
AcceptAborts ==
  /\ phase = "accept"
  /\ isSet[SERVER]
  /\ Cardinality(live) >= MaxFds
  /\ phase' = "aborted"
  /\ UNCHANGED <<listVars, isSet, mustDie, cursor, fresh, backlog, clientVars>>

\* server_negotiate: RPC_CMD_CON and the header.
Negotiate ==
  /\ phase = "negotiate"
  /\ wire[fresh] = "con"
  /\ wire' = [wire EXCEPT ![fresh] = "none"]
  /\ fresh' = NIL
  /\ phase' = "select"
  /\ UNCHANGED <<listVars, isSet, mustDie, cursor, backlog, hungUp>>

\* Any other byte, another version, end of file or a timeout: the worker is
\* removed and freed in the Catch of rpc_dispatch_accept.
NegotiateFails ==
  /\ phase = "negotiate"
  /\ Remove(fresh)
  /\ Forget(fresh)
  /\ fresh' = NIL
  /\ phase' = "select"
  /\ UNCHANGED <<isSet, mustDie, cursor, backlog>>

ServerStep ==
  \/ Select \/ WalkDispatch \/ ReadCommand \/ Serve \/ HandlerRaises
  \/ RefuseCommand \/ CommandEof \/ BodyLost \/ WalkReap
  \/ NoAccept \/ Accept \/ AcceptAborts \/ Negotiate \/ NegotiateFails

Next == ClientStep \/ ServerStep

Spec == Init /\ [][Next]_vars

\* The loop runs as long as the process; clients owe nothing.
FairSpec == Spec /\ WF_vars(ServerStep)

-----------------------------------------------------------------------------
TypeOK ==
  /\ next \in [Nodes -> Nodes \union {NIL}]
  /\ prev \in [Nodes -> Nodes \union {NIL}]
  /\ live \subseteq Conns
  /\ isSet \in [Nodes -> BOOLEAN]
  /\ mustDie \in [Nodes -> BOOLEAN]
  /\ phase \in Phases
  /\ cursor \in Nodes
  /\ fresh \in Conns \union {NIL}
  /\ backlog \in Seq(Conns)
  /\ wire \in [Conns -> {"none", "cmd", "con", "junk", "body"}]
  /\ hungUp \in [Conns -> BOOLEAN]

\* Both directions agree, and the nodes linked are the head, the listener and
\* the workers allocated: no freed worker is reachable, no allocated one lost.
RingIntact ==
  /\ Linked = {HEAD, SERVER} \union live
  /\ \A x \in Nodes : (next[x] = NIL) = (prev[x] = NIL)
  /\ \A x \in Linked : prev[next[x]] = x /\ next[prev[x]] = x

\* No part that holds the head and the node after each of its nodes leaves a
\* node out, so a walk from the head meets every node.
Unbroken ==
  \A part \in SUBSET Linked :
    HEAD \in part /\ (\A x \in part : next[x] \in part) => part = Linked

\* The list of transports is one ring of the head, the listener and exactly the
\* workers allocated, through every insertion and every removal in a walk.
OneRing == RingIntact /\ Unbroken

\* rpc_server's `node' never points to freed memory, across removals too,
\* and it is at the head whenever the loop body is not walking.
CursorLives ==
  /\ cursor \in Linked
  /\ phase \in {"select", "accept", "negotiate"} => cursor = HEAD
  /\ phase \in {"command", "body"} => cursor \in live
  /\ phase = "negotiate" => fresh \in live

\* A worker that must die is never dispatched again, and is gone before the
\* loop sleeps in select with its socket.
DoomedNeverServed ==
  /\ phase \in {"command", "body"} => ~mustDie[cursor]
  /\ phase \in {"select", "accept", "negotiate"} => \A c \in live : ~mustDie[c]

\* A dispatched worker still has what select saw.
NeverWaitsForCommand == phase = "command" => Readable(cursor)

AcceptNeverBlocks == phase = "accept" /\ isSet[SERVER] => backlog # <<>>

\* The loop waits for nobody but in select, however long its passes take:
\* rpc_dispatch_worker never waits for a command byte, so that an idle client
\* holds nobody up, and transport_accept finds a connection.
WaitsInSelect == NeverWaitsForCommand /\ AcceptNeverBlocks

\* A connection in the backlog is taken, while the loop runs.
EveryConnectionTaken ==
  \A c \in Conns : (\E i \in 1..Len(backlog) : backlog[i] = c) ~>
                   (c \in live \/ Stopped)

\* A command is read, or its connection ends, whatever the other clients do,
\* while the loop runs: a silent client holds it up for a timeout at most.
EveryCommandRead ==
  \A c \in Conns : (c \in live /\ wire[c] = "cmd") ~>
                   (wire[c] # "cmd" \/ c \notin live \/ Stopped)

\* A worker whose client has gone is freed, while the loop runs.
HungUpFreed == \A c \in Conns : (c \in live /\ hungUp[c]) ~> (c \notin live \/ Stopped)
=============================================================================
