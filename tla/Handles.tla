------------------------------ MODULE Handles ------------------------------
(***************************************************************************)
(* The userdata of one client process: handles made by rpc.client, and the *)
(* helpers that indexing a handle or a helper makes.  A helper points to   *)
(* its handle and its parent helper with C pointers the collector does not *)
(* see; what keeps them in memory is one reference in the Lua registry per *)
(* helper, to its parent, which helper_close returns when the helper is    *)
(* collected.  A handle owns a stdio stream, closed by rpc.close or when   *)
(* the handle is collected.                                                *)
(***************************************************************************)
EXTENDS Naturals, Functions

CONSTANTS
  Handles, Helpers,  \* the userdata the program will ever make
  Refs,              \* references of the registry
  NIL,               \* no object
  Events             \* what happens to the program besides failing
                     \* connections: see AllEvents

\* "argument": rpc.client is given a bad host or port; "resolve": the host is
\* not found; "socket": no socket or no stream is left; "closed": a closed
\* handle is used; "tag": a reply that cannot be read; "get": get of a field
\* of the handle itself.
AllEvents == {"argument", "resolve", "socket", "closed", "tag", "get"}

ASSUME HandlesAssumption ==
  /\ Handles \intersect Helpers = {}
  /\ NIL \notin Handles \union Helpers \union Refs
  /\ Events \subseteq AllEvents

VARIABLES
  mem,       \* each userdata: not made yet, in memory, or collected
  file,      \* Transport.file: "junk" until it is assigned
  handle,    \* Helper.handle
  parent,    \* Helper.parent
  pref,      \* Helper.pref: NIL stands for LUA_REFNIL
  registry,  \* what each reference refers to
  held,      \* what the program can name
  doomed,    \* found unreachable by the collector, not finalized yet
  handler,   \* rpc.on_error has set a handler
  dead       \* what ended the process

vars == <<mem, file, handle, parent, pref, registry, held, doomed, handler, dead>>

Objects == Handles \union Helpers
Alive == {o \in Objects : mem[o] = "alive"}

Init ==
  /\ mem = [o \in Objects |-> "none"]
  /\ file = [h \in Handles |-> "junk"]
  /\ handle = [x \in Helpers |-> NIL]
  /\ parent = [x \in Helpers |-> NIL]
  /\ pref = [x \in Helpers |-> NIL]
  /\ registry = [r \in Refs |-> NIL]
  /\ held = {}
  /\ doomed = {}
  /\ handler = FALSE
  /\ dead = "no"

-----------------------------------------------------------------------------
(* rpc.client.                                                             *)

\* client_create allocates the Transport and sets none of its fields.
Create(h) ==
  /\ dead = "no"
  /\ mem[h] = "none"
  /\ mem' = [mem EXCEPT ![h] = "alive"]
  /\ UNCHANGED <<handle, parent, pref, registry, doomed, handler>>

Connect(h) ==
  /\ Create(h)
  /\ file' = [file EXCEPT ![h] = "stream"]
  /\ held' = held \union {h}
  /\ UNCHANGED dead

\* connect or the negotiation fails: rpc_client raises an error, and nothing
\* names the handle.
ConnectFails(h) ==
  /\ Create(h)
  /\ file' = [file EXCEPT ![h] = "stream"]
  /\ UNCHANGED <<held, dead>>

\* An argument is refused, or there is no socket: the error leaves the Transport
\* as it was allocated.  fdopen sets file to NULL when it fails.
OpenFails(h) ==
  /\ Events \intersect {"argument", "socket"} # {}
  /\ Create(h)
  /\ \/ UNCHANGED file
     \/ "socket" \in Events /\ file' = [file EXCEPT ![h] = "null"]
  /\ UNCHANGED <<held, dead>>

\* deal_with_error raises the error, or calls the handler and returns: then
\* rpc_client goes on to negotiate over whatever file and fd are (if fd is
\* INVALID_TRANSPORT it is the error of a closed transport).
Unresolved(h) ==
  /\ "resolve" \in Events
  /\ Create(h)
  /\ \/ UNCHANGED dead
     \/ handler /\ dead' = "junk"
  /\ UNCHANGED <<file, held>>

-----------------------------------------------------------------------------
(* Helpers.                                                                *)

\* Mutant: no reference is taken.
MakeNoRef(x, owner, h, p) ==
  /\ mem[x] = "none"
  /\ mem' = [mem EXCEPT ![x] = "alive"]
  /\ handle' = [handle EXCEPT ![x] = h]
  /\ parent' = [parent EXCEPT ![x] = p]
  /\ UNCHANGED <<pref, registry>>

\* Mutant: the reference is to the handle, whatever the parent.
MakeRefHandle(x, owner, h, p) ==
  /\ mem[x] = "none"
  /\ mem' = [mem EXCEPT ![x] = "alive"]
  /\ handle' = [handle EXCEPT ![x] = h]
  /\ parent' = [parent EXCEPT ![x] = p]
  /\ \E r \in Refs :
       /\ registry[r] = NIL
       /\ registry' = [registry EXCEPT ![r] = h]
       /\ pref' = [pref EXCEPT ![x] = r]

\* helper_create and helper_append: luaL_ref takes a free reference to owner,
\* the object that was indexed.
Make(x, owner, h, p) ==
  /\ mem[x] = "none"
  /\ mem' = [mem EXCEPT ![x] = "alive"]
  /\ handle' = [handle EXCEPT ![x] = h]
  /\ parent' = [parent EXCEPT ![x] = p]
  /\ \E r \in Refs :
       /\ registry[r] = NIL
       /\ registry' = [registry EXCEPT ![r] = owner]
       /\ pref' = [pref EXCEPT ![x] = r]

\* handle.name
Index(h, x) ==
  /\ dead = "no"
  /\ h \in held
  /\ Make(x, h, h, NIL)
  /\ held' = held \union {x}
  /\ UNCHANGED <<file, doomed, handler, dead>>

\* helper.name
Append(y, x) ==
  /\ dead = "no"
  /\ y \in held
  /\ Make(x, y, handle[y], y)
  /\ held' = held \union {x}
  /\ UNCHANGED <<file, doomed, handler, dead>>

\* A request reads and writes the handle's stream.  rpc.close has made it NULL
\* but kept fd, so TRANSPORT_VERIFY_OPEN finds nothing wrong.
Use(h) ==
  \/ mem[h] # "alive" /\ dead' = "dangling"
  \/ mem[h] = "alive" /\ file[h] = "stream" /\ UNCHANGED dead
  \/ mem[h] = "alive" /\ file[h] = "freed" /\ dead' = "freed"
  \/ "closed" \in Events /\ mem[h] = "alive" /\ file[h] = "null" /\ dead' = "null"

\* helper(...), helper.name = value, and helper.get() of a helper of its own.
Request(x) ==
  /\ dead = "no"
  /\ x \in held
  /\ Use(handle[x])
  /\ UNCHANGED <<mem, file, handle, parent, pref, registry, held, doomed, handler>>

\* helper.name.get() goes to the parent of the helper named get, which a
\* field of the handle does not have.
RequestGet(x) ==
  /\ dead = "no"
  /\ x \in held
  /\ \/ parent[x] = NIL /\ "get" \in Events /\ dead' = "null"
     \/ /\ parent[x] # NIL
        /\ \/ mem[parent[x]] # "alive" /\ dead' = "dangling"
           \/ mem[parent[x]] = "alive" /\ Use(handle[parent[x]])
  /\ UNCHANGED <<mem, file, handle, parent, pref, registry, held, doomed, handler>>

\* handle.name = value: client_newindex makes a helper that takes the handle's
\* place on the stack until the request has been made.
Assign(h, x) ==
  /\ dead = "no"
  /\ h \in held
  /\ Make(x, h, h, NIL)
  /\ Use(h)
  /\ UNCHANGED <<file, held, doomed, handler>>

\* A fatal exception: generic_catch_handler closes the transport and frees it
\* (a userdata), unless deal_with_error has raised an error first.
RequestFatal(x) ==
  /\ "tag" \in Events
  /\ dead = "no"
  /\ x \in held
  /\ file[handle[x]] = "stream"
  /\ handler
  /\ file' = [file EXCEPT ![handle[x]] = "null"]
  /\ dead' = "free"
  /\ UNCHANGED <<mem, handle, parent, pref, registry, held, doomed, handler>>

-----------------------------------------------------------------------------
(* rpc.close, rpc.on_error, and the collector.                             *)

\* Mutant: file keeps its value.
TransportCloseKeeps(h) ==
  \/ file[h] = "null" /\ UNCHANGED <<file, dead>>
  \/ file[h] = "stream" /\ file' = [file EXCEPT ![h] = "freed"] /\ UNCHANGED dead
  \/ file[h] \in {"junk", "freed"} /\ dead' = file[h] /\ UNCHANGED file

\* transport_close.  What a Transport holds that was never opened may be zero.
TransportClose(h) ==
  \/ file[h] \in {"null", "junk"} /\ UNCHANGED <<file, dead>>
  \/ file[h] = "stream" /\ file' = [file EXCEPT ![h] = "null"] /\ UNCHANGED dead
  \/ file[h] = "junk" /\ dead' = "junk" /\ UNCHANGED file

Close(h) ==
  /\ dead = "no"
  /\ h \in held
  /\ TransportClose(h)
  /\ UNCHANGED <<mem, handle, parent, pref, registry, held, doomed, handler>>

OnError ==
  /\ dead = "no"
  /\ handler' = ~handler
  /\ UNCHANGED <<mem, file, handle, parent, pref, registry, held, doomed, dead>>

\* A variable of the program goes out of scope.
Drop(o) ==
  /\ dead = "no"
  /\ o \in held
  /\ held' = held \ {o}
  /\ UNCHANGED <<mem, file, handle, parent, pref, registry, doomed, handler, dead>>

\* A cycle of the collector: what neither the program nor the registry names
\* will be finalized.
Mark ==
  /\ dead = "no"
  /\ doomed' = {o \in Alive : o \notin held \union Range(registry)}
  /\ doomed' # doomed
  /\ UNCHANGED <<mem, file, handle, parent, pref, registry, held, handler, dead>>

\* rpc_close as the __gc of a handle.
CollectHandle(h) ==
  /\ dead = "no"
  /\ h \in doomed
  /\ TransportClose(h)
  /\ mem' = [mem EXCEPT ![h] = "collected"]
  /\ doomed' = doomed \ {h}
  /\ UNCHANGED <<handle, parent, pref, registry, held, handler>>

\* Mutants of helper_close: the reference is not returned; it is returned, and
\* so is the parent's.
CloseHelperLeaks(x) ==
  /\ pref' = [pref EXCEPT ![x] = NIL]
  /\ UNCHANGED registry
CloseHelperAll(x) ==
  /\ pref' = [pref EXCEPT ![x] = NIL]
  /\ registry' = [r \in Refs |->
       IF r = pref[x] \/ (parent[x] # NIL /\ r = pref[parent[x]]) THEN NIL
       ELSE registry[r]]

\* helper_close.
CloseHelper(x) ==
  /\ pref' = [pref EXCEPT ![x] = NIL]
  /\ registry' = [registry EXCEPT ![pref[x]] = NIL]

CollectHelper(x) ==
  /\ dead = "no"
  /\ x \in doomed
  /\ CloseHelper(x)
  /\ mem' = [mem EXCEPT ![x] = "collected"]
  /\ doomed' = doomed \ {x}
  /\ UNCHANGED <<file, handle, parent, held, handler, dead>>

-----------------------------------------------------------------------------
Collector ==
  \/ Mark
  \/ \E h \in Handles : CollectHandle(h)
  \/ \E x \in Helpers : CollectHelper(x)

Next ==
  \/ \E h \in Handles :
       \/ Connect(h) \/ ConnectFails(h) \/ OpenFails(h) \/ Unresolved(h)
       \/ Close(h)
       \/ \E x \in Helpers : Index(h, x) \/ Assign(h, x)
  \/ \E x \in Helpers :
       \/ Request(x) \/ RequestGet(x) \/ RequestFatal(x)
       \/ \E y \in Helpers : Append(y, x)
  \/ OnError
  \/ \E o \in Objects : Drop(o)
  \/ Collector

Spec == Init /\ [][Next]_vars

\* The collector goes on as long as the program does.
FairSpec == Spec /\ WF_vars(Collector)

-----------------------------------------------------------------------------
TypeOK ==
  /\ mem \in [Objects -> {"none", "alive", "collected"}]
  /\ file \in [Handles -> {"junk", "stream", "null"}]
  /\ handle \in [Helpers -> Handles \union {NIL}]
  /\ parent \in [Helpers -> Helpers \union {NIL}]
  /\ pref \in [Helpers -> Refs \union {NIL}]
  /\ registry \in [Refs -> Objects \union {NIL}]
  /\ held \subseteq Objects
  /\ doomed \subseteq Objects
  /\ handler \in BOOLEAN
  /\ dead \in {"no", "junk", "null", "free", "freed", "dangling"}

\* The pointers of a helper in memory lead to memory: its handle, and the
\* helpers helper_remote_index walks through, are not collected before it.
PointersLive ==
  \A x \in Helpers : mem[x] = "alive" =>
    /\ mem[handle[x]] = "alive"
    /\ parent[x] # NIL => mem[parent[x]] = "alive" /\ handle[parent[x]] = handle[x]

\* Each reference of the registry in use belongs to one helper in memory, and
\* each such helper has one: none is lost and none is returned twice.
RefsOwned ==
  /\ \A x \in Helpers : mem[x] = "alive" <=> pref[x] # NIL
  /\ \A r \in Refs : registry[r] # NIL <=> \E x \in Helpers : pref[x] = r
  /\ \A x, y \in Helpers : pref[x] = pref[y] /\ pref[x] # NIL => x = y

\* Whatever the program does, nothing collected is used and no stream is used
\* or closed after it was closed, although close, collection and requests come
\* in any order.
NothingUsedTwice == dead \notin {"freed", "dangling"}

Named(h) == h \in held \/ \E x \in Helpers \intersect held : handle[x] = h

\* A connection the program has given up, with all its helpers, is closed,
\* also when rpc.client failed after opening it: each collection of a helper
\* lets go of its parent.
GivenUpClosed ==
  \A h \in Handles :
    (file[h] = "stream" /\ ~Named(h)) ~> (file[h] = "null" \/ dead # "no")

\* luarpc.c: "it's a lua runtime error to refer to a transport after it has
\* been closed".
ClosedHandleRaises == dead # "null"
=============================================================================
