--------------------------- MODULE HandlesProofs ---------------------------
(***************************************************************************)
(* The memory of a client process, for any number of handles and helpers:  *)
(* one registry reference per helper, to its parent, is enough to keep     *)
(* everything a helper points to in memory, whatever the program holds or  *)
(* drops and whenever the collector runs.                                  *)
(*                                                                         *)
(* A helper's handle may be many parents away.  That every chain of        *)
(* parents ends is stated without induction: a set of helpers in memory    *)
(* that is not empty has one whose parent is not in the set.               *)
(***************************************************************************)
EXTENDS Handles, TLAPS

LiveHelpers == Alive \intersect Helpers

\* What the program or the registry names is in memory, and not doomed.
Named2 ==
  /\ doomed \subseteq Alive
  /\ held \subseteq Alive \ doomed
  /\ \A r \in Refs : registry[r] # NIL => registry[r] \in Alive \ doomed

\* What the reference of a helper in memory refers to.
Owner(x) == IF parent[x] = NIL THEN handle[x] ELSE parent[x]

Linked ==
  \A x \in LiveHelpers :
    /\ handle[x] \in Handles
    /\ registry[pref[x]] = Owner(x)
    /\ parent[x] # NIL => handle[parent[x]] = handle[x]

Rooted == \A S \in SUBSET LiveHelpers : S # {} => \E x \in S : parent[x] \notin S

MemInv ==
  /\ TypeOK /\ RefsOwned /\ Named2 /\ Linked /\ Rooted
  /\ NothingUsedTwice

-----------------------------------------------------------------------------
\* What a reference refers to is not doomed: the parent of a helper in memory,
\* and, at the end of its chain of parents, its handle.
LEMMA Reaches ==
  ASSUME MemInv, NEW x \in LiveHelpers
  PROVE  /\ handle[x] \in Alive \ doomed
         /\ parent[x] # NIL => parent[x] \in LiveHelpers \ doomed
<1>1. \A y \in LiveHelpers : y \in Helpers /\ mem[y] = "alive" /\ pref[y] \in Refs
  BY DEF LiveHelpers, Alive, MemInv, RefsOwned, TypeOK
<1>2. \A y \in LiveHelpers : Owner(y) # NIL
  BY <1>1, HandlesAssumption DEF Owner, MemInv, Linked
<1>3. \A y \in LiveHelpers : Owner(y) \in Alive \ doomed
  BY <1>1, <1>2 DEF MemInv, Linked, Named2
<1>4. \A y \in LiveHelpers : parent[y] # NIL =>
        /\ parent[y] \in LiveHelpers \ doomed
        /\ handle[parent[y]] = handle[y]
  BY <1>1, <1>3 DEF Owner, LiveHelpers, MemInv, TypeOK, Linked
<1> DEFINE S == {y \in LiveHelpers : handle[y] = handle[x]}
<1>5. PICK y \in S : parent[y] \notin S
  <2>1. S \in SUBSET LiveHelpers /\ S # {}
    OBVIOUS
  <2> QED BY <2>1 DEF MemInv, Rooted
<1>6. parent[y] = NIL
  BY <1>4, <1>5
<1>7. Owner(y) = handle[x]
  BY <1>5, <1>6 DEF Owner
<1> QED BY <1>3, <1>4, <1>5, <1>7

\* The pointers of a helper lead to memory.
LEMMA PointersFollow == MemInv => PointersLive
<1> SUFFICES ASSUME MemInv, NEW x \in Helpers, mem[x] = "alive"
             PROVE  /\ mem[handle[x]] = "alive"
                    /\ parent[x] # NIL =>
                         mem[parent[x]] = "alive" /\ handle[parent[x]] = handle[x]
  BY DEF PointersLive
<1>1. x \in LiveHelpers
  BY DEF LiveHelpers, Alive, Objects
<1>2. handle[x] \in Alive /\ (parent[x] # NIL => parent[x] \in Alive)
  BY <1>1, Reaches DEF LiveHelpers
<1>3. parent[x] # NIL => handle[parent[x]] = handle[x]
  BY <1>1 DEF MemInv, Linked
<1> QED BY <1>2, <1>3 DEF Alive

\* At the start nothing is in memory.
LEMMA MemInit == Init => MemInv
<1> SUFFICES ASSUME Init PROVE MemInv
  OBVIOUS
<1>1. Alive = {} /\ LiveHelpers = {}
  BY DEF Init, Alive, LiveHelpers
<1>2. TypeOK
  BY DEF Init, TypeOK
<1>3. RefsOwned
  BY HandlesAssumption DEF Init, RefsOwned, Objects
<1>4. Named2 /\ Linked /\ Rooted /\ NothingUsedTwice
  BY <1>1 DEF Init, Named2, Linked, Rooted, NothingUsedTwice
<1> QED BY <1>2, <1>3, <1>4 DEF MemInv

-----------------------------------------------------------------------------
(* Steps that make and collect nothing.                                    *)

Graph == <<mem, handle, parent, pref, registry>>

\* The graph stands and the program names no more than before.
LEMMA GraphStands ==
  ASSUME MemInv, UNCHANGED Graph, UNCHANGED doomed, held' \subseteq held,
         TypeOK', NothingUsedTwice'
  PROVE  MemInv'
<1>1. Alive' = Alive /\ LiveHelpers' = LiveHelpers
  BY DEF Graph, Alive, LiveHelpers
<1>2. RefsOwned'
  BY DEF MemInv, RefsOwned, Graph
<1>3. Named2'
  BY <1>1 DEF MemInv, Named2, Graph
<1>4. Linked' /\ Rooted'
  BY <1>1 DEF MemInv, Linked, Owner, Rooted, Graph
<1> QED BY <1>2, <1>3, <1>4 DEF MemInv

\* A handle in memory whose stream was opened is closed or goes on; it is
\* never used out of memory or after it was freed.
LEMMA UseIsSafe ==
  ASSUME MemInv, NEW h \in Handles, mem[h] = "alive", Use(h)
  PROVE  dead' \in {dead, "null"}
BY DEF Use, MemInv, TypeOK

LEMMA CloseIsSafe ==
  ASSUME MemInv, NEW h \in Handles, TransportClose(h)
  PROVE  /\ dead' \in {dead, "junk"}
         /\ file' \in [Handles -> {"junk", "stream", "null"}]
BY DEF TransportClose, MemInv, TypeOK

LEMMA MemRequests ==
  ASSUME MemInv, NEW x \in Helpers,
         Request(x) \/ RequestGet(x) \/ RequestFatal(x)
  PROVE  MemInv'
<1>1. x \in LiveHelpers
  BY DEF Request, RequestGet, RequestFatal, MemInv, Named2, LiveHelpers, Alive
<1>2. /\ UNCHANGED Graph /\ UNCHANGED doomed /\ UNCHANGED held
      /\ UNCHANGED handler
  BY DEF Request, RequestGet, RequestFatal, Graph
<1>3. handle[x] \in Handles /\ mem[handle[x]] = "alive"
  BY <1>1, Reaches DEF MemInv, Linked, Alive
<1>4. parent[x] # NIL => /\ mem[parent[x]] = "alive"
                         /\ handle[parent[x]] = handle[x]
  BY <1>1, Reaches DEF MemInv, Linked, LiveHelpers, Alive
<1>5. /\ dead' \in {dead, "null", "free"}
      /\ file' \in [Handles -> {"junk", "stream", "null"}]
  <2>1. CASE Request(x)
    <3>1. dead' \in {dead, "null"}
      BY <1>3, <2>1, UseIsSafe DEF Request
    <3> QED BY <2>1, <3>1 DEF Request, MemInv, TypeOK
  <2>2. CASE RequestGet(x)
    <3>1. CASE parent[x] = NIL
      BY <2>2, <3>1 DEF RequestGet, MemInv, TypeOK
    <3>2. CASE parent[x] # NIL
      <4>1. Use(handle[x])
        BY <1>4, <2>2, <3>2 DEF RequestGet
      <4>2. dead' \in {dead, "null"}
        BY <1>3, <4>1, UseIsSafe
      <4> QED BY <2>2, <4>2 DEF RequestGet, MemInv, TypeOK
    <3> QED BY <3>1, <3>2
  <2>3. CASE RequestFatal(x)
    BY <2>3 DEF RequestFatal, MemInv, TypeOK
  <2> QED BY <2>1, <2>2, <2>3
<1>6. TypeOK' /\ NothingUsedTwice'
  BY <1>2, <1>5 DEF Graph, MemInv, TypeOK, NothingUsedTwice
<1> QED BY <1>2, <1>6, GraphStands

LEMMA MemClose ==
  ASSUME MemInv, NEW h \in Handles, Close(h)
  PROVE  MemInv'
<1>1. /\ UNCHANGED Graph /\ UNCHANGED <<doomed, held, handler>>
      /\ TransportClose(h)
  BY DEF Close, Graph
<1>2. TypeOK' /\ NothingUsedTwice'
  BY <1>1, CloseIsSafe DEF Graph, MemInv, TypeOK, NothingUsedTwice
<1> QED BY <1>1, <1>2, GraphStands

LEMMA MemQuiet ==
  ASSUME MemInv,
         OnError \/ (\E o \in Objects : Drop(o)) \/ UNCHANGED vars
  PROVE  MemInv'
<1>1. /\ UNCHANGED Graph /\ UNCHANGED <<doomed, file, dead>>
      /\ held' \subseteq held /\ handler' \in BOOLEAN
  BY DEF OnError, Drop, vars, Graph, MemInv, TypeOK
<1>2. TypeOK' /\ NothingUsedTwice'
  BY <1>1 DEF Graph, MemInv, TypeOK, NothingUsedTwice
<1> QED BY <1>1, <1>2, GraphStands

-----------------------------------------------------------------------------
(* New objects.                                                            *)

\* A new handle: no reference and no helper has to do with it.
LEMMA MemCreate ==
  ASSUME MemInv, NEW h \in Handles,
         Connect(h) \/ ConnectFails(h) \/ OpenFails(h) \/ Unresolved(h)
  PROVE  MemInv'
<1>1. /\ Create(h)
      /\ held' \subseteq held \union {h}
      /\ file' \in [Handles -> {"junk", "stream", "null"}]
      /\ dead' \in {dead, "junk"}
  BY DEF Connect, ConnectFails, OpenFails, Unresolved, MemInv, TypeOK
<1>2. /\ mem[h] = "none" /\ mem' = [mem EXCEPT ![h] = "alive"]
      /\ UNCHANGED <<handle, parent, pref, registry, doomed, handler>>
  BY <1>1 DEF Create
<1>3. h \in Objects /\ h \notin Helpers /\ h \notin Alive
  BY <1>2, HandlesAssumption DEF Objects, Alive
<1>4. Alive' = Alive \union {h}
  BY <1>2, <1>3 DEF Alive, MemInv, TypeOK
<1>5. LiveHelpers' = LiveHelpers
  BY <1>3, <1>4 DEF LiveHelpers
<1>6. TypeOK' /\ NothingUsedTwice'
  BY <1>1, <1>2, <1>3 DEF MemInv, TypeOK, NothingUsedTwice
<1>7. \A x \in Helpers : mem'[x] = mem[x]
  BY <1>2, <1>3 DEF MemInv, TypeOK, Objects
<1>8. RefsOwned'
  BY <1>2, <1>7 DEF MemInv, RefsOwned
<1>9. Named2'
  BY <1>1, <1>2, <1>3, <1>4 DEF MemInv, Named2
<1>10. Linked' /\ Rooted'
  BY <1>2, <1>5 DEF MemInv, Linked, Owner, Rooted
<1> QED BY <1>6, <1>8, <1>9, <1>10 DEF MemInv

\* A new helper x of owner, which the program names.
LEMMA MemMake ==
  ASSUME MemInv, NEW x \in Helpers, NEW h \in Handles,
         NEW p \in LiveHelpers \union {NIL},
         NEW owner \in held, owner = (IF p = NIL THEN h ELSE p),
         p # NIL => handle[p] = h,
         Make(x, owner, h, p),
         UNCHANGED <<file, doomed, handler>>,
         held' \subseteq held \union {x},
         dead' \in {dead, "null"}
  PROVE  MemInv'
<1>1. PICK r \in Refs : /\ registry[r] = NIL
                        /\ registry' = [registry EXCEPT ![r] = owner]
                        /\ pref' = [pref EXCEPT ![x] = r]
  BY DEF Make
<1>2. /\ mem[x] = "none" /\ mem' = [mem EXCEPT ![x] = "alive"]
      /\ handle' = [handle EXCEPT ![x] = h]
      /\ parent' = [parent EXCEPT ![x] = p]
  BY DEF Make
<1>3. x \in Objects /\ x \notin Alive
  BY <1>2 DEF Objects, Alive
<1>4. Alive' = Alive \union {x}
  BY <1>2, <1>3 DEF Alive, MemInv, TypeOK
<1>5. LiveHelpers' = LiveHelpers \union {x}
  BY <1>4 DEF LiveHelpers
<1>6. owner \in Alive \ doomed /\ owner # NIL /\ owner \in Objects
  BY HandlesAssumption DEF MemInv, Named2, Alive, Objects
<1>7. /\ p \in Helpers \union {NIL} /\ p # x
      /\ \A y \in LiveHelpers : y # x /\ y \in Helpers /\ parent[y] # x
  <2>1. x \notin LiveHelpers /\ x # NIL
    BY <1>3, HandlesAssumption DEF LiveHelpers
  <2>2. \A y \in LiveHelpers : parent[y] # NIL => parent[y] \in LiveHelpers
    BY Reaches
  <2> QED BY <2>1, <2>2 DEF LiveHelpers
<1>8. TypeOK'
  BY <1>1, <1>2, <1>3, <1>6, <1>7 DEF MemInv, TypeOK
<1>9. NothingUsedTwice'
  BY DEF MemInv, NothingUsedTwice
<1>10. \A y \in Helpers : y # x => /\ mem'[y] = mem[y] /\ pref'[y] = pref[y]
                                   /\ handle'[y] = handle[y]
                                   /\ parent'[y] = parent[y]
  BY <1>1, <1>2 DEF MemInv, TypeOK, Objects
<1>11. /\ mem'[x] = "alive" /\ pref'[x] = r /\ handle'[x] = h /\ parent'[x] = p
       /\ registry'[r] = owner
       /\ \A q \in Refs : q # r => registry'[q] = registry[q]
  BY <1>1, <1>2, <1>3 DEF MemInv, TypeOK
<1>12. r # NIL /\ \A y \in Helpers : pref[y] # r
  BY <1>1, HandlesAssumption DEF MemInv, RefsOwned
<1>13. RefsOwned'
  <2>1. \A y \in Helpers : mem'[y] = "alive" <=> pref'[y] # NIL
    BY <1>10, <1>11, <1>12 DEF MemInv, RefsOwned
  <2>2. \A q \in Refs : registry'[q] # NIL <=> \E y \in Helpers : pref'[y] = q
    <3> SUFFICES ASSUME NEW q \in Refs
                 PROVE  registry'[q] # NIL <=> \E y \in Helpers : pref'[y] = q
      OBVIOUS
    <3>1. CASE q = r
      BY <1>6, <1>11, <3>1
    <3>2. CASE q # r
      <4>1. pref[x] # q
        <5>1. pref[x] = NIL
          BY <1>2 DEF MemInv, RefsOwned
        <5> QED BY <5>1, HandlesAssumption
      <4>2. (\E y \in Helpers : pref'[y] = q) <=> (\E y \in Helpers : pref[y] = q)
        BY <1>10, <1>11, <3>2, <4>1
      <4> QED BY <1>11, <3>2, <4>2 DEF MemInv, RefsOwned
    <3> QED BY <3>1, <3>2
  <2>3. \A y, z \in Helpers : pref'[y] = pref'[z] /\ pref'[y] # NIL => y = z
    BY <1>10, <1>11, <1>12 DEF MemInv, RefsOwned
  <2> QED BY <2>1, <2>2, <2>3 DEF RefsOwned
<1>14. Named2'
  <2>1. x \notin doomed
    BY <1>3 DEF MemInv, Named2
  <2>2. doomed' \subseteq Alive' /\ held' \subseteq Alive' \ doomed'
    BY <1>4, <2>1 DEF MemInv, Named2
  <2>3. \A q \in Refs : registry'[q] # NIL => registry'[q] \in Alive' \ doomed'
    BY <1>4, <1>6, <1>11 DEF MemInv, Named2
  <2> QED BY <2>2, <2>3 DEF Named2
<1>15. Linked'
  <2> SUFFICES ASSUME NEW y \in LiveHelpers'
               PROVE  /\ handle'[y] \in Handles
                      /\ registry'[pref'[y]] = Owner(y)'
                      /\ parent'[y] # NIL => handle'[parent'[y]] = handle'[y]
    BY DEF Linked
  <2>1. CASE y = x
    <3>1. Owner(x)' = owner
      BY <1>11 DEF Owner
    <3>2. p # NIL => handle'[p] = h
      BY <1>7, <1>10
    <3> QED BY <1>11, <2>1, <3>1, <3>2
  <2>2. CASE y # x
    <3>1. y \in LiveHelpers /\ y \in Helpers
      BY <1>5, <2>2 DEF LiveHelpers
    <3>2. pref[y] \in Refs /\ pref[y] # r
      BY <1>12, <3>1 DEF LiveHelpers, Alive, MemInv, RefsOwned, TypeOK
    <3>3. Owner(y)' = Owner(y)
      BY <1>10, <2>2, <3>1 DEF Owner
    <3>4. registry'[pref'[y]] = Owner(y)'
      BY <1>10, <1>11, <2>2, <3>1, <3>2, <3>3 DEF MemInv, Linked
    <3>5. parent[y] \in Helpers \union {NIL} /\ parent[y] # x
      BY <1>7, <3>1 DEF MemInv, TypeOK
    <3>6. parent'[y] # NIL => handle'[parent'[y]] = handle'[y]
      BY <1>10, <2>2, <3>1, <3>5 DEF MemInv, Linked
    <3> QED BY <1>10, <2>2, <3>1, <3>4, <3>6 DEF MemInv, Linked
  <2> QED BY <2>1, <2>2
<1>16. Rooted'
  <2> SUFFICES ASSUME NEW S \in SUBSET LiveHelpers', S # {}
               PROVE  \E y \in S : parent'[y] \notin S
    BY DEF Rooted
  <2>1. CASE S \subseteq {x}
    <3>1. x \in S /\ parent'[x] = p
      BY <1>11, <2>1
    <3> QED BY <1>7, <2>1, <3>1
  <2>2. CASE ~(S \subseteq {x})
    <3>1. S \ {x} \in SUBSET LiveHelpers /\ S \ {x} # {}
      BY <1>5, <2>2
    <3>2. PICK y \in S \ {x} : parent[y] \notin S \ {x}
      BY <3>1 DEF MemInv, Rooted
    <3>3. parent'[y] = parent[y] /\ parent[y] # x
      BY <1>7, <1>10, <3>1, <3>2
    <3> QED BY <3>2, <3>3
  <2> QED BY <2>1, <2>2
<1> QED BY <1>8, <1>9, <1>13, <1>14, <1>15, <1>16 DEF MemInv

LEMMA MemHelpers ==
  ASSUME MemInv, NEW x \in Helpers,
         \/ \E h \in Handles : Index(h, x) \/ Assign(h, x)
         \/ \E y \in Helpers : Append(y, x)
  PROVE  MemInv'
<1>1. ASSUME NEW h \in Handles, Index(h, x)
      PROVE  MemInv'
  <2>1. /\ h \in held /\ Make(x, h, h, NIL)
        /\ held' \subseteq held \union {x} /\ dead' \in {dead, "null"}
        /\ UNCHANGED <<file, doomed, handler>>
    BY <1>1 DEF Index
  <2> QED BY <2>1, MemMake
<1>2. ASSUME NEW h \in Handles, Assign(h, x)
      PROVE  MemInv'
  <2>1. /\ h \in held /\ Make(x, h, h, NIL) /\ Use(h)
        /\ held' \subseteq held \union {x}
        /\ UNCHANGED <<file, doomed, handler>>
    BY <1>2 DEF Assign
  <2>2. mem[h] = "alive"
    BY <2>1 DEF MemInv, Named2, Alive
  <2>3. dead' \in {dead, "null"}
    BY <2>1, <2>2, UseIsSafe
  <2> QED BY <2>1, <2>3, MemMake
<1>3. ASSUME NEW y \in Helpers, Append(y, x)
      PROVE  MemInv'
  <2>1. /\ y \in held /\ Make(x, y, handle[y], y)
        /\ held' \subseteq held \union {x} /\ dead' \in {dead, "null"}
        /\ UNCHANGED <<file, doomed, handler>>
    BY <1>3 DEF Append
  <2>2. y \in LiveHelpers /\ y # NIL
    BY <2>1, HandlesAssumption DEF MemInv, Named2, LiveHelpers
  <2>3. handle[y] \in Handles
    BY <2>2 DEF MemInv, Linked
  <2> QED BY <2>1, <2>2, <2>3, MemMake
<1> QED BY <1>1, <1>2, <1>3

-----------------------------------------------------------------------------
(* The collector.                                                          *)

\* What is found unreachable is not named.
LEMMA MemMark == MemInv /\ Mark => MemInv'
<1> SUFFICES ASSUME MemInv, Mark PROVE MemInv'
  OBVIOUS
<1>1. /\ UNCHANGED Graph /\ UNCHANGED <<held, file, handler, dead>>
      /\ doomed' = {o \in Alive : o \notin held \union Range(registry)}
  BY DEF Mark, Graph
<1>2. Alive' = Alive /\ LiveHelpers' = LiveHelpers
  BY <1>1 DEF Graph, Alive, LiveHelpers
<1>3. TypeOK' /\ NothingUsedTwice'
  BY <1>1 DEF Graph, MemInv, TypeOK, NothingUsedTwice, Alive
<1>4. \A r \in Refs : registry[r] \in Range(registry)
  BY DEF Range, MemInv, TypeOK
<1>5. Named2'
  BY <1>1, <1>2, <1>4 DEF MemInv, Named2, Graph
<1>6. RefsOwned' /\ Linked' /\ Rooted'
  BY <1>1, <1>2 DEF MemInv, RefsOwned, Linked, Owner, Rooted, Graph
<1> QED BY <1>3, <1>5, <1>6 DEF MemInv

LEMMA MemCollectHandle ==
  ASSUME MemInv, NEW h \in Handles, CollectHandle(h)
  PROVE  MemInv'
<1>1. /\ TransportClose(h) /\ h \in doomed
      /\ mem' = [mem EXCEPT ![h] = "collected"]
      /\ doomed' = doomed \ {h}
      /\ UNCHANGED <<handle, parent, pref, registry, held, handler>>
  BY DEF CollectHandle
<1>2. h \in Objects /\ h \notin Helpers
  BY HandlesAssumption DEF Objects
<1>3. Alive' = Alive \ {h}
  BY <1>1, <1>2 DEF Alive, MemInv, TypeOK
<1>4. LiveHelpers' = LiveHelpers
  BY <1>2, <1>3 DEF LiveHelpers
<1>5. TypeOK' /\ NothingUsedTwice'
  BY <1>1, <1>2, CloseIsSafe DEF MemInv, TypeOK, NothingUsedTwice
<1>6. \A x \in Helpers : mem'[x] = mem[x]
  BY <1>1, <1>2 DEF MemInv, TypeOK, Objects
<1>7. RefsOwned'
  BY <1>1, <1>6 DEF MemInv, RefsOwned
<1>8. Named2'
  BY <1>1, <1>3 DEF MemInv, Named2
<1>9. Linked' /\ Rooted'
  BY <1>1, <1>4 DEF MemInv, Linked, Owner, Rooted
<1> QED BY <1>5, <1>7, <1>8, <1>9 DEF MemInv

\* A doomed helper is no one's parent: its reference can be returned.
LEMMA MemCollectHelper ==
  ASSUME MemInv, NEW x \in Helpers, CollectHelper(x)
  PROVE  MemInv'
<1>1. /\ x \in doomed
      /\ pref' = [pref EXCEPT ![x] = NIL]
      /\ registry' = [registry EXCEPT ![pref[x]] = NIL]
      /\ mem' = [mem EXCEPT ![x] = "collected"]
      /\ doomed' = doomed \ {x}
      /\ UNCHANGED <<file, handle, parent, held, handler, dead>>
  BY DEF CollectHelper, CloseHelper
<1>2. x \in Alive /\ x \in LiveHelpers /\ x \in Objects /\ x # NIL
  BY <1>1, HandlesAssumption DEF MemInv, Named2, LiveHelpers, Objects
<1>3. pref[x] \in Refs /\ pref[x] # NIL
  BY <1>2 DEF Alive, MemInv, RefsOwned, TypeOK
<1>4. Alive' = Alive \ {x}
  BY <1>1, <1>2 DEF Alive, MemInv, TypeOK
<1>5. LiveHelpers' = LiveHelpers \ {x}
  BY <1>4 DEF LiveHelpers
<1>6. TypeOK' /\ NothingUsedTwice'
  BY <1>1, <1>2 DEF MemInv, TypeOK, NothingUsedTwice
<1>7. \A y \in Helpers : y # x => mem'[y] = mem[y] /\ pref'[y] = pref[y]
  BY <1>1 DEF MemInv, TypeOK, Objects
<1>8. /\ mem'[x] = "collected" /\ pref'[x] = NIL
      /\ registry'[pref[x]] = NIL
      /\ \A q \in Refs : q # pref[x] => registry'[q] = registry[q]
  BY <1>1, <1>2, <1>3 DEF MemInv, TypeOK
<1>9. \A y \in Helpers : y # x => pref[y] # pref[x]
  BY <1>3 DEF MemInv, RefsOwned
<1>10. RefsOwned'
  <2>1. \A y \in Helpers : mem'[y] = "alive" <=> pref'[y] # NIL
    BY <1>7, <1>8 DEF MemInv, RefsOwned
  <2>2. \A q \in Refs : registry'[q] # NIL <=> \E y \in Helpers : pref'[y] = q
    <3> SUFFICES ASSUME NEW q \in Refs
                 PROVE  registry'[q] # NIL <=> \E y \in Helpers : pref'[y] = q
      OBVIOUS
    <3>0. q # NIL
      BY HandlesAssumption
    <3>1. CASE q = pref[x]
      BY <1>7, <1>8, <1>9, <3>0, <3>1
    <3>2. CASE q # pref[x]
      <4>1. (\E y \in Helpers : pref'[y] = q) <=> (\E y \in Helpers : pref[y] = q)
        BY <1>7, <1>8, <3>0, <3>2
      <4> QED BY <1>8, <3>2, <4>1 DEF MemInv, RefsOwned
    <3> QED BY <3>1, <3>2
  <2>3. \A y, z \in Helpers : pref'[y] = pref'[z] /\ pref'[y] # NIL => y = z
    BY <1>7, <1>8 DEF MemInv, RefsOwned
  <2> QED BY <2>1, <2>2, <2>3 DEF RefsOwned
<1>11. Named2'
  <2>1. doomed' \subseteq Alive' /\ held' \subseteq Alive' \ doomed'
    BY <1>1, <1>4 DEF MemInv, Named2
  <2>2. \A q \in Refs : registry'[q] # NIL => registry'[q] \in Alive' \ doomed'
    BY <1>1, <1>4, <1>8 DEF MemInv, Named2
  <2> QED BY <2>1, <2>2 DEF Named2
<1>12. Linked'
  <2> SUFFICES ASSUME NEW y \in LiveHelpers'
               PROVE  /\ handle'[y] \in Handles
                      /\ registry'[pref'[y]] = Owner(y)'
                      /\ parent'[y] # NIL => handle'[parent'[y]] = handle'[y]
    BY DEF Linked
  <2>1. y \in LiveHelpers /\ y \in Helpers /\ y # x /\ pref[y] \in Refs
    BY <1>5 DEF LiveHelpers, Alive, MemInv, RefsOwned, TypeOK
  <2>2. Owner(y)' = Owner(y)
    BY <1>1 DEF Owner
  <2>3. registry'[pref'[y]] = registry[pref[y]]
    BY <1>7, <1>8, <1>9, <2>1
  <2> QED BY <1>1, <2>1, <2>2, <2>3 DEF MemInv, Linked
<1>13. Rooted'
  BY <1>1, <1>5 DEF MemInv, Rooted
<1> QED BY <1>6, <1>10, <1>11, <1>12, <1>13 DEF MemInv

-----------------------------------------------------------------------------
LEMMA MemInvHolds == Spec => []MemInv
<1>1. ASSUME MemInv, [Next]_vars
      PROVE  MemInv'
  <2>1. CASE UNCHANGED vars
    BY <1>1, <2>1, MemQuiet
  <2>2. CASE Next
    <3>1. ASSUME NEW h \in Handles,
                 \/ Connect(h) \/ ConnectFails(h) \/ OpenFails(h) \/ Unresolved(h)
          PROVE  MemInv'
      BY <1>1, <3>1, MemCreate
    <3>2. ASSUME NEW h \in Handles, Close(h)
          PROVE  MemInv'
      BY <1>1, <3>2, MemClose
    <3>3. ASSUME NEW h \in Handles, NEW x \in Helpers, Index(h, x) \/ Assign(h, x)
          PROVE  MemInv'
      BY <1>1, <3>3, MemHelpers
    <3>4. ASSUME NEW x \in Helpers, Request(x) \/ RequestGet(x) \/ RequestFatal(x)
          PROVE  MemInv'
      BY <1>1, <3>4, MemRequests
    <3>5. ASSUME NEW x \in Helpers, NEW y \in Helpers, Append(y, x)
          PROVE  MemInv'
      BY <1>1, <3>5, MemHelpers
    <3>6. CASE OnError \/ \E o \in Objects : Drop(o)
      BY <1>1, <3>6, MemQuiet
    <3>7. CASE Collector
      BY <1>1, <3>7, MemMark, MemCollectHandle, MemCollectHelper DEF Collector
    <3> QED BY <2>2, <3>1, <3>2, <3>3, <3>4, <3>5, <3>6, <3>7 DEF Next
  <2> QED BY <1>1, <2>1, <2>2
<1> QED BY <1>1, MemInit, PTL DEF Spec

\* The types, for any set of handles and helpers.
THEOREM HandlesTypes == Spec => []TypeOK
<1>1. MemInv => TypeOK
  BY DEF MemInv
<1> QED BY MemInvHolds, <1>1, PTL

\* What a helper points to, its handle and the helpers on its path, is in
\* memory as long as it is, in whatever order the program drops them.
THEOREM HelperPointersLive == Spec => []PointersLive
BY MemInvHolds, PointersFollow, PTL

\* The registry holds one reference for each helper in memory, and no other.
THEOREM RegistryBalanced == Spec => []RefsOwned
<1>1. MemInv => RefsOwned
  BY DEF MemInv
<1> QED BY MemInvHolds, <1>1, PTL

\* No userdata is used after its collection, no stream after its closing.
THEOREM NoUseAfterFree == Spec => []NothingUsedTwice
<1>1. MemInv => NothingUsedTwice
  BY DEF MemInv
<1> QED BY MemInvHolds, <1>1, PTL
=============================================================================
