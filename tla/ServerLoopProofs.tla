-------------------------- MODULE ServerLoopProofs --------------------------
(***************************************************************************)
(* The loop of rpc_server, for any number of connections: the list stays   *)
(* one ring of exactly the allocated workers, the loop's node never points *)
(* to freed memory, a worker that must die is not served again, and no     *)
(* read of a command or accept waits for something select has not seen.    *)
(*                                                                         *)
(* A walk needs no induction over the list: what is still ahead of the     *)
(* loop's node is a set of nodes closed under next up to the head, and     *)
(* what is behind it one closed under next up to the loop's node.          *)
(* With a history of who was dispatched the same shows that each pass of   *)
(* the loop dispatches every readable worker, and once.                    *)
(***************************************************************************)
EXTENDS ServerLoop, SequenceTheorems, TLAPS

Waiting(c) == \E i \in 1..Len(backlog) : backlog[i] = c

\* A connection is in the backlog once, and not accepted yet.
BacklogOK ==
  /\ \A i \in 1..Len(backlog) : backlog[i] \notin live
  /\ \A i, j \in 1..Len(backlog) : backlog[i] = backlog[j] => i = j

\* The nodes still to be dispatched: none of them must die, and what select
\* saw of them is still there.
Ahead(part) ==
  /\ part \subseteq Linked
  /\ next[cursor] \in part
  /\ cursor \in part => cursor = HEAD
  /\ \A x \in part \ {HEAD} : next[x] \in part
  /\ \A c \in part \intersect live : ~mustDie[c] /\ (isSet[c] => Readable(c))

DispatchOK ==
  phase \in {"dispatch", "command", "body"} =>
    \E part \in SUBSET Linked : Ahead(part)

\* The nodes the second walk has passed: none of them must die.
Behind(part) ==
  /\ part \subseteq Linked
  /\ HEAD \in part /\ cursor \in part
  /\ \A x \in part \ {cursor} : next[x] \in part
  /\ \A c \in part \intersect live : ~mustDie[c]

ReapOK == phase = "reap" => \E part \in SUBSET Linked : Behind(part)

\* The listener does not die, and what its is_set says still holds when the
\* loop comes to it.
ListenerOK ==
  /\ ~mustDie[SERVER]
  /\ phase \in {"dispatch", "command", "body", "reap", "accept"} /\ isSet[SERVER] =>
       backlog # <<>>

FreshOK == IF phase = "negotiate" THEN fresh \in live ELSE fresh = NIL

Ring == RingIntact /\ Unbroken

LoopInv ==
  /\ TypeOK /\ Ring /\ CursorLives /\ DoomedNeverServed
  /\ NeverWaitsForCommand
  /\ BacklogOK /\ DispatchOK /\ ReapOK /\ ListenerOK /\ FreshOK

-----------------------------------------------------------------------------
(* The list.                                                               *)

\* HEAD, SERVER, NIL and the connections are different.
LEMMA NodeFacts ==
  /\ HEAD \in Nodes /\ SERVER \in Nodes /\ Conns \subseteq Nodes
  /\ NIL \notin Nodes /\ HEAD \notin Conns /\ SERVER \notin Conns
  /\ HEAD # SERVER
BY ServerAssumption DEF Nodes

\* Going forth and back in the list leads to the same node.
LEMMA RingFacts ==
  ASSUME TypeOK, RingIntact
  PROVE  /\ HEAD \in Linked /\ SERVER \in Linked /\ live \subseteq Linked
         /\ Linked \subseteq Nodes
         /\ \A x \in Linked : /\ next[x] \in Linked /\ prev[x] \in Linked
                              /\ prev[next[x]] = x /\ next[prev[x]] = x
<1>1. Linked = {HEAD, SERVER} \union live
  BY DEF RingIntact
<1>2. ASSUME NEW x \in Linked
      PROVE  /\ next[x] \in Linked /\ prev[x] \in Linked
             /\ prev[next[x]] = x /\ next[prev[x]] = x
  <2>1. x \in Nodes /\ next[x] # NIL /\ prev[x] # NIL
    BY <1>2 DEF Linked, RingIntact
  <2>2. next[x] \in Nodes /\ prev[x] \in Nodes
    BY <2>1 DEF TypeOK
  <2>3. prev[next[x]] = x /\ next[prev[x]] = x
    BY <1>2 DEF RingIntact
  <2>4. prev[next[x]] # NIL /\ next[prev[x]] # NIL
    BY <2>1, <2>3, NodeFacts
  <2>5. next[next[x]] # NIL
    BY <2>2, <2>4 DEF RingIntact
  <2> QED BY <2>2, <2>3, <2>4, <2>5 DEF Linked
<1> QED BY <1>1, <1>2 DEF Linked

\* A step that leaves the links alone leaves the ring alone.
LEMMA SameList ==
  ASSUME next' = next, prev' = prev, live' = live, Ring
  PROVE  Linked' = Linked /\ Ring'
<1>1. Linked' = Linked
  BY DEF Linked
<1>2. RingIntact'
  BY <1>1 DEF Ring, RingIntact
<1>3. Unbroken'
  BY <1>1 DEF Ring, Unbroken
<1> QED BY <1>1, <1>2, <1>3 DEF Ring

\* transport_insert_to_list adds a node to the ring.
LEMMA InsertKeeps ==
  ASSUME TypeOK, Ring, NEW x \in Conns, x \notin live, Insert(x)
  PROVE  /\ next' \in [Nodes -> Nodes \union {NIL}]
         /\ prev' \in [Nodes -> Nodes \union {NIL}]
         /\ live' = live \union {x}
         /\ Linked' = Linked \union {x}
         /\ Ring'
<1> DEFINE f == next[HEAD]
<1>1. /\ RingIntact /\ Unbroken
      /\ next \in [Nodes -> Nodes \union {NIL}]
      /\ prev \in [Nodes -> Nodes \union {NIL}]
  BY DEF Ring, TypeOK
<1>2. /\ HEAD \in Linked /\ Linked \subseteq Nodes /\ f \in Linked
      /\ \A y \in Linked : /\ next[y] \in Linked /\ prev[y] \in Linked
                           /\ prev[next[y]] = y /\ next[prev[y]] = y
  BY <1>1, RingFacts
<1>3. Linked = {HEAD, SERVER} \union live
  BY <1>1 DEF RingIntact
<1>4. x \in Nodes /\ x \notin Linked /\ x # HEAD /\ x # f /\ x # NIL
  BY <1>2, <1>3, NodeFacts
<1>5. /\ next' = [next EXCEPT ![HEAD] = x, ![x] = f]
      /\ prev' = [prev EXCEPT ![x] = HEAD, ![f] = x]
      /\ live' = live \union {x}
  BY DEF Insert
<1> HIDE DEF f
<1>6. /\ next' \in [Nodes -> Nodes \union {NIL}]
      /\ prev' \in [Nodes -> Nodes \union {NIL}]
  BY <1>1, <1>2, <1>4, <1>5, NodeFacts
<1>7. /\ next'[HEAD] = x /\ next'[x] = f
      /\ \A y \in Nodes \ {HEAD, x} : next'[y] = next[y]
  BY <1>1, <1>2, <1>4, <1>5, NodeFacts
<1>8. /\ prev'[x] = HEAD /\ prev'[f] = x
      /\ \A y \in Nodes \ {x, f} : prev'[y] = prev[y]
  BY <1>1, <1>2, <1>4, <1>5
<1>9. f = next[HEAD] /\ prev[f] = HEAD
  BY <1>2 DEF f
<1>10. Linked' = Linked \union {x}
  <2>1. f # NIL
    BY <1>2, NodeFacts
  <2>2. \A y \in Nodes : next'[y] # NIL <=> y \in Linked \union {x}
    BY <1>2, <1>4, <1>7, <2>1, NodeFacts DEF Linked
  <2> QED BY <2>2, <1>2, <1>4 DEF Linked
<1>11. ASSUME NEW y \in Linked \union {x}
       PROVE  prev'[next'[y]] = y /\ next'[prev'[y]] = y
  <2>1. prev'[next'[y]] = y
    <3>1. CASE y = HEAD
      BY <3>1, <1>7, <1>8
    <3>2. CASE y = x
      BY <3>2, <1>7, <1>8
    <3>3. CASE y # HEAD /\ y # x
      BY <3>3, <1>2, <1>4, <1>7, <1>8, <1>9
    <3> QED BY <3>1, <3>2, <3>3
  <2>2. next'[prev'[y]] = y
    <3>1. CASE y = x
      BY <3>1, <1>7, <1>8
    <3>2. CASE y = f
      BY <3>2, <1>7, <1>8
    <3>3. CASE y # f /\ y # x
      BY <3>3, <1>2, <1>4, <1>7, <1>8, <1>9
    <3> QED BY <3>1, <3>2, <3>3
  <2> QED BY <2>1, <2>2
<1>12. RingIntact'
  <2>1. \A y \in Nodes : (next'[y] = NIL) = (prev'[y] = NIL)
    <3>1. \A y \in Nodes : (next[y] = NIL) = (prev[y] = NIL)
      BY <1>1 DEF RingIntact
    <3>2. next[HEAD] # NIL /\ next[f] # NIL
      BY <1>2 DEF Linked
    <3>3. x # NIL /\ HEAD # NIL /\ f # NIL
      BY <1>2, <1>4, NodeFacts
    <3> QED BY <3>1, <3>2, <3>3, <1>7, <1>8
  <2>2. Linked' = {HEAD, SERVER} \union live'
    BY <1>3, <1>5, <1>10
  <2> QED BY <2>1, <2>2, <1>10, <1>11 DEF RingIntact
<1>13. Unbroken'
  <2> SUFFICES ASSUME NEW part \in SUBSET Linked', HEAD \in part,
                      \A y \in part : next'[y] \in part
               PROVE  part = Linked'
    BY DEF Unbroken
  <2>1. x \in part
    BY <1>7
  <2>2. f \in part
    BY <2>1, <1>7
  <2> DEFINE old == part \ {x}
  <2>3. old \in SUBSET Linked /\ HEAD \in old
    BY <1>4, <1>10
  <2>4. ASSUME NEW y \in old PROVE next[y] \in old
    <3>1. CASE y = HEAD
      BY <3>1, <2>2, <1>4, <1>9
    <3>2. CASE y # HEAD
      <4>1. next'[y] = next[y] /\ next'[y] \in part
        BY <3>2, <2>3, <1>2, <1>7
      <4>2. next[y] \in Linked
        BY <2>3, <1>2
      <4> QED BY <4>1, <4>2, <1>4
    <3> QED BY <3>1, <3>2
  <2>5. old = Linked
    BY <2>3, <2>4, <1>1 DEF Unbroken
  <2> QED BY <2>1, <2>5, <1>10
<1> QED BY <1>5, <1>6, <1>10, <1>12, <1>13 DEF Ring

\* transport_remove_from_list takes a node out of the ring.
LEMMA RemoveKeeps ==
  ASSUME TypeOK, Ring, NEW x \in live, Remove(x)
  PROVE  /\ next' \in [Nodes -> Nodes \union {NIL}]
         /\ prev' \in [Nodes -> Nodes \union {NIL}]
         /\ live' = live \ {x}
         /\ Linked' = Linked \ {x}
         /\ prev[x] # x /\ prev[x] \in Linked
         /\ next'[prev[x]] = next[x]
         /\ \A y \in Nodes \ {x, prev[x]} : next'[y] = next[y]
         /\ Ring'
<1> DEFINE p == prev[x]
           q == next[x]
<1>1. /\ RingIntact /\ Unbroken
      /\ next \in [Nodes -> Nodes \union {NIL}]
      /\ prev \in [Nodes -> Nodes \union {NIL}]
      /\ live \subseteq Conns
  BY DEF Ring, TypeOK
<1>2. /\ HEAD \in Linked /\ Linked \subseteq Nodes /\ live \subseteq Linked
      /\ \A y \in Linked : /\ next[y] \in Linked /\ prev[y] \in Linked
                           /\ prev[next[y]] = y /\ next[prev[y]] = y
  BY <1>1, RingFacts
<1>3. /\ Linked = {HEAD, SERVER} \union live
      /\ \A y \in Nodes : (next[y] = NIL) = (prev[y] = NIL)
  BY <1>1 DEF RingIntact
<1>4. /\ x \in Linked /\ x \in Nodes /\ x # HEAD /\ x # SERVER
      /\ p \in Linked /\ q \in Linked /\ next[p] = x /\ prev[q] = x
      /\ p = prev[x] /\ q = next[x]
  BY <1>1, <1>2, NodeFacts
<1>5. /\ prev' = [prev EXCEPT ![q] = p, ![x] = NIL]
      /\ next' = [next EXCEPT ![p] = q, ![x] = NIL]
      /\ live' = live \ {x}
  BY DEF Remove
<1> HIDE DEF p, q
<1>6. p # x
  <2> SUFFICES ASSUME p = x PROVE FALSE
    OBVIOUS
  <2> DEFINE part == Linked \ {x}
  <2>1. part \in SUBSET Linked /\ HEAD \in part
    BY <1>2, <1>4
  <2>2. \A y \in part : next[y] \in part
    BY <1>2, <1>4
  <2>3. part = Linked
    BY <2>1, <2>2, <1>1 DEF Unbroken
  <2> QED BY <2>3, <1>4
<1>7. q # x
  BY <1>4, <1>6
<1>8. p \in Nodes /\ q \in Nodes /\ p # NIL /\ q # NIL
  BY <1>2, <1>4, NodeFacts
<1>9. /\ next' \in [Nodes -> Nodes \union {NIL}]
      /\ prev' \in [Nodes -> Nodes \union {NIL}]
  BY <1>1, <1>5, <1>8
<1>10. /\ next'[p] = q /\ next'[x] = NIL
       /\ \A y \in Nodes \ {x, p} : next'[y] = next[y]
  BY <1>1, <1>4, <1>5, <1>6, <1>8
<1>11. /\ prev'[q] = p /\ prev'[x] = NIL
       /\ \A y \in Nodes \ {x, q} : prev'[y] = prev[y]
  BY <1>1, <1>4, <1>5, <1>7, <1>8
<1>12. Linked' = Linked \ {x}
  <2>1. \A y \in Nodes : next'[y] # NIL <=> y \in Linked \ {x}
    BY <1>4, <1>8, <1>10 DEF Linked
  <2> QED BY <2>1, <1>2 DEF Linked
<1>13. ASSUME NEW y \in Linked \ {x}
       PROVE  prev'[next'[y]] = y /\ next'[prev'[y]] = y
  <2>0. y \in Nodes /\ next[y] \in Nodes /\ prev[y] \in Nodes
    BY <1>2
  <2>1. prev'[next'[y]] = y
    <3>1. CASE y = p
      BY <3>1, <1>10, <1>11
    <3>2. CASE y # p
      <4>1. next[y] # x /\ next[y] # q
        BY <3>2, <1>2, <1>4
      <4> QED BY <3>2, <4>1, <2>0, <1>2, <1>10, <1>11
    <3> QED BY <3>1, <3>2
  <2>2. next'[prev'[y]] = y
    <3>1. CASE y = q
      BY <3>1, <1>10, <1>11
    <3>2. CASE y # q
      <4>1. prev[y] # x /\ prev[y] # p
        BY <3>2, <1>2, <1>4
      <4> QED BY <3>2, <4>1, <2>0, <1>2, <1>10, <1>11
    <3> QED BY <3>1, <3>2
  <2> QED BY <2>1, <2>2
<1>14. RingIntact'
  <2>1. \A y \in Nodes : (next'[y] = NIL) = (prev'[y] = NIL)
    <3>1. next[p] # NIL /\ next[q] # NIL
      BY <1>4 DEF Linked
    <3> QED BY <3>1, <1>3, <1>8, <1>10, <1>11
  <2>2. Linked' = {HEAD, SERVER} \union live'
    BY <1>3, <1>4, <1>5, <1>12
  <2> QED BY <2>1, <2>2, <1>12, <1>13 DEF RingIntact
<1>15. Unbroken'
  <2> SUFFICES ASSUME NEW part \in SUBSET Linked', HEAD \in part,
                      \A y \in part : next'[y] \in part
               PROVE  part = Linked'
    BY DEF Unbroken
  <2>1. part \subseteq Linked \ {x}
    BY <1>12
  <2>2. CASE p \in part
    <3> DEFINE whole == part \union {x}
    <3>1. whole \in SUBSET Linked /\ HEAD \in whole
      BY <2>1, <1>4
    <3>2. ASSUME NEW y \in whole PROVE next[y] \in whole
      <4>1. q \in part
        BY <2>2, <1>10
      <4>2. CASE y = x
        BY <4>1, <4>2, <1>4
      <4>3. CASE y = p
        BY <4>3, <1>4
      <4>4. CASE y # x /\ y # p
        BY <4>4, <2>1, <1>2, <1>10
      <4> QED BY <4>2, <4>3, <4>4
    <3>3. whole = Linked
      BY <3>1, <3>2, <1>1 DEF Unbroken
    <3> QED BY <3>3, <2>1, <1>12
  <2>3. CASE p \notin part
    <3>1. \A y \in part : next[y] \in part
      BY <2>1, <2>3, <1>2, <1>10
    <3>2. part = Linked
      BY <2>1, <3>1, <1>1 DEF Unbroken
    <3> QED BY <3>2, <2>1, <1>4
  <2> QED BY <2>2, <2>3
<1> QED
  BY <1>4, <1>5, <1>6, <1>9, <1>10, <1>12, <1>14, <1>15 DEF Ring

-----------------------------------------------------------------------------
(* The loop.                                                               *)

\* rpc_server starts with the listener alone in the list.
LEMMA LoopInit == Init => LoopInv
<1> SUFFICES ASSUME Init PROVE LoopInv
  OBVIOUS
<1>1. /\ next = [x \in Nodes |-> IF x = HEAD THEN SERVER
                                 ELSE IF x = SERVER THEN HEAD ELSE NIL]
      /\ prev = next /\ live = {} /\ phase = "select" /\ cursor = HEAD
      /\ fresh = NIL /\ backlog = <<>>
  BY DEF Init
<1>2. next[HEAD] = SERVER /\ next[SERVER] = HEAD
  BY <1>1, NodeFacts
<1>3. Linked = {HEAD, SERVER}
  <2>1. \A x \in Nodes : next[x] # NIL <=> x \in {HEAD, SERVER}
    BY <1>1, NodeFacts
  <2> QED BY <2>1, NodeFacts DEF Linked
<1>4. TypeOK
  BY <1>1, NodeFacts DEF Init, TypeOK, Phases
<1>5. RingIntact
  <2>1. \A x \in Nodes : (next[x] = NIL) = (prev[x] = NIL)
    BY <1>1
  <2>2. \A x \in Linked : prev[next[x]] = x /\ next[prev[x]] = x
    BY <1>1, <1>2, <1>3
  <2> QED BY <1>1, <1>3, <2>1, <2>2 DEF RingIntact
<1>6. Unbroken
  BY <1>2, <1>3 DEF Unbroken
<1>7. BacklogOK
  BY <1>1 DEF BacklogOK
<1>8. /\ CursorLives /\ DoomedNeverServed /\ NeverWaitsForCommand
      /\ DispatchOK /\ ReapOK /\ ListenerOK /\ FreshOK
  BY <1>1, <1>3, NodeFacts
  DEF Init, CursorLives, DoomedNeverServed, NeverWaitsForCommand, DispatchOK,
      ReapOK, ListenerOK, FreshOK
<1> QED BY <1>4, <1>5, <1>6, <1>7, <1>8 DEF LoopInv, Ring

\* A part of the list still to be dispatched stays one when the links and the
\* loop's node do not change, nobody in it is doomed, and its flags stand.
LEMMA AheadStays ==
  ASSUME TypeOK, Ring,
         next' = next, prev' = prev, live' = live, cursor' = cursor,
         isSet' = isSet, NEW part, Ahead(part),
         \A c \in part \intersect live :
           mustDie'[c] = mustDie[c] /\ (Readable(c) => Readable(c)')
  PROVE  Ahead(part)'
<1>1. Linked' = Linked
  BY SameList
<1> QED BY <1>1 DEF Ahead

\* What the clients do: the loop's variables stand, and no worker becomes
\* unreadable.
LEMMA LoopClient == LoopInv /\ ClientStep => LoopInv'
<1> SUFFICES ASSUME LoopInv, ClientStep PROVE LoopInv'
  OBVIOUS
<1>1. PICK c \in Conns : Connect(c) \/ SendCommand(c) \/ SendBody(c) \/ HangUp(c)
  BY DEF ClientStep
<1>t. /\ TypeOK /\ Ring
      /\ wire \in [Conns -> {"none", "cmd", "con", "junk", "body"}]
      /\ hungUp \in [Conns -> BOOLEAN] /\ backlog \in Seq(Conns)
      /\ live \subseteq Conns
  BY DEF LoopInv, TypeOK
<1>2. /\ next' = next /\ prev' = prev /\ live' = live /\ isSet' = isSet
      /\ mustDie' = mustDie /\ phase' = phase /\ cursor' = cursor
      /\ fresh' = fresh
  BY <1>1 DEF Connect, SendCommand, SendBody, HangUp, listVars, loopVars
<1>3. /\ wire' \in [Conns -> {"none", "cmd", "con", "junk", "body"}]
      /\ hungUp' \in [Conns -> BOOLEAN]
  <2>0. Commands[c] \subseteq {"cmd", "con", "junk"}
    BY ServerAssumption
  <2>1. CASE Connect(c)
    <3>1. PICK b \in {"con"} \union Commands[c] : wire' = [wire EXCEPT ![c] = b]
      BY <2>1 DEF Connect
    <3>2. hungUp' = hungUp
      BY <2>1 DEF Connect
    <3>3. b \in {"none", "cmd", "con", "junk", "body"}
      BY <2>0
    <3>4. QED
      BY <1>t, <3>1, <3>2, <3>3
  <2>2. CASE SendCommand(c)
    <3>1. PICK b \in Commands[c] : wire' = [wire EXCEPT ![c] = b]
      BY <2>2 DEF SendCommand
    <3>2. hungUp' = hungUp
      BY <2>2 DEF SendCommand
    <3>3. b \in {"none", "cmd", "con", "junk", "body"}
      BY <2>0
    <3>4. QED
      BY <1>t, <3>1, <3>2, <3>3
  <2>3. CASE SendBody(c) \/ HangUp(c)
    BY <1>t, <2>3, ServerAssumption DEF SendBody, HangUp, clientVars
  <2>4. QED
    BY <1>1, <2>1, <2>2, <2>3
<1>4. \A d \in Conns : Readable(d) => Readable(d)'
  <2>1. ASSUME NEW d \in Conns, wire[d] # "none" \/ hungUp[d]
        PROVE  wire'[d] # "none" \/ hungUp'[d]
    <3>1. CASE Connect(c)
      BY <2>1, <3>1, <1>t, ServerAssumption DEF Connect, Unborn
    <3>2. CASE SendCommand(c)
      BY <2>1, <3>2, <1>t, ServerAssumption DEF SendCommand, clientVars
    <3>3. CASE SendBody(c)
      BY <2>1, <3>3, <1>t DEF SendBody
    <3>4. CASE HangUp(c)
      BY <2>1, <3>4, <1>t DEF HangUp
    <3> QED BY <1>1, <3>1, <3>2, <3>3, <3>4
  <2> QED BY <2>1, NodeFacts DEF Readable
<1>5. backlog' = backlog \/ (Unborn(c) /\ backlog' = Append(backlog, c))
  BY <1>1 DEF Connect, SendCommand, SendBody, HangUp
<1>6. backlog' \in Seq(Conns) /\ (backlog # <<>> => backlog' # <<>>)
  BY <1>5, <1>t
<1>7. TypeOK'
  BY <1>2, <1>3, <1>6, <1>t DEF TypeOK
<1>8. Linked' = Linked /\ Ring'
  BY <1>2, <1>t, SameList
<1>9. BacklogOK'
  <2>1. CASE backlog' = backlog
    BY <2>1, <1>2 DEF LoopInv, BacklogOK
  <2>2. CASE Unborn(c) /\ backlog' = Append(backlog, c)
    <3>1. /\ Len(backlog') = Len(backlog) + 1 /\ Len(backlog) \in Nat
          /\ backlog'[Len(backlog) + 1] = c
          /\ \A i \in 1..Len(backlog) : backlog'[i] = backlog[i]
      BY <2>2, <1>t
    <3>2. c \notin live /\ \A i \in 1..Len(backlog) : backlog[i] # c
      BY <2>2 DEF Unborn
    <3>3. /\ \A i \in 1..Len(backlog) : backlog[i] \notin live
          /\ \A i, j \in 1..Len(backlog) : backlog[i] = backlog[j] => i = j
      BY DEF LoopInv, BacklogOK
    <3>4. \A i \in 1..Len(backlog') : i \in 1..Len(backlog) \/ i = Len(backlog) + 1
      BY <3>1
    <3> QED BY <3>1, <3>2, <3>3, <3>4, <1>2 DEF BacklogOK
  <2> QED BY <2>1, <2>2, <1>5
<1>10. CursorLives' /\ DoomedNeverServed' /\ FreshOK'
  BY <1>2, <1>8 DEF LoopInv, CursorLives, DoomedNeverServed, FreshOK
<1>11. NeverWaitsForCommand'
  <2>1. phase = "command" => cursor \in Conns
    BY <1>t DEF LoopInv, CursorLives
  <2>2. phase = "command" => Readable(cursor)
    BY DEF LoopInv, NeverWaitsForCommand
  <2>3. phase = "command" => Readable(cursor)'
    BY <2>1, <2>2, <1>2, <1>4 DEF Readable
  <2> QED BY <2>3, <1>2 DEF NeverWaitsForCommand
<1>12. DispatchOK'
  <2> SUFFICES ASSUME phase \in {"dispatch", "command", "body"}
               PROVE  \E part \in SUBSET Linked : Ahead(part)'
    BY <1>2, <1>8 DEF DispatchOK
  <2>1. PICK part \in SUBSET Linked : Ahead(part)
    BY DEF LoopInv, DispatchOK
  <2>2. \A d \in part \intersect live :
          mustDie'[d] = mustDie[d] /\ (Readable(d) => Readable(d)')
    BY <1>2, <1>4, <1>t
  <2>3. Ahead(part)'
    BY <2>1, <2>2, <1>2, <1>t, AheadStays
  <2> QED BY <2>3
<1>13. ReapOK'
  BY <1>2, <1>8 DEF LoopInv, ReapOK, Behind
<1>14. ListenerOK'
  BY <1>2, <1>6 DEF LoopInv, ListenerOK
<1> QED BY <1>7, <1>8, <1>9, <1>10, <1>11, <1>12, <1>13, <1>14 DEF LoopInv

\* transport_select: the whole list is still ahead, with fresh flags.
LEMMA LoopSelect == LoopInv /\ Select => LoopInv'
<1> SUFFICES ASSUME LoopInv, Select PROVE LoopInv'
  OBVIOUS
<1>1. /\ phase = "select" /\ phase' = "dispatch"
      /\ isSet' = [x \in Nodes |-> IF x \in Linked \ {HEAD} THEN Readable(x)
                                   ELSE isSet[x]]
      /\ next' = next /\ prev' = prev /\ live' = live /\ mustDie' = mustDie
      /\ cursor' = cursor /\ fresh' = fresh /\ backlog' = backlog
      /\ wire' = wire /\ hungUp' = hungUp
  BY DEF Select, listVars, clientVars
<1>t. TypeOK /\ Ring /\ isSet \in [Nodes -> BOOLEAN] /\ live \subseteq Conns
  BY DEF LoopInv, TypeOK
<1>r. /\ HEAD \in Linked /\ SERVER \in Linked /\ live \subseteq Linked
      /\ Linked \subseteq Nodes
      /\ \A x \in Linked : next[x] \in Linked
  BY <1>t, RingFacts DEF Ring
<1>2. \A x \in Nodes : Readable(x) \in BOOLEAN
  BY <1>t DEF Readable, TypeOK
<1>3. isSet' \in [Nodes -> BOOLEAN]
  BY <1>1, <1>2, <1>t
<1>4. TypeOK'
  BY <1>1, <1>3, <1>t DEF TypeOK, Phases
<1>5. Linked' = Linked /\ Ring'
  BY <1>1, <1>t, SameList
<1>6. /\ BacklogOK' /\ CursorLives' /\ DoomedNeverServed' /\ FreshOK'
      /\ NeverWaitsForCommand' /\ ReapOK'
  BY <1>1, <1>5
  DEF LoopInv, BacklogOK, CursorLives, DoomedNeverServed, FreshOK,
      NeverWaitsForCommand, ReapOK
<1>7. ListenerOK'
  <2>1. isSet'[SERVER] = Readable(SERVER)
    BY <1>1, <1>r, NodeFacts
  <2>2. Readable(SERVER) => backlog # <<>>
    BY NodeFacts DEF Readable
  <2> QED BY <2>1, <2>2, <1>1 DEF LoopInv, ListenerOK
<1>8. DispatchOK'
  <2>1. cursor = HEAD /\ \A c \in live : ~mustDie[c]
    BY <1>1 DEF LoopInv, CursorLives, DoomedNeverServed
  <2>2. \A c \in live : isSet'[c] = Readable(c)
    BY <1>1, <1>r, <1>t, NodeFacts
  <2>3. \A c \in live : Readable(c) => Readable(c)'
    BY <1>1 DEF Readable
  <2>4. Ahead(Linked)'
    BY <2>1, <2>2, <2>3, <1>1, <1>r, <1>5 DEF Ahead
  <2> QED BY <2>4, <1>5 DEF DispatchOK
<1> QED BY <1>4, <1>5, <1>6, <1>7, <1>8 DEF LoopInv

\* The first walk goes on to the next node, which leaves the part ahead.
LEMMA LoopWalkDispatch == LoopInv /\ WalkDispatch => LoopInv'
<1> SUFFICES ASSUME LoopInv, WalkDispatch PROVE LoopInv'
  OBVIOUS
<1>0. PICK x : x = next[cursor]
  OBVIOUS
<1>1. /\ phase = "dispatch" /\ cursor' = x
      /\ phase' = IF x = HEAD THEN "reap"
                  ELSE IF isSet[x] /\ x # SERVER THEN "command" ELSE "dispatch"
      /\ next' = next /\ prev' = prev /\ live' = live /\ mustDie' = mustDie
      /\ isSet' = isSet /\ fresh' = fresh /\ backlog' = backlog
      /\ wire' = wire /\ hungUp' = hungUp
  BY <1>0 DEF WalkDispatch, listVars, clientVars
<1>t. TypeOK /\ Ring /\ live \subseteq Conns /\ cursor \in Linked
  BY DEF LoopInv, TypeOK, CursorLives
<1>r. /\ HEAD \in Linked /\ live \subseteq Linked /\ Linked \subseteq Nodes
      /\ \A y \in Linked : next[y] \in Linked /\ prev[next[y]] = y
      /\ Linked = {HEAD, SERVER} \union live
  BY <1>t, RingFacts DEF Ring, RingIntact
<1>2. x \in Linked /\ prev[x] = cursor
  BY <1>0, <1>t, <1>r
<1>3. Linked' = Linked /\ Ring'
  BY <1>1, <1>t, SameList
<1>4. phase' \in {"reap", "command", "dispatch"}
  BY <1>1
<1>5. TypeOK'
  BY <1>1, <1>2, <1>4, <1>r, <1>t DEF TypeOK, Phases
<1>6. PICK part \in SUBSET Linked : Ahead(part)
  BY <1>1 DEF LoopInv, DispatchOK
<1>7. x \in part /\ (cursor \in part => cursor = HEAD)
  BY <1>0, <1>6 DEF Ahead
<1>8. phase' = "command" => /\ x \in live /\ ~mustDie[x] /\ Readable(x)
  BY <1>1, <1>2, <1>6, <1>7, <1>r DEF Ahead
<1>9. \A c \in Conns : Readable(c) <=> Readable(c)'
  BY <1>1 DEF Readable
<1>10. /\ BacklogOK' /\ ListenerOK' /\ FreshOK'
  BY <1>1, <1>4 DEF LoopInv, BacklogOK, ListenerOK, FreshOK
<1>11. CursorLives' /\ DoomedNeverServed' /\ NeverWaitsForCommand'
  <2>1. phase' = "command" => Readable(cursor)'
    BY <1>1, <1>8 DEF Readable
  <2> QED
    BY <2>1, <1>1, <1>2, <1>3, <1>4, <1>8
    DEF CursorLives, DoomedNeverServed, NeverWaitsForCommand, Readable
<1>12. ReapOK'
  <2> SUFFICES ASSUME phase' = "reap"
               PROVE  \E behind \in SUBSET Linked' : Behind(behind)'
    BY DEF ReapOK
  <2>1. cursor' = HEAD
    BY <1>1
  <2>2. HEAD \notin live
    BY <1>t, NodeFacts
  <2>3. Behind({HEAD})'
    BY <2>1, <2>2, <1>1, <1>3, <1>r DEF Behind
  <2> QED BY <2>3, <1>3, <1>r
<1>13. DispatchOK'
  <2> SUFFICES ASSUME phase' \in {"dispatch", "command"}
               PROVE  \E rest \in SUBSET Linked : Ahead(rest)'
    BY <1>3, <1>4 DEF DispatchOK
  <2>1. x # HEAD
    BY <1>1
  <2> DEFINE rest == part \ {x}
  <2>2. next[x] \in part
    BY <1>6, <1>7, <2>1 DEF Ahead
  <2>3. next[x] # x
    BY <1>2, <1>7, <1>r, <2>1
  <2>4. \A y \in rest \ {HEAD} : next[y] \in rest
    <3> SUFFICES ASSUME NEW y \in rest \ {HEAD} PROVE next[y] \in rest
      OBVIOUS
    <3>1. next[y] \in part
      BY <1>6 DEF Ahead
    <3>2. next[y] # x
      BY <1>2, <1>6, <1>7, <1>r
    <3> QED BY <3>1, <3>2
  <2>5. \A c \in rest \intersect live :
          ~mustDie'[c] /\ (isSet'[c] => Readable(c)')
    BY <1>1, <1>6, <1>9, <1>t DEF Ahead
  <2>6. Ahead(rest)'
    BY <2>2, <2>3, <2>4, <2>5, <1>1, <1>3, <1>6 DEF Ahead
  <2> QED BY <2>6
<1> QED BY <1>3, <1>5, <1>10, <1>11, <1>12, <1>13 DEF LoopInv

\* The steps of rpc_dispatch_worker.
Handler ==
  ReadCommand \/ Serve \/ HandlerRaises \/ RefuseCommand \/ CommandEof \/ BodyLost

\* The handlers touch nothing but the connection they serve, which the first
\* walk has behind it.
LEMMA LoopHandler == LoopInv /\ Handler => LoopInv'
<1> SUFFICES ASSUME LoopInv, Handler PROVE LoopInv'
  OBVIOUS
<1> USE DEF Handler
<1>t. /\ TypeOK /\ Ring /\ live \subseteq Conns
      /\ wire \in [Conns -> {"none", "cmd", "con", "junk", "body"}]
      /\ mustDie \in [Nodes -> BOOLEAN]
  BY DEF LoopInv, TypeOK
<1>1. /\ phase \in {"command", "body"} /\ phase' \in {"body", "dispatch", "left"}
      /\ next' = next /\ prev' = prev /\ live' = live /\ isSet' = isSet
      /\ cursor' = cursor /\ fresh' = fresh /\ backlog' = backlog
      /\ hungUp' = hungUp
  BY DEF ReadCommand, Serve, HandlerRaises, RefuseCommand, CommandEof, BodyLost,
         Doom, listVars, clientVars
<1>2. \/ mustDie' = mustDie
      \/ mustDie' = [mustDie EXCEPT ![cursor] = TRUE] /\ phase' = "dispatch"
  BY DEF ReadCommand, Serve, HandlerRaises, RefuseCommand, CommandEof, BodyLost, Doom
<1>3. wire' = wire \/ wire' = [wire EXCEPT ![cursor] = "none"]
  BY DEF ReadCommand, Serve, HandlerRaises, RefuseCommand, CommandEof, BodyLost,
         clientVars
<1>4. cursor \in live /\ cursor \in Conns /\ ~mustDie[cursor]
  BY <1>1, <1>t DEF LoopInv, CursorLives, DoomedNeverServed
<1>5. TypeOK'
  <2>1. /\ wire' \in [Conns -> {"none", "cmd", "con", "junk", "body"}]
        /\ mustDie' \in [Nodes -> BOOLEAN]
    BY <1>2, <1>3, <1>t
  <2> QED BY <2>1, <1>1, <1>t DEF TypeOK, Phases
<1>6. Linked' = Linked /\ Ring'
  BY <1>1, <1>t, SameList
<1>7. \A c \in Conns \ {cursor} :
        /\ mustDie'[c] = mustDie[c]
        /\ Readable(c) => Readable(c)'
  BY <1>1, <1>2, <1>3, <1>t, NodeFacts DEF Readable
<1>8. /\ BacklogOK' /\ ListenerOK' /\ FreshOK' /\ ReapOK' /\ NeverWaitsForCommand'
      /\ CursorLives'
  BY <1>1, <1>2, <1>4, <1>6, <1>t, NodeFacts
  DEF LoopInv, BacklogOK, ListenerOK, FreshOK, ReapOK, NeverWaitsForCommand,
      CursorLives
<1>9. DoomedNeverServed'
  BY <1>1, <1>2, <1>4 DEF DoomedNeverServed
<1>10. DispatchOK'
  <2>1. PICK part \in SUBSET Linked : Ahead(part)
    BY <1>1 DEF LoopInv, DispatchOK
  <2>2. cursor \notin part
    BY <2>1, <1>4, NodeFacts DEF Ahead
  <2>3. \A c \in part \intersect live :
          mustDie'[c] = mustDie[c] /\ (Readable(c) => Readable(c)')
    BY <2>2, <1>7, <1>t
  <2>4. Ahead(part)'
    BY <2>1, <2>3, <1>1, <1>t, AheadStays
  <2> QED BY <2>4, <1>6 DEF DispatchOK
<1> QED BY <1>5, <1>6, <1>8, <1>9, <1>10 DEF LoopInv

\* The second walk: it passes over a worker, takes one out, or is back at the
\* head, when what is behind it is the whole ring.
LEMMA LoopWalkReap == LoopInv /\ WalkReap => LoopInv'
<1> SUFFICES ASSUME LoopInv, WalkReap PROVE LoopInv'
  OBVIOUS
<1>0. PICK x : x = next[cursor]
  OBVIOUS
<1>1. /\ phase = "reap"
      /\ mustDie' = mustDie /\ isSet' = isSet /\ fresh' = fresh
      /\ backlog' = backlog
  BY DEF WalkReap
<1>2. \/ /\ x = HEAD /\ cursor' = x /\ phase' = "accept"
         /\ next' = next /\ prev' = prev /\ live' = live
         /\ wire' = wire /\ hungUp' = hungUp
      \/ /\ x # HEAD /\ ~mustDie[x] /\ cursor' = x /\ phase' = phase
         /\ next' = next /\ prev' = prev /\ live' = live
         /\ wire' = wire /\ hungUp' = hungUp
      \/ /\ x # HEAD /\ mustDie[x] /\ Remove(x) /\ Forget(x)
         /\ cursor' = prev[x] /\ phase' = phase
  BY <1>0 DEF WalkReap, listVars, clientVars, RemovedFrom
<1>t. /\ TypeOK /\ Ring /\ live \subseteq Conns /\ cursor \in Linked
      /\ wire \in [Conns -> {"none", "cmd", "con", "junk", "body"}]
      /\ hungUp \in [Conns -> BOOLEAN]
      /\ BacklogOK /\ ListenerOK /\ FreshOK
  BY DEF LoopInv, TypeOK, CursorLives
<1>r. /\ HEAD \in Linked /\ live \subseteq Linked /\ Linked \subseteq Nodes
      /\ \A y \in Linked : next[y] \in Linked /\ prev[next[y]] = y
      /\ Linked = {HEAD, SERVER} \union live
  BY <1>t, RingFacts DEF Ring, RingIntact
<1>3. x \in Linked /\ prev[x] = cursor
  BY <1>0, <1>t, <1>r
<1>4. PICK part \in SUBSET Linked : Behind(part)
  BY <1>1 DEF LoopInv, ReapOK
<1>5. /\ HEAD \in part /\ cursor \in part
      /\ \A y \in part \ {cursor} : next[y] \in part
      /\ \A c \in part \intersect live : ~mustDie[c]
  BY <1>4 DEF Behind
<1>6. CASE /\ x = HEAD /\ cursor' = x /\ phase' = "accept"
           /\ next' = next /\ prev' = prev /\ live' = live
           /\ wire' = wire /\ hungUp' = hungUp
  <2>1. Linked' = Linked /\ Ring'
    BY <1>6, <1>t, SameList
  <2>2. part = Linked
    <3>1. \A y \in part : next[y] \in part
      BY <1>0, <1>5, <1>6
    <3> QED BY <3>1, <1>5, <1>t DEF Ring, Unbroken
  <2>3. \A c \in live : ~mustDie[c]
    BY <2>2, <1>5, <1>r
  <2>4. TypeOK'
    BY <1>1, <1>6, <1>3, <1>r, <1>t DEF TypeOK, Phases
  <2> QED
    BY <2>1, <2>3, <2>4, <1>1, <1>3, <1>6, <1>t
    DEF LoopInv, CursorLives, DoomedNeverServed, NeverWaitsForCommand, BacklogOK,
        DispatchOK, ReapOK, ListenerOK, FreshOK
<1>7. CASE /\ x # HEAD /\ ~mustDie[x] /\ cursor' = x /\ phase' = phase
           /\ next' = next /\ prev' = prev /\ live' = live
           /\ wire' = wire /\ hungUp' = hungUp
  <2>1. Linked' = Linked /\ Ring'
    BY <1>7, <1>t, SameList
  <2> DEFINE more == part \union {x}
  <2>2. \A y \in more \ {x} : next[y] \in more
    BY <1>0, <1>5
  <2>3. Behind(more)'
    BY <2>1, <2>2, <1>1, <1>3, <1>5, <1>7 DEF Behind
  <2>4. more \in SUBSET Linked
    BY <1>3
  <2>5. TypeOK'
    BY <1>1, <1>7, <1>3, <1>r, <1>t DEF TypeOK, Phases
  <2>6. ReapOK'
    BY <2>1, <2>3, <2>4 DEF ReapOK
  <2> QED
    BY <2>1, <2>5, <2>6, <1>1, <1>3, <1>7, <1>t
    DEF LoopInv, CursorLives, DoomedNeverServed, NeverWaitsForCommand, BacklogOK,
        DispatchOK, ListenerOK, FreshOK
<1>8. CASE /\ x # HEAD /\ mustDie[x] /\ Remove(x) /\ Forget(x)
           /\ cursor' = prev[x] /\ phase' = phase
  <2>1. x \in live
    <3>1. x # SERVER
      BY <1>8, <1>t DEF ListenerOK
    <3> QED BY <3>1, <1>3, <1>8, <1>r
  <2>2. /\ next' \in [Nodes -> Nodes \union {NIL}]
        /\ prev' \in [Nodes -> Nodes \union {NIL}]
        /\ live' = live \ {x}
        /\ Linked' = Linked \ {x}
        /\ prev[x] # x /\ prev[x] \in Linked
        /\ \A y \in Nodes \ {x, prev[x]} : next'[y] = next[y]
        /\ Ring'
    BY <2>1, <1>8, <1>t, RemoveKeeps
  <2>3. cursor' = cursor /\ cursor # x
    BY <2>2, <1>3, <1>8
  <2>4. /\ wire' \in [Conns -> {"none", "cmd", "con", "junk", "body"}]
        /\ hungUp' \in [Conns -> BOOLEAN]
    BY <1>8, <1>t DEF Forget
  <2>5. TypeOK'
    BY <2>2, <2>3, <2>4, <1>1, <1>8, <1>t DEF TypeOK
  <2>6. x \notin part
    BY <2>1, <1>5, <1>8
  <2>7. \A y \in part \ {cursor} : next'[y] \in part
    <3> SUFFICES ASSUME NEW y \in part \ {cursor} PROVE next'[y] \in part
      OBVIOUS
    <3>1. y \in Nodes \ {x, prev[x]}
      BY <2>6, <1>3, <1>r
    <3> QED BY <3>1, <2>2, <1>5
  <2>8. part \in SUBSET Linked'
    BY <2>2, <2>6
  <2>9. Behind(part)'
    BY <2>2, <2>3, <2>7, <2>8, <1>1, <1>5 DEF Behind
  <2>10. ReapOK'
    BY <2>8, <2>9 DEF ReapOK
  <2>11. BacklogOK'
    BY <2>2, <1>1, <1>t DEF BacklogOK
  <2> QED
    BY <2>2, <2>3, <2>5, <2>10, <2>11, <1>1, <1>8, <1>t
    DEF LoopInv, CursorLives, DoomedNeverServed, NeverWaitsForCommand,
        DispatchOK, ListenerOK, FreshOK
<1> QED BY <1>2, <1>6, <1>7, <1>8

\* The ends of a round that leave the list alone.
LEMMA LoopRoundEnds ==
  LoopInv /\ (NoAccept \/ AcceptAborts \/ Negotiate) => LoopInv'
<1> SUFFICES ASSUME LoopInv, NoAccept \/ AcceptAborts \/ Negotiate PROVE LoopInv'
  OBVIOUS
<1>t. /\ TypeOK /\ Ring /\ BacklogOK /\ live \subseteq Conns
      /\ wire \in [Conns -> {"none", "cmd", "con", "junk", "body"}]
  BY DEF LoopInv, TypeOK
<1>1. /\ phase \in {"accept", "negotiate"} /\ phase' \in {"select", "aborted"}
      /\ next' = next /\ prev' = prev /\ live' = live /\ isSet' = isSet
      /\ mustDie' = mustDie /\ cursor' = cursor /\ backlog' = backlog
      /\ hungUp' = hungUp
  BY DEF NoAccept, AcceptAborts, Negotiate, listVars, clientVars
<1>2. fresh' = NIL
  BY DEF NoAccept, AcceptAborts, Negotiate, LoopInv, FreshOK
<1>3. wire' \in [Conns -> {"none", "cmd", "con", "junk", "body"}]
  BY <1>t DEF NoAccept, AcceptAborts, Negotiate, clientVars
<1>4. TypeOK'
  BY <1>1, <1>2, <1>3, <1>t DEF TypeOK, Phases
<1>5. Linked' = Linked /\ Ring'
  BY <1>1, <1>t, SameList
<1> QED
  BY <1>1, <1>2, <1>4, <1>5, <1>t
  DEF LoopInv, CursorLives, DoomedNeverServed, NeverWaitsForCommand, BacklogOK,
      DispatchOK, ReapOK, ListenerOK, FreshOK

\* rpc_dispatch_accept, as far as the negotiation: a connection of the backlog
\* becomes a worker.
LEMMA LoopAccept == LoopInv /\ Accept => LoopInv'
<1> SUFFICES ASSUME LoopInv, Accept PROVE LoopInv'
  OBVIOUS
<1>0. PICK x : x = Head(backlog)
  OBVIOUS
<1>1. /\ phase = "accept" /\ phase' = "negotiate"
      /\ backlog # <<>> /\ backlog' = Tail(backlog)
      /\ fresh' = x /\ Insert(x)
      /\ isSet' = [isSet EXCEPT ![x] = FALSE]
      /\ mustDie' = [mustDie EXCEPT ![x] = FALSE]
      /\ cursor' = cursor /\ wire' = wire /\ hungUp' = hungUp
  BY <1>0 DEF Accept, clientVars
<1>t. /\ TypeOK /\ Ring /\ live \subseteq Conns /\ BacklogOK
      /\ backlog \in Seq(Conns)
      /\ isSet \in [Nodes -> BOOLEAN] /\ mustDie \in [Nodes -> BOOLEAN]
  BY DEF LoopInv, TypeOK
<1>2. /\ Len(backlog) \in Nat \ {0} /\ x = backlog[1]
      /\ x \in Conns /\ backlog' \in Seq(Conns)
      /\ Len(backlog') = Len(backlog) - 1
      /\ \A i \in 1..Len(backlog') : backlog'[i] = backlog[i + 1]
  BY <1>0, <1>1, <1>t
<1>3. x \notin live
  BY <1>2, <1>t DEF BacklogOK
<1>4. /\ next' \in [Nodes -> Nodes \union {NIL}]
      /\ prev' \in [Nodes -> Nodes \union {NIL}]
      /\ live' = live \union {x}
      /\ Linked' = Linked \union {x}
      /\ Ring'
  BY <1>1, <1>2, <1>3, <1>t, InsertKeeps
<1>5. TypeOK'
  <2>1. isSet' \in [Nodes -> BOOLEAN] /\ mustDie' \in [Nodes -> BOOLEAN]
    BY <1>1, <1>t
  <2> QED BY <2>1, <1>1, <1>2, <1>4, <1>t DEF TypeOK, Phases
<1>6. BacklogOK'
  <2>1. \A i \in 1..Len(backlog') : i + 1 \in 1..Len(backlog)
    BY <1>2
  <2>2. \A i \in 1..Len(backlog') : backlog'[i] \notin live'
    <3> SUFFICES ASSUME NEW i \in 1..Len(backlog') PROVE backlog'[i] \notin live'
      OBVIOUS
    <3>1. backlog[i + 1] \notin live
      BY <2>1, <1>t DEF BacklogOK
    <3>2. 1 \in 1..Len(backlog) /\ i + 1 # 1
      BY <1>2
    <3>3. backlog[i + 1] # backlog[1]
      BY <2>1, <3>2, <1>t DEF BacklogOK
    <3> QED BY <3>1, <3>3, <1>2, <1>4
  <2>3. \A i, j \in 1..Len(backlog') : backlog'[i] = backlog'[j] => i = j
    <3> SUFFICES ASSUME NEW i \in 1..Len(backlog'), NEW j \in 1..Len(backlog'),
                        backlog'[i] = backlog'[j]
                 PROVE  i = j
      OBVIOUS
    <3>1. backlog[i + 1] = backlog[j + 1]
      BY <1>2
    <3>2. i + 1 = j + 1
      BY <2>1, <3>1, <1>t DEF BacklogOK
    <3> QED BY <3>2
  <2> QED BY <2>2, <2>3 DEF BacklogOK
<1>7. CursorLives' /\ FreshOK'
  BY <1>1, <1>4 DEF LoopInv, CursorLives, FreshOK
<1>8. DoomedNeverServed'
  <2>1. \A c \in live : ~mustDie[c]
    BY <1>1 DEF LoopInv, DoomedNeverServed
  <2>2. \A c \in live' : ~mustDie'[c]
    BY <2>1, <1>1, <1>2, <1>4, <1>t, NodeFacts
  <2> QED BY <2>2, <1>1 DEF DoomedNeverServed
<1>9. NeverWaitsForCommand' /\ DispatchOK' /\ ReapOK' /\ ListenerOK'
  BY <1>1, <1>2, <1>t, NodeFacts
  DEF LoopInv, NeverWaitsForCommand, DispatchOK, ReapOK, ListenerOK
<1> QED BY <1>4, <1>5, <1>6, <1>7, <1>8, <1>9 DEF LoopInv

\* The Catch of rpc_dispatch_accept: the worker goes again.
LEMMA LoopNegotiateFails == LoopInv /\ NegotiateFails => LoopInv'
<1> SUFFICES ASSUME LoopInv, NegotiateFails PROVE LoopInv'
  OBVIOUS
<1>0. PICK x : x = fresh
  OBVIOUS
<1>1. /\ phase = "negotiate" /\ phase' = "select" /\ fresh' = NIL
      /\ Remove(x) /\ Forget(x)
      /\ isSet' = isSet /\ mustDie' = mustDie /\ cursor' = cursor
      /\ backlog' = backlog
  BY <1>0 DEF NegotiateFails
<1>t. /\ TypeOK /\ Ring /\ live \subseteq Conns /\ BacklogOK
      /\ wire \in [Conns -> {"none", "cmd", "con", "junk", "body"}]
      /\ hungUp \in [Conns -> BOOLEAN]
  BY DEF LoopInv, TypeOK
<1>2. x \in live
  BY <1>0, <1>1 DEF LoopInv, FreshOK
<1>3. /\ next' \in [Nodes -> Nodes \union {NIL}]
      /\ prev' \in [Nodes -> Nodes \union {NIL}]
      /\ live' = live \ {x}
      /\ Linked' = Linked \ {x}
      /\ Ring'
  BY <1>1, <1>2, <1>t, RemoveKeeps
<1>4. cursor = HEAD /\ cursor \in Linked'
  BY <1>1, <1>2, <1>3, <1>t, NodeFacts DEF LoopInv, CursorLives
<1>5. TypeOK'
  <2>1. /\ wire' \in [Conns -> {"none", "cmd", "con", "junk", "body"}]
        /\ hungUp' \in [Conns -> BOOLEAN]
    BY <1>1, <1>t DEF Forget
  <2> QED BY <2>1, <1>1, <1>3, <1>t DEF TypeOK, Phases
<1>6. BacklogOK'
  BY <1>1, <1>3, <1>t DEF BacklogOK
<1>7. /\ CursorLives' /\ DoomedNeverServed' /\ NeverWaitsForCommand'
      /\ DispatchOK' /\ ReapOK' /\ ListenerOK' /\ FreshOK'
  BY <1>1, <1>3, <1>4
  DEF LoopInv, CursorLives, DoomedNeverServed, NeverWaitsForCommand, DispatchOK,
      ReapOK, ListenerOK, FreshOK
<1> QED BY <1>3, <1>5, <1>6, <1>7 DEF LoopInv

\* A step of nobody keeps the invariant.
LEMMA LoopStutter == LoopInv /\ UNCHANGED vars => LoopInv'
<1> SUFFICES ASSUME LoopInv, UNCHANGED vars PROVE LoopInv'
  OBVIOUS
<1>1. /\ next' = next /\ prev' = prev /\ live' = live /\ isSet' = isSet
      /\ mustDie' = mustDie /\ phase' = phase /\ cursor' = cursor
      /\ fresh' = fresh /\ backlog' = backlog /\ wire' = wire
      /\ hungUp' = hungUp
  BY DEF vars, listVars, loopVars, clientVars
<1>2. TypeOK /\ Ring
  BY DEF LoopInv
<1>3. Linked' = Linked /\ Ring'
  BY <1>1, <1>2, SameList
<1>4. TypeOK' /\ BacklogOK' /\ ListenerOK' /\ FreshOK'
  BY <1>1 DEF LoopInv, TypeOK, BacklogOK, ListenerOK, FreshOK
<1>5. CursorLives' /\ DoomedNeverServed' /\ NeverWaitsForCommand'
  BY <1>1, <1>3
  DEF LoopInv, CursorLives, DoomedNeverServed, NeverWaitsForCommand, Readable
<1>6. DispatchOK'
  <2> SUFFICES ASSUME phase \in {"dispatch", "command", "body"}
               PROVE  \E part \in SUBSET Linked : Ahead(part)'
    BY <1>1, <1>3 DEF DispatchOK
  <2>1. PICK part \in SUBSET Linked : Ahead(part)
    BY DEF LoopInv, DispatchOK
  <2>2. \A c \in part \intersect live :
          mustDie'[c] = mustDie[c] /\ (Readable(c) => Readable(c)')
    BY <1>1 DEF Readable
  <2>3. Ahead(part)'
    BY <2>1, <2>2, <1>1, <1>2, AheadStays
  <2> QED BY <2>3
<1>7. ReapOK'
  BY <1>1, <1>3 DEF LoopInv, ReapOK, Behind
<1> QED BY <1>3, <1>4, <1>5, <1>6, <1>7 DEF LoopInv

\* The invariant holds in every reachable state.
LEMMA LoopInvHolds == Spec => []LoopInv
<1>1. LoopInv /\ [Next]_vars => LoopInv'
  BY LoopClient, LoopSelect, LoopWalkDispatch, LoopHandler, LoopWalkReap,
     LoopRoundEnds, LoopAccept, LoopNegotiateFails, LoopStutter
  DEF Next, ServerStep, Handler
<1> QED BY LoopInit, <1>1, PTL DEF Spec

-----------------------------------------------------------------------------
\* Type correctness.
THEOREM ServerTypes == Spec => []TypeOK
<1>1. LoopInv => TypeOK
  BY DEF LoopInv
<1> QED BY LoopInvHolds, <1>1, PTL

\* The list of transports is one ring of the head, the listener and exactly the
\* allocated workers.
THEOREM ListIsOneRing == Spec => []OneRing
<1>1. LoopInv => OneRing
  BY DEF LoopInv, Ring, OneRing
<1> QED BY LoopInvHolds, <1>1, PTL

\* The loop's node is never freed memory, although workers are removed during
\* the walk.
THEOREM LoopNodeLives == Spec => []CursorLives
<1>1. LoopInv => CursorLives
  BY DEF LoopInv
<1> QED BY LoopInvHolds, <1>1, PTL

\* A worker that must die is not dispatched again and is freed in its round.
THEOREM DoomedAreReaped == Spec => []DoomedNeverServed
<1>1. LoopInv => DoomedNeverServed
  BY DEF LoopInv
<1> QED BY LoopInvHolds, <1>1, PTL

\* The loop blocks for a command or a connection in select only.
THEOREM BlocksInSelectOnly == Spec => []WaitsInSelect
<1>1. LoopInv => WaitsInSelect
  BY DEF LoopInv, ListenerOK, AcceptNeverBlocks, WaitsInSelect
<1> QED BY LoopInvHolds, <1>1, PTL
-----------------------------------------------------------------------------
(* A pass of the loop.                                                     *)

\* The workers dispatched since select returned: a history of the loop, which
\* takes no part in it.
VARIABLE served

passVars == <<vars, served>>

Returns == phase = "select" /\ phase' = "dispatch"
Dispatches == phase = "dispatch" /\ phase' = "command"

PassInit == Init /\ served = {}

PassNext ==
  /\ Next
  /\ served' = IF Returns THEN {}
               ELSE IF Dispatches THEN served \union {cursor'} ELSE served

PassSpec == PassInit /\ [][PassNext]_passVars

\* Once the first walk is over, no worker is left that select saw readable and
\* that was not dispatched.
AllServed ==
  phase \in {"reap", "accept", "negotiate", "select"} =>
    \A c \in live : isSet[c] => c \in served

\* No worker is dispatched again before the next select.
DispatchedAgain == Dispatches /\ cursor' \in served

\* The nodes the first walk has passed, up to the loop's node: it goes on
\* behind them, or is back at the head, and who of them was readable was
\* dispatched, and nobody else.
Passed(done) ==
  /\ done \subseteq Linked
  /\ HEAD \in done /\ cursor \in done
  /\ \A x \in done \ {cursor} : next[x] \in done
  /\ \A x \in done \ {HEAD} : prev[x] \in done
  /\ next[cursor] \in done => next[cursor] = HEAD
  /\ served \subseteq done
  /\ \A c \in done \intersect live : isSet[c] => c \in served

WalkOK ==
  phase \in {"dispatch", "command", "body"} =>
    \E done \in SUBSET Linked : Passed(done)

\* transport_select returns: nobody has been dispatched.
LEMMA PassReturns ==
  ASSUME LoopInv, Select, served' = {}
  PROVE  WalkOK' /\ AllServed'
<1>1. /\ phase = "select" /\ phase' = "dispatch"
      /\ next' = next /\ prev' = prev /\ live' = live /\ cursor' = cursor
  BY DEF Select, listVars
<1>2. cursor = HEAD /\ HEAD \in Linked /\ HEAD \notin live
  BY <1>1, RingFacts, NodeFacts DEF LoopInv, CursorLives, Ring, TypeOK
<1>3. Passed({HEAD})'
  BY <1>1, <1>2 DEF Passed, Linked
<1>4. {HEAD} \in SUBSET Linked'
  BY <1>1, <1>2 DEF Linked
<1> QED BY <1>1, <1>3, <1>4 DEF WalkOK, AllServed

\* The first walk goes on by one node.
LEMMA PassGoesOn ==
  ASSUME LoopInv, WalkOK, WalkDispatch,
         served' = IF phase' = "command" THEN served \union {cursor'} ELSE served
  PROVE  WalkOK' /\ AllServed' /\ (phase' = "command" => cursor' \notin served)
<1>0. PICK y : y = next[cursor]
  OBVIOUS
<1>1. /\ phase = "dispatch" /\ cursor' = y
      /\ phase' = IF y = HEAD THEN "reap"
                  ELSE IF isSet[y] /\ y # SERVER THEN "command" ELSE "dispatch"
      /\ next' = next /\ prev' = prev /\ live' = live /\ isSet' = isSet
  BY <1>0 DEF WalkDispatch, listVars
<1>2. PICK done \in SUBSET Linked : Passed(done)
  BY <1>1 DEF WalkOK
<1>3. /\ Linked = {HEAD, SERVER} \union live
      /\ \A x \in Linked : /\ next[x] \in Linked /\ prev[x] \in Linked
                           /\ prev[next[x]] = x /\ next[prev[x]] = x
  BY RingFacts DEF LoopInv, Ring, RingIntact
<1>4. cursor \in done /\ cursor \in Linked /\ y \in Linked /\ prev[y] = cursor
  BY <1>0, <1>2, <1>3 DEF Passed
<1>5. HEAD \notin live /\ SERVER \notin live /\ HEAD # SERVER
  BY NodeFacts DEF LoopInv, TypeOK
<1>6. CASE y = HEAD
  <2>1. \A x \in done : next[x] \in done
    BY <1>0, <1>2, <1>6 DEF Passed
  <2>2. done = Linked
    BY <1>2, <2>1 DEF LoopInv, Ring, Unbroken, Passed
  <2>3. \A c \in live : isSet[c] => c \in served
    BY <1>2, <1>3, <2>2 DEF Passed
  <2>4. phase' = "reap" /\ served' = served
    BY <1>1, <1>6
  <2> QED BY <1>1, <2>3, <2>4 DEF WalkOK, AllServed
<1>7. CASE y # HEAD
  <2> DEFINE more == done \union {y}
             z == next[y]
  <2>1. y \notin done /\ y \notin served
    BY <1>0, <1>2, <1>7 DEF Passed
  <2>2. z \in Linked /\ prev[z] = y
    BY <1>3, <1>4
  <2>3. z \in more => z = HEAD
    <3>1. ASSUME z = y PROVE FALSE
      BY <1>4, <2>1, <2>2, <3>1
    <3>2. ASSUME z \in done, z # HEAD PROVE FALSE
      BY <1>2, <2>1, <2>2, <3>2 DEF Passed
    <3> QED BY <3>1, <3>2
  <2>4. /\ more \subseteq Linked /\ HEAD \in more /\ y \in more
        /\ \A x \in more \ {y} : next[x] \in more
        /\ \A x \in more \ {HEAD} : prev[x] \in more
    BY <1>0, <1>2, <1>4, <1>7 DEF Passed
  <2>5. /\ phase' \in {"dispatch", "command"}
        /\ phase' = "command" => served' = served \union {y}
        /\ phase' # "command" => served' = served
        /\ y \in live /\ isSet[y] => phase' = "command"
    BY <1>1, <1>5, <1>7
  <2>6. /\ served' \subseteq more
        /\ \A c \in more \intersect live : isSet[c] => c \in served'
    BY <1>2, <2>5 DEF Passed
  <2>7. Linked' = Linked
    BY <1>1 DEF Linked
  <2>8. Passed(more)'
    <3> HIDE DEF more
    <3>1. next'[cursor'] \in more => next'[cursor'] = HEAD
      BY <1>1, <2>3
    <3> QED BY <1>1, <2>4, <2>6, <2>7, <3>1 DEF Passed
  <2>9. more \in SUBSET Linked'
    BY <2>4, <2>7
  <2> QED BY <1>1, <2>1, <2>5, <2>8, <2>9 DEF WalkOK, AllServed
<1> QED BY <1>6, <1>7

\* What is no step of the first walk leaves what it has passed alone.
LEMMA PassStays ==
  ASSUME WalkOK, AllServed, UNCHANGED <<listVars, isSet, cursor, served>>,
         phase' = phase \/ (/\ phase \in {"command", "body"}
                            /\ phase' \in {"dispatch", "body", "left"})
  PROVE  WalkOK' /\ AllServed'
<1>1. /\ next' = next /\ prev' = prev /\ live' = live /\ isSet' = isSet
      /\ cursor' = cursor /\ served' = served
  BY DEF listVars
<1>2. Linked' = Linked
  BY <1>1 DEF Linked
<1>3. \A done : Passed(done)' <=> Passed(done)
  BY <1>1, <1>2 DEF Passed
<1>4. WalkOK'
  BY <1>2, <1>3 DEF WalkOK
<1>5. AllServed'
  BY <1>1 DEF AllServed
<1> QED BY <1>4, <1>5

\* After it the list only loses workers, or gets one that is not set.
LEMMA PassOver ==
  ASSUME LoopInv, AllServed, served' = served,
         WalkReap \/ NoAccept \/ Accept \/ AcceptAborts \/ Negotiate \/ NegotiateFails
  PROVE  WalkOK' /\ AllServed'
<1>1. /\ phase \in {"reap", "accept", "negotiate"}
      /\ phase' \notin {"dispatch", "command", "body"}
  BY DEF WalkReap, NoAccept, Accept, AcceptAborts, Negotiate, NegotiateFails
<1>2. CASE Accept
  <2> DEFINE c == Head(backlog)
  <2>1. /\ live' = live \union {c} /\ isSet' = [isSet EXCEPT ![c] = FALSE]
    BY <1>2 DEF Accept, Insert
  <2>2. c \in Conns /\ c \in Nodes /\ isSet \in [Nodes -> BOOLEAN] /\ live \subseteq Conns
    BY <1>2, NodeFacts DEF Accept, LoopInv, TypeOK
  <2> HIDE DEF c
  <2>3. /\ ~isSet'[c]
        /\ \A x \in live : x # c => isSet'[x] = isSet[x]
    BY <2>1, <2>2, NodeFacts
  <2> QED BY <1>1, <2>1, <2>3 DEF AllServed, WalkOK
<1>3. CASE ~Accept
  <2>1. isSet' = isSet /\ live' \subseteq live
    BY <1>3 DEF WalkReap, NoAccept, AcceptAborts, Negotiate, NegotiateFails, Remove,
       listVars
  <2> QED BY <1>1, <2>1 DEF AllServed, WalkOK
<1> QED BY <1>2, <1>3

\* Every step, and what it dispatches.
LEMMA PassStepKeeps ==
  ASSUME LoopInv, WalkOK, AllServed, [PassNext]_passVars
  PROVE  WalkOK' /\ AllServed' /\ ~DispatchedAgain
<1>1. CASE UNCHANGED passVars
  <2>1. /\ UNCHANGED <<listVars, isSet, cursor, served>> /\ phase' = phase
    BY <1>1 DEF passVars, vars, loopVars
  <2>2. ~DispatchedAgain
    BY <2>1 DEF DispatchedAgain, Dispatches
  <2> QED BY <2>1, <2>2, PassStays
<1>2. CASE PassNext /\ Select
  <2>1. Returns /\ phase' # "command"
    BY <1>2 DEF Select, Returns
  <2>2. served' = {}
    BY <1>2, <2>1 DEF PassNext
  <2> QED BY <1>2, <2>1, <2>2, PassReturns DEF DispatchedAgain, Dispatches
<1>3. CASE PassNext /\ WalkDispatch
  <2>1. phase = "dispatch"
    BY <1>3 DEF WalkDispatch
  <2>2. served' = IF phase' = "command" THEN served \union {cursor'} ELSE served
    BY <1>3, <2>1 DEF PassNext, Returns, Dispatches
  <2> QED BY <1>3, <2>2, PassGoesOn DEF DispatchedAgain, Dispatches
<1>4. CASE PassNext /\ (ClientStep \/ Handler)
  <2>1. /\ UNCHANGED <<listVars, isSet, cursor>>
        /\ phase' = phase \/ (/\ phase \in {"command", "body"}
                              /\ phase' \in {"dispatch", "body", "left"})
    BY <1>4 DEF ClientStep, Connect, SendCommand, SendBody, HangUp, loopVars, Handler,
       ReadCommand, Serve, HandlerRaises, RefuseCommand, CommandEof, BodyLost, Doom
  <2>2. ~Returns /\ ~Dispatches
    BY <2>1 DEF Returns, Dispatches
  <2>3. served' = served
    BY <1>4, <2>2 DEF PassNext
  <2> QED BY <2>1, <2>2, <2>3, PassStays DEF DispatchedAgain
<1>5. CASE PassNext /\ (\/ WalkReap \/ NoAccept \/ Accept \/ AcceptAborts
                        \/ Negotiate \/ NegotiateFails)
  <2>1. ~Returns /\ ~Dispatches
    BY <1>5 DEF Returns, Dispatches, WalkReap, NoAccept, Accept, AcceptAborts, Negotiate,
       NegotiateFails
  <2>2. served' = served
    BY <1>5, <2>1 DEF PassNext
  <2> QED BY <1>5, <2>1, <2>2, PassOver DEF DispatchedAgain
<1> QED
  BY <1>1, <1>2, <1>3, <1>4, <1>5 DEF PassNext, Next, ServerStep, Handler

\* The history only watches: the loop is the same.
LEMMA PassIsLoop == PassSpec => Spec
<1>1. [PassNext]_passVars => [Next]_vars
  BY DEF PassNext, passVars
<1> QED BY <1>1, PTL DEF PassSpec, PassInit, Spec

LEMMA PassInvHolds == PassSpec => [](WalkOK /\ AllServed)
<1>1. PassInit => WalkOK /\ AllServed
  BY DEF PassInit, Init, WalkOK, AllServed
<1>2. LoopInv /\ WalkOK /\ AllServed /\ [PassNext]_passVars => (WalkOK /\ AllServed)'
  BY PassStepKeeps
<1> QED BY <1>1, <1>2, PassIsLoop, LoopInvHolds, PTL DEF PassSpec

\* Each pass of rpc_server dispatches every worker that select saw readable, however
\* many of the others fail and must die in between: no client starves another.
THEOREM EachPassServesAll == PassSpec => []AllServed
BY PassInvHolds, PTL

\* And each of them once: a client that always has a command ready waits for the
\* others between any two.
THEOREM EachPassServesOnce == PassSpec => [][~DispatchedAgain]_passVars
<1>1. LoopInv /\ WalkOK /\ AllServed /\ [PassNext]_passVars => [~DispatchedAgain]_passVars
  BY PassStepKeeps
<1> QED BY <1>1, PassInvHolds, PassIsLoop, LoopInvHolds, PTL DEF PassSpec
=============================================================================
