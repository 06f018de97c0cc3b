-------------------------- MODULE RemotePathProofs --------------------------
(***************************************************************************)
(* For any number of helpers, any names and any width of nparents: the     *)
(* loops of helper_remote_index write every name in order, and the length  *)
(* they announce is off by the difference between the first name and the   *)
(* last but one.                                                           *)
(*                                                                         *)
(* The two loops meet in hstack: the first fills it from the end, walking  *)
(* the parents, and the second replays it from the start.  The invariant   *)
(* says of each filled entry how long its own path is, so that the walk    *)
(* never runs out of parents, and measures what was added or written so    *)
(* far by the characters of the paths of the entries.                      *)
(*                                                                         *)
(* The second half is about the requests that send such a path: for every  *)
(* kind of request and any values with it, the server looks up, in order,  *)
(* the words that dots separate in the names written, or in as many of the *)
(* last ones as nparents can count.                                        *)
(***************************************************************************)
EXTENDS RequestBody, TLAPS

\* A helper and the one it was indexed from.
HelperOK(x) ==
  /\ funcname[x] \in Names /\ Len(funcname[x]) \in Nat /\ extent[x] \in Nat
  /\ said[x] \in Seq(Names)
  /\ nparents[x] < Len(said[x])
  /\ Len(said[x]) <= Wrap => nparents[x] + 1 = Len(said[x])
  /\ \/ /\ parent[x] = NoHelper
        /\ said[x] = <<funcname[x]>> /\ Len(said[x]) = 1
        /\ extent[x] = Len(funcname[x])
     \/ /\ parent[x] \in made
        /\ said[x] = Append(said[parent[x]], funcname[x])
        /\ Len(said[parent[x]]) > 0
        /\ extent[x] = extent[parent[x]] + 1 + Len(funcname[x])

GraphOK == \A x \in made : HelperOK(x)

\* hstack from lo on: each entry is the parent of the next, the last one of
\* the helper itself, and knows how many names lead to it.
Chain(lo) ==
  /\ hstack[nparents[of] - 1] = parent[of]
  /\ \A k \in lo..nparents[of]-1 :
       /\ hstack[k] \in made
       /\ Len(said[hstack[k]]) + nparents[of] = Len(said[of]) + k
  /\ \A k \in lo+1..nparents[of]-1 : hstack[k - 1] = parent[hstack[k]]

\* The length the first loop would come to if it went on to the root.
Whole == Len(funcname[of]) + Len(funcname[parent[of]]) + 1 + extent[parent[of]]

IdleOK == at = "idle" => i = 0 /\ names = <<>> /\ written = 0

\* The first loop.
LengthsOK ==
  at = "lengths" =>
    /\ of \in made /\ nparents[of] > 0
    /\ i \in 0..nparents[of]-1
    /\ Chain(i)
    /\ len + extent[hstack[i]] = Whole
    /\ names = <<>> /\ written = 0

\* The length that was written.
ClaimOK ==
  at \in {"names", "sent"} =>
    /\ of \in made
    /\ IF nparents[of] = 0 THEN claimed = Len(funcname[of])
       ELSE Chain(0) /\ claimed + extent[hstack[0]] = Whole

\* The second loop.
NamesOK ==
  at = "names" =>
    /\ i \in 0..nparents[of]
    /\ i = 0 => names = <<>> /\ written = 0
    /\ i > 0 => /\ written + extent[hstack[0]] =
                     extent[hstack[i - 1]] + Len(funcname[hstack[0]]) + 1
                /\ Len(said[of]) <= Wrap => names = said[hstack[i - 1]]

\* After the last name.
SentOK ==
  at = "sent" =>
    /\ IF nparents[of] = 0 THEN written = Len(funcname[of])
       ELSE written + extent[hstack[0]] =
              extent[parent[of]] + Len(funcname[hstack[0]]) + 1 + Len(funcname[of])
    /\ Len(said[of]) <= Wrap => names = said[of]

PathInv ==
  PathTypeOK /\ GraphOK /\ IdleOK /\ LengthsOK /\ ClaimOK /\ NamesOK /\ SentOK

-----------------------------------------------------------------------------
LEMMA PathInitInv == PathInit => PathInv
<1> SUFFICES ASSUME PathInit PROVE PathInv
  OBVIOUS
<1>1. PathTypeOK
  BY PathAssumption DEF PathInit, PathTypeOK
<1>2. QED
  BY <1>1 DEF PathInit, PathInv, GraphOK, IdleOK, LengthsOK, ClaimOK, NamesOK, SentOK

\* A new helper leaves those already made as they are.
LEMMA OthersKept ==
  ASSUME PathTypeOK, GraphOK, NEW x \in Helpers \ made,
         made' = made \union {x},
         \A y \in made : /\ funcname'[y] = funcname[y] /\ extent'[y] = extent[y]
                        /\ said'[y] = said[y] /\ nparents'[y] = nparents[y]
                        /\ parent'[y] = parent[y],
         HelperOK(x)'
  PROVE  GraphOK'
<1> SUFFICES ASSUME NEW y \in made PROVE HelperOK(y)'
  BY DEF GraphOK
<1>1. HelperOK(y)
  BY DEF GraphOK
<1>2. CASE parent[y] = NoHelper
  BY <1>1, <1>2, PathAssumption DEF HelperOK, PathTypeOK
<1>3. CASE parent[y] # NoHelper
  <2>1. parent[y] \in made
    BY <1>1, <1>3 DEF HelperOK
  <2>2. said'[parent[y]] = said[parent[y]] /\ extent'[parent[y]] = extent[parent[y]]
    BY <2>1
  <2>3. QED
    BY <1>1, <1>3, <2>1, <2>2 DEF HelperOK
<1>4. QED
  BY <1>2, <1>3

LEMMA CreateKeeps ==
  ASSUME PathInv, NEW x \in Helpers, NEW name \in Names, Create(x, name)
  PROVE  PathInv'
<1> USE DEF Create
<1>1. PathTypeOK /\ x \in Helpers \ made /\ Len(name) \in Nat /\ Wrap \in Nat \ {0}
  BY PathAssumption DEF PathInv
<1>2. <<name>> \in Seq(Names) /\ Len(<<name>>) = 1
  BY <1>1
<1>3. PathTypeOK'
  BY <1>1, <1>2 DEF PathTypeOK, loop
<1>4. HelperOK(x)'
  BY <1>1, <1>2 DEF HelperOK, PathTypeOK
<1>5. GraphOK'
  BY <1>1, <1>4, OthersKept DEF PathInv, PathTypeOK
<1>6. QED
  BY <1>3, <1>5
     DEF PathInv, IdleOK, LengthsOK, ClaimOK, NamesOK, SentOK, loop

\* nparents stays below the number of names, and is one less than it as long
\* as it can be.
LEMMA NextCountOK ==
  ASSUME NEW c \in 0..Wrap-1, NEW l \in Nat, c < l, l <= Wrap => c + 1 = l
  PROVE  /\ NextCount(c) \in 0..Wrap-1
         /\ NextCount(c) < l + 1
         /\ l + 1 <= Wrap => NextCount(c) + 1 = l + 1
  BY PathAssumption DEF NextCount

LEMMA IndexKeeps ==
  ASSUME PathInv, NEW x \in Helpers, NEW y \in Helpers, NEW name \in Names,
         IndexHelper(y, x, name)
  PROVE  PathInv'
<1>1. /\ PathTypeOK /\ y \in made /\ x \in Helpers \ made /\ Len(name) \in Nat
      /\ nparents[y] \in 0..Wrap-1
  BY PathAssumption DEF PathInv, PathTypeOK, IndexHelper
<1>2. HelperOK(y) /\ y # x
  BY <1>1 DEF PathInv, GraphOK
<1>3. /\ said[y] \in Seq(Names) /\ Len(said[y]) \in Nat /\ extent[y] \in Nat
      /\ nparents[y] < Len(said[y])
      /\ Len(said[y]) <= Wrap => nparents[y] + 1 = Len(said[y])
  BY <1>2 DEF HelperOK
<1>4. /\ Append(said[y], name) \in Seq(Names)
      /\ Len(Append(said[y], name)) = Len(said[y]) + 1
  BY <1>1, <1>3
<1> DEFINE c == NextCount(nparents[y])
<1>5. /\ c \in 0..Wrap-1
      /\ c < Len(said[y]) + 1
      /\ Len(said[y]) + 1 <= Wrap => c + 1 = Len(said[y]) + 1
  BY <1>1, <1>3, NextCountOK
<1> HIDE DEF c
<1>6. /\ parent' = [parent EXCEPT ![x] = y]
      /\ nparents' = [nparents EXCEPT ![x] = c]
      /\ funcname' = [funcname EXCEPT ![x] = name]
      /\ said' = [said EXCEPT ![x] = Append(said[y], name)]
      /\ extent' = [extent EXCEPT ![x] = extent[y] + 1 + Len(name)]
      /\ made' = made \union {x}
      /\ UNCHANGED loop /\ at = "idle"
  BY DEF IndexHelper, c
<1>7. PathTypeOK'
  <2>1. extent[y] + 1 + Len(name) \in Nat
    BY <1>1, <1>3
  <2>2. /\ made' \subseteq Helpers
        /\ parent' \in [Helpers -> Helpers \union {NoHelper}]
        /\ nparents' \in [Helpers -> 0..Wrap-1]
        /\ funcname' \in [Helpers -> Names \union {NoHelper}]
        /\ extent' \in [Helpers -> Nat]
    BY <1>1, <1>5, <1>6, <2>1 DEF PathTypeOK
  <2>3. said' \in [Helpers -> Seq(Names)]
    BY <1>1, <1>4, <1>6 DEF PathTypeOK
  <2>4. QED
    BY <1>1, <1>6, <2>2, <2>3 DEF PathTypeOK, loop
<1>8. /\ parent'[x] = y /\ nparents'[x] = c
      /\ funcname'[x] = name /\ said'[x] = Append(said[y], name)
      /\ extent'[x] = extent[y] + 1 + Len(name)
      /\ said'[y] = said[y] /\ extent'[y] = extent[y] /\ y \in made'
  BY <1>1, <1>2, <1>6 DEF PathTypeOK
<1>9. HelperOK(x)'
  <2>1. Len(said[y]) > 0
    BY <1>1, <1>3
  <2>2. extent[y] + 1 + Len(name) \in Nat
    BY <1>1, <1>3
  <2>3. QED
    BY <1>1, <1>3, <1>4, <1>5, <1>8, <2>1, <2>2 DEF HelperOK
<1>10. GraphOK'
  BY <1>1, <1>6, <1>9, OthersKept DEF PathInv, PathTypeOK
<1>11. QED
  BY <1>6, <1>7, <1>10
     DEF PathInv, IdleOK, LengthsOK, ClaimOK, NamesOK, SentOK, loop

-----------------------------------------------------------------------------
\* A helper that enough names lead to has a parent that one name fewer leads
\* to.
LEMMA ParentMade ==
  ASSUME GraphOK, NEW x \in made, Len(said[x]) > 1
  PROVE  /\ parent[x] \in made
         /\ Len(said[parent[x]]) + 1 = Len(said[x])
         /\ said[x] = Append(said[parent[x]], funcname[x])
         /\ extent[x] = extent[parent[x]] + 1 + Len(funcname[x])
<1>1. HelperOK(x)
  BY DEF GraphOK
<1>2. parent[x] \in made /\ said[x] = Append(said[parent[x]], funcname[x])
      /\ extent[x] = extent[parent[x]] + 1 + Len(funcname[x])
  <2>1. Len(said[x]) # 1
    <3>1. said[x] \in Seq(Names)
      BY <1>1 DEF HelperOK
    <3>2. Len(said[x]) \in Nat
      BY <3>1
    <3> DEFINE l == Len(said[x])
    <3>3. l \in Nat /\ l > 1
      BY <3>2
    <3> HIDE DEF l
    <3>4. l # 1
      BY <3>3
    <3>5. QED
      BY <3>4 DEF l
  <2>2. QED
    BY <1>1, <2>1, Zenon DEF HelperOK
<1>3. said[parent[x]] \in Seq(Names) /\ funcname[x] \in Names
      /\ Len(funcname[x]) \in Nat
  BY <1>1, <1>2 DEF GraphOK, HelperOK
<1>4. Len(Append(said[parent[x]], funcname[x])) = Len(said[parent[x]]) + 1
  BY <1>3
<1>5. QED
  BY <1>2, <1>4

\* In a loop the helpers do not change.
LEMMA GraphStays == GraphOK /\ UNCHANGED graph => GraphOK'
  BY DEF GraphOK, HelperOK, graph

LEMMA StartAloneKeeps ==
  ASSUME PathInv, NEW x \in Helpers, StartAlone(x)
  PROVE  PathInv'
<1> USE DEF StartAlone
<1>1. GraphOK'
  BY GraphStays DEF PathInv
<1>2. PathTypeOK'
  BY DEF PathInv, PathTypeOK, graph
<1>3. i = 0 /\ names = <<>> /\ written = 0
  BY DEF PathInv, IdleOK
<1>4. QED
  BY <1>1, <1>2, <1>3
     DEF PathInv, IdleOK, LengthsOK, ClaimOK, NamesOK, SentOK, graph

LEMMA StartNestedKeeps ==
  ASSUME PathInv, NEW x \in Helpers, StartNested(x)
  PROVE  PathInv'
<1>1. GraphOK'
  BY GraphStays DEF PathInv, StartNested
<1> DEFINE p == parent[x]
           c == nparents[x]
<1>2. PathTypeOK /\ HelperOK(x) /\ x \in made
  BY DEF PathInv, GraphOK, StartNested
<1>3. /\ c \in Nat /\ c > 0 /\ c - 1 \in 0..Wrap-1
      /\ Len(said[x]) \in Nat /\ Len(said[x]) > c /\ Wrap \in Nat
  <2>1. c \in 0..Wrap-1 /\ c > 0
    BY <1>2 DEF PathTypeOK, StartNested
  <2>2. said[x] \in Seq(Names) /\ c < Len(said[x])
    BY <1>2 DEF HelperOK
  <2>3. QED
    <3> HIDE DEF c
    <3>1. QED
      BY <2>1, <2>2, PathAssumption
<1>4. p \in made /\ Len(said[p]) + 1 = Len(said[x]) /\ Len(said[p]) \in Nat
  <2>1. Len(said[x]) > 1
    BY <1>3
  <2>2. p \in made /\ Len(said[p]) + 1 = Len(said[x])
    BY <1>2, <2>1, ParentMade DEF PathInv
  <2>3. said[p] \in Seq(Names)
    BY <2>2 DEF PathInv, GraphOK, HelperOK
  <2>4. QED
    BY <2>2, <2>3
<1>5. /\ p \in Helpers /\ funcname[x] \in Names /\ Len(funcname[x]) \in Nat
      /\ funcname[p] \in Names /\ Len(funcname[p]) \in Nat
      /\ extent[p] \in Nat
  BY <1>2, <1>4 DEF PathInv, GraphOK, HelperOK, PathTypeOK
<1>6. /\ of' = x /\ i' = c - 1 /\ at' = "lengths"
      /\ hstack' = [hstack EXCEPT ![c - 1] = p]
      /\ len' = Len(funcname[x]) + Len(funcname[p]) + 1
      /\ made' = made /\ parent' = parent /\ nparents' = nparents
      /\ said' = said /\ extent' = extent /\ funcname' = funcname
      /\ claimed' = claimed /\ names' = names /\ written' = written
      /\ at = "idle"
  BY DEF StartNested, graph
<1>7. hstack'[c - 1] = p
  BY <1>2, <1>3, <1>6 DEF PathTypeOK
<1>8. PathTypeOK'
  <2>1. hstack' \in [0..Wrap-1 -> Helpers \union {NoHelper}]
    BY <1>2, <1>5, <1>6 DEF PathTypeOK
  <2>2. len' \in Nat
    <3> DEFINE f == Len(funcname[x])
               g == Len(funcname[p])
    <3>1. f \in Nat /\ g \in Nat /\ len' = f + g + 1
      BY <1>5, <1>6
    <3> HIDE DEF f, g
    <3>2. QED
      BY <3>1
  <2>3. QED
    BY <1>2, <1>3, <1>6, <2>1, <2>2 DEF PathTypeOK
<1>9. Chain(i)'
  <2>1. (\A k \in (c-1)..(c-1) : k = c - 1) /\ (\A k \in (c-1)+1..(c-1) : FALSE)
    BY <1>3
  <2>2. Len(said[p]) + c = Len(said[x]) + (c - 1)
    <3> HIDE DEF p, c
    <3>1. QED
      BY <1>3, <1>4
  <2>3. QED
    BY <1>4, <1>6, <1>7, <2>1, <2>2 DEF Chain
<1>10. (len + extent[hstack[i]] = Whole)'
  BY <1>5, <1>6, <1>7 DEF Whole
<1>11. LengthsOK'
  <2>1. names = <<>> /\ written = 0
    BY <1>6 DEF PathInv, IdleOK
  <2>2. i' \in 0..c-1
    BY <1>3, <1>6
  <2>3. QED
    BY <1>2, <1>3, <1>6, <1>9, <1>10, <2>1, <2>2 DEF LengthsOK
<1>12. QED
  BY <1>1, <1>6, <1>8, <1>11 DEF PathInv, IdleOK, ClaimOK, NamesOK, SentOK

\* While a helper's path is built.
LEMMA LoopFacts ==
  ASSUME PathInv, of \in made
  PROVE  /\ nparents[of] \in 0..Wrap-1 /\ nparents[of] < Len(said[of])
         /\ Len(said[of]) \in Nat /\ Wrap \in Nat \ {0}
         /\ funcname[of] \in Names /\ Len(funcname[of]) \in Nat
         /\ of \in Helpers
         /\ Len(said[of]) <= Wrap => nparents[of] + 1 = Len(said[of])
<1>1. HelperOK(of) /\ PathTypeOK
  BY DEF PathInv, GraphOK
<1>2. said[of] \in Seq(Names) /\ of \in Helpers
  BY <1>1 DEF HelperOK, PathTypeOK
<1>3. nparents[of] \in 0..Wrap-1
  BY <1>1, <1>2 DEF PathTypeOK
<1>4. QED
  BY <1>1, <1>2, <1>3, PathAssumption DEF HelperOK

\* The path of a parent that does have one before it.
LEMMA MadeFacts ==
  ASSUME PathInv, NEW x \in made
  PROVE  /\ x \in Helpers /\ funcname[x] \in Names
         /\ Len(funcname[x]) \in Nat /\ extent[x] \in Nat
         /\ said[x] \in Seq(Names) /\ Len(said[x]) \in Nat
         /\ Len(said[x]) = 1 => said[x] = <<funcname[x]>> /\ extent[x] = Len(funcname[x])
<1>1. HelperOK(x) /\ PathTypeOK
  BY DEF PathInv, GraphOK
<1>2. x \in Helpers /\ said[x] \in Seq(Names)
  BY <1>1 DEF HelperOK, PathTypeOK
<1>3. funcname[x] \in Names /\ Len(funcname[x]) \in Nat /\ extent[x] \in Nat
  BY <1>1 DEF HelperOK
<1>4. Len(said[x]) = 1 => said[x] = <<funcname[x]>> /\ extent[x] = Len(funcname[x])
  <2>1. SUFFICES ASSUME Len(said[x]) = 1, parent[x] \in made,
                        said[x] = Append(said[parent[x]], funcname[x]),
                        Len(said[parent[x]]) > 0
                 PROVE  FALSE
    BY <1>1, Zenon DEF HelperOK
  <2>2. said[parent[x]] \in Seq(Names)
    BY <2>1 DEF PathInv, GraphOK, HelperOK
  <2>3. Len(said[x]) = Len(said[parent[x]]) + 1
    BY <1>3, <2>1, <2>2
  <2>4. QED
    BY <2>1, <2>2, <2>3
<1>5. QED
  BY <1>2, <1>3, <1>4

LEMMA AddLengthKeeps == PathInv /\ AddLength => PathInv'
<1> SUFFICES ASSUME PathInv, AddLength PROVE PathInv'
  OBVIOUS
<1> DEFINE c == nparents[of]
           h == hstack[i]
           p == parent[h]
<1>1. GraphOK'
  BY GraphStays DEF PathInv, AddLength
<1>2. /\ of \in made /\ i \in 0..c-1 /\ i > 0 /\ Chain(i)
      /\ len + extent[h] = Whole /\ names = <<>> /\ written = 0
      /\ PathTypeOK /\ at = "lengths"
  BY DEF PathInv, LengthsOK, AddLength
<1>3. c \in 0..Wrap-1 /\ c < Len(said[of]) /\ Len(said[of]) \in Nat
      /\ Wrap \in Nat \ {0}
  BY <1>2, LoopFacts
<1>4. h \in made /\ Len(said[h]) + c = Len(said[of]) + i
  <2>1. i \in i..c-1
    BY <1>2, <1>3
  <2>2. QED
    BY <1>2, <2>1 DEF Chain
<1>5. Len(said[h]) \in Nat /\ extent[h] \in Nat /\ funcname[h] \in Names
      /\ Len(funcname[h]) \in Nat
  BY <1>4, MadeFacts
<1>6. Len(said[h]) > 1
  <2> HIDE DEF c, h
  <2>1. QED
    BY <1>2, <1>3, <1>4, <1>5
<1>7. p \in made /\ Len(said[p]) + 1 = Len(said[h]) /\ extent[h] = extent[p] + 1 + Len(funcname[h])
  BY <1>4, <1>6, ParentMade DEF PathInv
<1>8. Len(said[p]) \in Nat /\ extent[p] \in Nat /\ p \in Helpers
  BY <1>7, MadeFacts
<1>9. /\ hstack' = [hstack EXCEPT ![i - 1] = p] /\ len' = len + Len(funcname[h]) + 1
      /\ i' = i - 1 /\ of' = of /\ at' = at /\ parent' = parent /\ made' = made
      /\ nparents' = nparents /\ said' = said /\ extent' = extent
      /\ funcname' = funcname /\ names' = names /\ written' = written
      /\ claimed' = claimed
  BY DEF AddLength, RoundLength, graph
<1>10. i - 1 \in 0..Wrap-1 /\ c - 1 \in 0..Wrap-1 /\ i - 1 # c - 1 /\ len \in Nat
  <2>1. len \in Nat
    BY <1>2 DEF PathTypeOK
  <2> HIDE DEF c
  <2>2. QED
    BY <1>2, <1>3, <2>1
<1>11. hstack'[i - 1] = p /\ \A k \in 0..Wrap-1 : k # i - 1 => hstack'[k] = hstack[k]
  BY <1>2, <1>9, <1>10 DEF PathTypeOK
<1>12. PathTypeOK'
  <2>1. hstack' \in [0..Wrap-1 -> Helpers \union {NoHelper}]
    BY <1>2, <1>8, <1>9 DEF PathTypeOK
  <2>2. len' \in Nat
    BY <1>5, <1>9, <1>10
  <2>3. QED
    BY <1>2, <1>9, <1>10, <2>1, <2>2 DEF PathTypeOK
<1>13. Chain(i)'
  <2>1. hstack'[c - 1] = parent[of]
    BY <1>2, <1>10, <1>11 DEF Chain
  <2>2. \A k \in (i-1)..c-1 : k \in 0..Wrap-1 /\ (k = i - 1 \/ (k # i - 1 /\ k \in i..c-1))
    <3> HIDE DEF c
    <3>1. QED
      BY <1>2, <1>3
  <2>3. Len(said[p]) + c = Len(said[of]) + (i - 1)
    <3> DEFINE l == Len(said[p])
               m == Len(said[h])
               t == Len(said[of])
    <3>1. /\ c \in Nat /\ i \in Nat /\ l \in Nat /\ m \in Nat /\ t \in Nat
          /\ m + c = t + i /\ l + 1 = m
      BY <1>2, <1>3, <1>4, <1>5, <1>7, <1>8
    <3> HIDE DEF c, l, m, t
    <3>2. l + c = t + (i - 1)
      BY <3>1
    <3>3. QED
      BY <3>2 DEF l, t
  <2>4. \A k \in (i-1)..c-1 : hstack'[k] \in made
                             /\ Len(said[hstack'[k]]) + c = Len(said[of]) + k
    BY <1>2, <1>7, <1>11, <2>2, <2>3 DEF Chain
  <2>5. ASSUME NEW k \in (i-1)+1..c-1
        PROVE  hstack'[k - 1] = parent[hstack'[k]]
    <3>1. /\ k \in 0..Wrap-1 /\ k # i - 1
          /\ k = i \/ (k \in i+1..c-1 /\ k - 1 \in 0..Wrap-1 /\ k - 1 # i - 1)
      <4> HIDE DEF c
      <4>1. QED
        BY <1>2, <1>3
    <3>2. hstack'[k] = hstack[k]
      BY <1>11, <3>1
    <3>3. CASE k = i
      BY <1>11, <3>2, <3>3
    <3>4. CASE k \in i+1..c-1 /\ k - 1 \in 0..Wrap-1 /\ k - 1 # i - 1
      <4>1. hstack[k - 1] = parent[hstack[k]]
        BY <1>2, <3>4 DEF Chain
      <4>2. QED
        BY <1>11, <3>2, <3>4, <4>1
    <3>5. QED
      BY <3>1, <3>3, <3>4
  <2>6. QED
    BY <1>9, <2>1, <2>4, <2>5 DEF Chain
<1>14. (len + extent[hstack[i]] = Whole)'
  <2>1. len' + extent'[hstack'[i']] = len + Len(funcname[h]) + 1 + extent[p]
    BY <1>9, <1>11
  <2>2. len + Len(funcname[h]) + 1 + extent[p] = len + extent[h]
    <3> DEFINE f == Len(funcname[h])
               e == extent[h]
               d == extent[p]
    <3>1. f \in Nat /\ e \in Nat /\ d \in Nat /\ len \in Nat /\ e = d + 1 + f
      BY <1>5, <1>7, <1>8, <1>10
    <3> HIDE DEF f, e, d
    <3>2. len + f + 1 + d = len + e
      BY <3>1
    <3>3. QED
      BY <3>2 DEF f, e, d
  <2>3. Whole' = Whole
    BY <1>9 DEF Whole
  <2>4. QED
    BY <1>2, <2>1, <2>2, <2>3
<1>15. LengthsOK'
  <2>1. i' \in 0..c-1 /\ c > 0
    <3> HIDE DEF c
    <3>1. QED
      BY <1>2, <1>3, <1>9
  <2>2. QED
    BY <1>2, <1>9, <1>13, <1>14, <2>1 DEF LengthsOK
<1>16. QED
  BY <1>1, <1>2, <1>9, <1>12, <1>15 DEF PathInv, IdleOK, ClaimOK, NamesOK, SentOK

LEMMA WriteLengthKeeps == PathInv /\ WriteLength => PathInv'
<1> SUFFICES ASSUME PathInv, WriteLength PROVE PathInv'
  OBVIOUS
<1>1. GraphOK'
  BY GraphStays DEF PathInv, WriteLength
<1>2. /\ of \in made /\ nparents[of] > 0 /\ i = 0 /\ Chain(0)
      /\ len + extent[hstack[0]] = Whole /\ names = <<>> /\ written = 0
      /\ PathTypeOK
  BY DEF PathInv, LengthsOK, WriteLength
<1>3. nparents[of] \in Nat
  BY <1>2, LoopFacts
<1>4. PathTypeOK'
  BY <1>2 DEF PathTypeOK, WriteLength, graph
<1>5. Chain(0)' /\ Whole' = Whole
  BY <1>2 DEF Chain, Whole, WriteLength, graph
<1>6. ClaimOK'
  BY <1>2, <1>3, <1>5 DEF ClaimOK, WriteLength, graph
<1>7. NamesOK'
  BY <1>2, <1>3 DEF NamesOK, WriteLength, graph
<1>8. QED
  BY <1>1, <1>4, <1>6, <1>7 DEF PathInv, IdleOK, LengthsOK, SentOK, WriteLength

\* Entry 0 is the root when nparents has counted every parent.
LEMMA Roots ==
  ASSUME PathInv, of \in made, nparents[of] > 0, Chain(0)
  PROVE  \A k \in 0..nparents[of]-1 :
           /\ hstack[k] \in made /\ hstack[k] \in Helpers
           /\ funcname[hstack[k]] \in Names
           /\ Len(funcname[hstack[k]]) \in Nat /\ extent[hstack[k]] \in Nat
           /\ k > 0 => /\ hstack[k - 1] = parent[hstack[k]]
                       /\ extent[hstack[k]] =
                            extent[hstack[k - 1]] + 1 + Len(funcname[hstack[k]])
                       /\ said[hstack[k]] =
                            Append(said[hstack[k - 1]], funcname[hstack[k]])
           /\ k = 0 /\ Len(said[of]) <= Wrap =>
                said[hstack[0]] = <<funcname[hstack[0]]>>
<1> DEFINE c == nparents[of]
<1>1. /\ c \in Nat /\ Len(said[of]) \in Nat /\ c < Len(said[of])
      /\ Len(said[of]) <= Wrap => c + 1 = Len(said[of])
  BY LoopFacts
<1> SUFFICES ASSUME NEW k \in 0..c-1
             PROVE  /\ hstack[k] \in made /\ hstack[k] \in Helpers
                    /\ funcname[hstack[k]] \in Names
                    /\ Len(funcname[hstack[k]]) \in Nat /\ extent[hstack[k]] \in Nat
                    /\ k > 0 => /\ hstack[k - 1] = parent[hstack[k]]
                                /\ extent[hstack[k]] =
                                     extent[hstack[k - 1]] + 1 + Len(funcname[hstack[k]])
                                /\ said[hstack[k]] =
                                     Append(said[hstack[k - 1]], funcname[hstack[k]])
                    /\ k = 0 /\ Len(said[of]) <= Wrap =>
                         said[hstack[0]] = <<funcname[hstack[0]]>>
  OBVIOUS
<1> DEFINE h == hstack[k]
<1>2. h \in made /\ Len(said[h]) + c = Len(said[of]) + k
  BY DEF Chain
<1>3. h \in Helpers /\ funcname[h] \in Names /\ Len(funcname[h]) \in Nat
      /\ extent[h] \in Nat /\ Len(said[h]) \in Nat
      /\ (Len(said[h]) = 1 => said[h] = <<funcname[h]>>)
  BY <1>2, MadeFacts
<1>4. ASSUME k > 0
      PROVE  /\ hstack[k - 1] = parent[h]
             /\ extent[h] = extent[hstack[k - 1]] + 1 + Len(funcname[h])
             /\ said[h] = Append(said[hstack[k - 1]], funcname[h])
  <2>1. Len(said[h]) > 1
    <3> HIDE DEF c, h
    <3>1. QED
      BY <1>1, <1>2, <1>3, <1>4
  <2>2. k \in 0+1..c-1
    <3> HIDE DEF c
    <3>1. QED
      BY <1>1, <1>4
  <2>3. hstack[k - 1] = parent[h]
    BY <2>2 DEF Chain
  <2>4. QED
    BY <1>2, <2>1, <2>3, ParentMade DEF PathInv
<1>5. ASSUME k = 0, Len(said[of]) <= Wrap
      PROVE  Len(said[h]) = 1
  <2> DEFINE l == Len(said[h])
             t == Len(said[of])
  <2>1. l + c = t + 0 /\ c + 1 = t /\ l \in Nat /\ c \in Nat /\ t \in Nat
    BY <1>1, <1>2, <1>3, <1>5
  <2> HIDE DEF c, l, t
  <2>2. l = 1
    BY <2>1
  <2>3. QED
    BY <2>2 DEF l
<1>6. QED
  BY <1>2, <1>3, <1>4, <1>5

LEMMA WriteNameKeeps == PathInv /\ WriteName => PathInv'
<1> SUFFICES ASSUME PathInv, WriteName PROVE PathInv'
  OBVIOUS
<1> DEFINE c == nparents[of]
           h == hstack[i]
           r == hstack[0]
<1>1. GraphOK'
  BY GraphStays DEF PathInv, WriteName
<1>2. /\ of \in made /\ i \in 0..c /\ i < c /\ PathTypeOK
      /\ i = 0 => names = <<>> /\ written = 0
      /\ i > 0 => /\ written + extent[r] = extent[hstack[i - 1]] + Len(funcname[r]) + 1
                  /\ Len(said[of]) <= Wrap => names = said[hstack[i - 1]]
      /\ (IF c = 0 THEN claimed = Len(funcname[of])
          ELSE Chain(0) /\ claimed + extent[hstack[0]] = Whole)
  BY DEF PathInv, NamesOK, ClaimOK, WriteName
<1>3. c \in 0..Wrap-1 /\ c > 0 /\ i \in 0..c-1 /\ 0 \in 0..c-1 /\ i + 1 \in 0..Wrap-1
      /\ i \in Nat /\ i + 1 \in 0..c /\ i + 1 > 0 /\ i + 1 - 1 = i /\ (i > 0 => i - 1 \in 0..c-1)
  <2>1. c \in 0..Wrap-1 /\ Wrap \in Nat
    BY <1>2, LoopFacts
  <2> HIDE DEF c
  <2>2. QED
    BY <1>2, <2>1
<1>4. Chain(0) /\ claimed + extent[r] = Whole
  BY <1>2, <1>3
<1>5. /\ of' = of /\ hstack' = hstack /\ at' = "names" /\ at = "names" /\ i' = i + 1
      /\ names' = Append(names, funcname[h]) /\ written' = written + Len(funcname[h]) + 1
      /\ nparents' = nparents /\ said' = said /\ extent' = extent /\ made' = made
      /\ funcname' = funcname /\ parent' = parent /\ claimed' = claimed /\ len' = len
  BY DEF WriteName, NextName, graph
<1>6. /\ funcname[h] \in Names /\ Len(funcname[h]) \in Nat
      /\ extent[h] \in Nat /\ extent[r] \in Nat /\ funcname[r] \in Names
      /\ Len(funcname[r]) \in Nat
      /\ i > 0 => /\ extent[hstack[i - 1]] \in Nat
                  /\ extent[h] = extent[hstack[i - 1]] + 1 + Len(funcname[h])
                  /\ said[h] = Append(said[hstack[i - 1]], funcname[h])
      /\ i = 0 /\ Len(said[of]) <= Wrap => said[h] = <<funcname[h]>>
  BY <1>2, <1>3, <1>4, Roots
<1>7. names' \in Seq(Names) /\ written' \in Nat /\ written \in Nat
  <2>1. names \in Seq(Names) /\ written \in Nat
    BY <1>2 DEF PathTypeOK
  <2>2. QED
    BY <1>5, <1>6, <2>1
<1>8. PathTypeOK'
  BY <1>2, <1>3, <1>5, <1>7 DEF PathTypeOK
<1>9. Chain(0)' /\ Whole' = Whole
  BY <1>4, <1>5 DEF Chain, Whole
<1>10. ClaimOK'
  BY <1>2, <1>3, <1>4, <1>5, <1>9 DEF ClaimOK
<1>11. written' + extent[r] = extent[h] + Len(funcname[r]) + 1
  <2>1. CASE i = 0
    <3>1. written' = Len(funcname[r]) + 1 /\ h = r
      BY <1>2, <1>5, <1>6, <2>1
    <3>2. QED
      BY <1>6, <3>1
  <2>2. CASE i > 0
    <3> DEFINE q == extent[hstack[i - 1]]
               e == extent[r]
               f == Len(funcname[r])
               g == Len(funcname[h])
               d == extent[h]
    <3>1. /\ q \in Nat /\ e \in Nat /\ f \in Nat /\ g \in Nat /\ d \in Nat
          /\ d = q + 1 + g /\ written + e = q + f + 1 /\ written' = written + g + 1
      BY <1>2, <1>5, <1>6, <2>2
    <3> HIDE DEF q, e, f, g, d
    <3>2. written' + e = d + f + 1
      BY <1>7, <3>1
    <3>3. QED
      BY <3>2 DEF e, d, f
  <2>3. QED
    BY <1>3, <2>1, <2>2
<1>12. Len(said[of]) <= Wrap => names' = said[h]
  <2> SUFFICES ASSUME Len(said[of]) <= Wrap PROVE names' = said[h]
    OBVIOUS
  <2>1. CASE i = 0
    <3>1. Append(<<>>, funcname[h]) = <<funcname[h]>>
      BY <1>6
    <3>2. QED
      BY <1>2, <1>5, <1>6, <2>1, <3>1
  <2>2. CASE i > 0
    BY <1>2, <1>5, <1>6, <2>2
  <2>3. QED
    BY <1>3, <2>1, <2>2
<1>13. NamesOK'
  <2>1. i' = i + 1 /\ i' - 1 = i /\ i' # 0 /\ i' \in 0..c
    BY <1>3, <1>5
  <2>2. QED
    BY <1>5, <1>11, <1>12, <2>1 DEF NamesOK
<1>14. QED
  BY <1>1, <1>5, <1>8, <1>10, <1>13 DEF PathInv, IdleOK, LengthsOK, SentOK

LEMMA WriteLastKeeps == PathInv /\ WriteLast => PathInv'
<1> SUFFICES ASSUME PathInv, WriteLast PROVE PathInv'
  OBVIOUS
<1> DEFINE c == nparents[of]
           r == hstack[0]
           p == parent[of]
<1>1. GraphOK'
  BY GraphStays DEF PathInv, WriteLast
<1>2. /\ of \in made /\ i = c /\ PathTypeOK
      /\ i = 0 => names = <<>> /\ written = 0
      /\ i > 0 => /\ written + extent[r] = extent[hstack[i - 1]] + Len(funcname[r]) + 1
                  /\ Len(said[of]) <= Wrap => names = said[hstack[i - 1]]
      /\ (IF c = 0 THEN claimed = Len(funcname[of])
          ELSE Chain(0) /\ claimed + extent[hstack[0]] = Whole)
  BY DEF PathInv, NamesOK, ClaimOK, WriteLast
<1>3. c \in Nat /\ funcname[of] \in Names /\ Len(funcname[of]) \in Nat
      /\ c < Len(said[of]) /\ Len(said[of]) \in Nat
      /\ (Len(said[of]) <= Wrap => c + 1 = Len(said[of]))
  BY <1>2, LoopFacts
<1>4. /\ of' = of /\ hstack' = hstack /\ at' = "sent" /\ i' = i /\ len' = len
      /\ names' = Append(names, funcname[of]) /\ written' = written + Len(funcname[of])
      /\ nparents' = nparents /\ said' = said /\ extent' = extent /\ made' = made
      /\ funcname' = funcname /\ parent' = parent /\ claimed' = claimed
      /\ at = "names"
  BY DEF WriteLast, graph
<1>5. names \in Seq(Names) /\ written \in Nat
  BY <1>2 DEF PathTypeOK
<1>6. PathTypeOK'
  <2>1. names' \in Seq(Names) /\ written' \in Nat
    BY <1>3, <1>4, <1>5
  <2>2. QED
    BY <1>2, <1>4, <2>1 DEF PathTypeOK
<1>7. ClaimOK'
  <2>1. Whole' = Whole /\ Chain(0)' = Chain(0)
    BY <1>4 DEF Chain, Whole
  <2>2. QED
    BY <1>2, <1>4, <2>1 DEF ClaimOK
<1>8. SentOK'
  <2>1. CASE c = 0
    <3>1. written' = Len(funcname[of])
      BY <1>2, <1>3, <1>4, <2>1
    <3>2. Len(said[of]) <= Wrap => said[of] = <<funcname[of]>>
      <4>1. Len(said[of]) <= Wrap => Len(said[of]) = 1
        BY <1>3, <2>1
      <4>2. QED
        BY <1>2, <4>1, MadeFacts
    <3>3. names' = <<funcname[of]>>
      BY <1>2, <1>3, <1>4, <2>1
    <3>4. QED
      BY <1>4, <2>1, <3>1, <3>2, <3>3 DEF SentOK
  <2>2. CASE c > 0
    <3>1. Chain(0) /\ hstack[c - 1] = p /\ i > 0 /\ c - 1 \in 0..c-1 /\ 0 \in 0..c-1
      <4>1. Chain(0)
        BY <1>2, <2>2
      <4>2. hstack[c - 1] = p
        BY <4>1 DEF Chain
      <4>3. c - 1 \in 0..c-1 /\ 0 \in 0..c-1
        <5> HIDE DEF c
        <5>1. QED
          BY <1>3, <2>2
      <4>4. QED
        BY <1>2, <2>2, <4>1, <4>2, <4>3
    <3>2. p \in made /\ funcname[r] \in Names /\ Len(funcname[r]) \in Nat
          /\ extent[r] \in Nat /\ extent[p] \in Nat
      BY <1>2, <2>2, <3>1, Roots
    <3>3. /\ written + extent[r] = extent[p] + Len(funcname[r]) + 1
          /\ Len(said[of]) <= Wrap => names = said[p]
      BY <1>2, <3>1
    <3>4. said[of] = Append(said[p], funcname[of])
      <4> DEFINE t == Len(said[of])
      <4>1. t > 1
        <5>1. t \in Nat /\ c < t /\ c \in Nat /\ c > 0
          BY <1>3, <2>2
        <5> HIDE DEF c, t
        <5>2. QED
          BY <5>1
      <4>2. QED
        BY <1>2, <4>1, ParentMade DEF PathInv
    <3>5. Len(said[of]) <= Wrap => names' = said[of]
      BY <1>4, <3>3, <3>4
    <3>6. written' + extent[r] = extent[p] + Len(funcname[r]) + 1 + Len(funcname[of])
      <4> DEFINE e == extent[r]
                 f == Len(funcname[r])
                 g == Len(funcname[of])
                 d == extent[p]
      <4>1. e \in Nat /\ f \in Nat /\ g \in Nat /\ d \in Nat
            /\ written + e = d + f + 1 /\ written' = written + g
        BY <1>3, <1>4, <3>2, <3>3
      <4> HIDE DEF e, f, g, d
      <4>2. written' + e = d + f + 1 + g
        BY <1>5, <4>1
      <4>3. QED
        BY <4>2 DEF e, f, g, d
    <3>7. QED
      BY <1>3, <1>4, <2>2, <3>5, <3>6 DEF SentOK
  <2>3. QED
    BY <1>3, <2>1, <2>2
<1>9. QED
  BY <1>1, <1>4, <1>6, <1>7, <1>8 DEF PathInv, IdleOK, LengthsOK, NamesOK

LEMMA PathDoneKeeps == PathInv /\ PathDone => PathInv'
<1> SUFFICES ASSUME PathInv, PathDone PROVE PathInv'
  OBVIOUS
<1>1. GraphOK'
  BY GraphStays DEF PathInv, PathDone
<1>2. PathTypeOK'
  BY PathAssumption DEF PathInv, PathTypeOK, PathDone, graph
<1>3. QED
  BY <1>1, <1>2 DEF PathInv, IdleOK, LengthsOK, ClaimOK, NamesOK, SentOK, PathDone

LEMMA PathStepKeeps == PathInv /\ [PathNext]_pathVars => PathInv'
<1> SUFFICES ASSUME PathInv, [PathNext]_pathVars PROVE PathInv'
  OBVIOUS
<1>1. CASE \E x \in Helpers, name \in Names : Create(x, name)
  BY <1>1, CreateKeeps
<1>2. CASE \E x, y \in Helpers, name \in Names : IndexHelper(y, x, name)
  BY <1>2, IndexKeeps
<1>3. CASE \E x \in Helpers : StartAlone(x) \/ StartNested(x)
  BY <1>3, StartAloneKeeps, StartNestedKeeps
<1>4. CASE AddLength \/ WriteLength \/ WriteName \/ WriteLast
  BY <1>4, AddLengthKeeps, WriteLengthKeeps, WriteNameKeeps, WriteLastKeeps
<1>5. CASE PathDone
  BY <1>5, PathDoneKeeps
<1>6. CASE UNCHANGED pathVars
  <2>1. GraphOK'
    BY <1>6, GraphStays DEF PathInv, pathVars
  <2>2. QED
    BY <1>6, <2>1
       DEF PathInv, PathTypeOK, IdleOK, LengthsOK, ClaimOK, NamesOK, SentOK,
           Chain, Whole, pathVars, graph, loop
<1>7. QED
  BY <1>1, <1>2, <1>3, <1>4, <1>5, <1>6 DEF PathNext, PathStep

THEOREM PathInvariant == PathSpec => []PathInv
<1>1. PathInit => PathInv
  BY PathInitInv
<1>2. PathInv /\ [PathNext]_pathVars => PathInv'
  BY PathStepKeeps
<1>3. QED
  BY <1>1, <1>2, PTL DEF PathSpec

\* The types of the fields of a helper and of helper_remote_index's variables,
\* nparents within its width.
THEOREM PathTypes == PathSpec => []PathTypeOK
  BY PathInvariant, PTL DEF PathInv

LEMMA LengthFromInv == PathInv => LengthOffByEnds
<1> SUFFICES ASSUME PathInv, at = "sent" PROVE LengthOffByEnds
  BY DEF LengthOffByEnds
<1>1. /\ of \in made
      /\ nparents[of] = 0 => claimed = Len(funcname[of]) /\ written = Len(funcname[of])
      /\ nparents[of] # 0 => /\ Chain(0)
           /\ claimed + extent[hstack[0]] = Whole
           /\ written + extent[hstack[0]] =
                extent[parent[of]] + Len(funcname[hstack[0]]) + 1 + Len(funcname[of])
  BY DEF PathInv, ClaimOK, SentOK
<1>2. nparents[of] \in Nat /\ funcname[of] \in Names
      /\ Len(funcname[of]) \in Nat
  BY <1>1, LoopFacts
<1>3. ASSUME nparents[of] # 0
      PROVE  claimed + Len(funcname[hstack[0]]) = written + Len(funcname[parent[of]])
  <2> DEFINE e == extent[hstack[0]]
             f == Len(funcname[hstack[0]])
             g == Len(funcname[of])
             d == extent[parent[of]]
             q == Len(funcname[parent[of]])
  <2>1. /\ nparents[of] > 0 /\ nparents[of] - 1 \in 0..nparents[of]-1
        /\ 0 \in 0..nparents[of]-1
    BY <1>2, <1>3
  <2>2. hstack[nparents[of] - 1] = parent[of]
    BY <1>1, <1>3 DEF Chain
  <2>3. e \in Nat /\ f \in Nat /\ g \in Nat /\ d \in Nat /\ q \in Nat
    BY <1>1, <1>2, <1>3, <2>1, <2>2, Roots
  <2>4. claimed \in Nat /\ written \in Nat
    BY DEF PathInv, PathTypeOK
  <2>5. claimed + e = g + q + 1 + d /\ written + e = d + f + 1 + g
    BY <1>1, <1>3 DEF Whole
  <2> HIDE DEF e, f, g, d, q
  <2>6. claimed + f = written + q
    BY <2>3, <2>4, <2>5
  <2>7. QED
    BY <2>6 DEF f, q
<1>4. QED
  BY <1>1, <1>3 DEF LengthOffByEnds

\* The length helper_remote_index announces, for every chain of helpers: the
\* first loop counts the last parent twice and the first never.
THEOREM LengthError == PathSpec => []LengthOffByEnds
  BY LengthFromInv, PathInvariant, PTL

\* The names helper_remote_index replays are those the program wrote, for every
\* chain that nparents can count.
THEOREM NamesComplete == PathSpec => []WholePathWritten
<1>1. PathInv => WholePathWritten
  <2> SUFFICES ASSUME PathInv, at = "sent", Len(said[of]) <= Wrap
               PROVE  names = said[of] /\ written = extent[of]
    BY DEF WholePathWritten
  <2>1. /\ of \in made /\ names = said[of]
        /\ nparents[of] = 0 => written = Len(funcname[of])
        /\ nparents[of] # 0 => /\ Chain(0)
             /\ written + extent[hstack[0]] =
                  extent[parent[of]] + Len(funcname[hstack[0]]) + 1 + Len(funcname[of])
    BY DEF PathInv, ClaimOK, SentOK
  <2>2. nparents[of] \in Nat /\ Len(said[of]) \in Nat /\ nparents[of] + 1 = Len(said[of])
    BY <2>1, LoopFacts
  <2>3. CASE nparents[of] = 0
    <3>1. Len(said[of]) = 1
      BY <2>2, <2>3
    <3>2. QED
      BY <2>1, <2>3, <3>1, MadeFacts
  <2>4. CASE nparents[of] # 0
    <3> DEFINE r == hstack[0]
    <3>1. nparents[of] > 0 /\ 0 \in 0..nparents[of]-1
      BY <2>2, <2>4
    <3>2. r \in made /\ said[r] = <<funcname[r]>>
      BY <2>1, <2>4, <3>1, Roots
    <3>3. extent[r] = Len(funcname[r]) /\ funcname[r] \in Names
          /\ Len(funcname[r]) \in Nat
      <4>1. Len(<<funcname[r]>>) = 1
        OBVIOUS
      <4>2. Len(said[r]) = 1
        BY <3>2, <4>1
      <4>3. QED
        BY <3>2, <4>2, MadeFacts
    <3>4. extent[of] = extent[parent[of]] + 1 + Len(funcname[of]) /\ parent[of] \in made
      <4>1. Len(said[of]) > 1
        <5> DEFINE t == Len(said[of])
                   c == nparents[of]
        <5>1. t \in Nat /\ c \in Nat /\ c # 0 /\ c + 1 = t
          BY <2>2, <2>4
        <5> HIDE DEF t, c
        <5>2. t > 1
          BY <5>1
        <5>3. QED
          BY <5>2 DEF t
      <4>2. QED
        BY <2>1, <4>1, ParentMade DEF PathInv
    <3>5. /\ extent[parent[of]] \in Nat /\ funcname[of] \in Names
          /\ Len(funcname[of]) \in Nat /\ written \in Nat
          /\ written + extent[r] = extent[parent[of]] + Len(funcname[r]) + 1 + Len(funcname[of])
      BY <2>1, <2>4, <3>4, MadeFacts DEF PathInv, PathTypeOK
    <3> DEFINE f == Len(funcname[r])
               g == Len(funcname[of])
               d == extent[parent[of]]
    <3>6. f \in Nat /\ g \in Nat /\ d \in Nat /\ written + f = d + f + 1 + g
      BY <3>3, <3>5
    <3> HIDE DEF f, g, d
    <3>7. written = d + 1 + g
      BY <3>5, <3>6
    <3>8. QED
      BY <2>1, <3>4, <3>7 DEF d, g
  <2>5. QED
    BY <2>3, <2>4
<1>2. QED
  BY <1>1, PathInvariant, PTL

-----------------------------------------------------------------------------
(* Chains that nparents cannot count.                                      *)

\* nparents counts the names before the last one, as far as it can.
CountOK == \A x \in made : nparents[x] = (Len(said[x]) - 1) % Wrap

\* t is the last c of s.
Ends(t, s, c) ==
  /\ Len(t) = c /\ c <= Len(s)
  /\ \A k \in 1..c : t[k] = s[Len(s) - c + k]

\* The names replayed so far are the last of those of an entry of hstack, and
\* the first of them is that of entry 0.
ReplayOK ==
  /\ at = "names" /\ i > 0 =>
       Ends(names, said[hstack[i - 1]], i) /\ names[1] = funcname[hstack[0]]
  /\ at = "sent" =>
       /\ Ends(names, said[of], nparents[of] + 1)
       /\ nparents[of] > 0 => names[1] = funcname[hstack[0]]

ReplayInv == PathInv /\ CountOK /\ ReplayOK

\* Counting modulo W, one at a time.
LEMMA ModIs ==
  ASSUME NEW q \in Nat, NEW r \in Nat, NEW W \in Nat \ {0}, r < W
  PROVE  (W * q + r) % W = r
OBVIOUS

LEMMA DivMod ==
  ASSUME NEW n \in Nat, NEW W \in Nat \ {0}
  PROVE  n = W * (n \div W) + (n % W) /\ n \div W \in Nat /\ n % W \in 0..W-1
OBVIOUS

LEMMA ModNext ==
  ASSUME NEW n \in Nat, NEW W \in Nat \ {0}
  PROVE  (n + 1) % W = IF (n % W) + 1 = W THEN 0 ELSE (n % W) + 1
<1> DEFINE q == n \div W
           r == n % W
<1>1. n = W * q + r /\ q \in Nat /\ r \in 0..W-1
  BY DivMod
<1> HIDE DEF q, r
<1>2. CASE r + 1 = W
  <2>1. n + 1 = W * (q + 1) + 0 /\ q + 1 \in Nat
    BY <1>1, <1>2
  <2>2. (W * (q + 1) + 0) % W = 0
    BY <1>1, ModIs
  <2>3. QED
    BY <2>1, <2>2, <1>2 DEF r
<1>3. CASE r + 1 # W
  <2>1. n + 1 = W * q + (r + 1) /\ r + 1 \in Nat /\ r + 1 < W
    BY <1>1, <1>3
  <2>2. (W * q + (r + 1)) % W = r + 1
    BY <1>1, <2>1, ModIs
  <2>3. QED
    BY <2>1, <2>2, <1>3 DEF r
<1>4. QED
  BY <1>2, <1>3

\* Sequences that end alike still do with one more at each end.
LEMMA AppendAt ==
  ASSUME NEW s \in Seq(Names), NEW e \in Names
  PROVE  /\ Append(s, e) \in Seq(Names) /\ Len(Append(s, e)) = Len(s) + 1
         /\ \A k \in 1..Len(s) : Append(s, e)[k] = s[k]
         /\ Append(s, e)[Len(s) + 1] = e
OBVIOUS

LEMMA EndsGrow ==
  ASSUME NEW t \in Seq(Names), NEW s \in Seq(Names), NEW e \in Names, NEW c \in Nat,
         Ends(t, s, c)
  PROVE  Ends(Append(t, e), Append(s, e), c + 1)
<1> DEFINE l == Len(s)
<1>1. l \in Nat /\ Len(t) = c /\ c <= l
  BY DEF Ends
<1>2. Len(Append(t, e)) = c + 1 /\ Len(Append(s, e)) = l + 1
  BY <1>1, AppendAt
<1>3. ASSUME NEW k \in 1..c+1
      PROVE  Append(t, e)[k] = Append(s, e)[l + 1 - (c + 1) + k]
  <2>1. CASE k = c + 1
    <3>1. l + 1 - (c + 1) + k = l + 1
      <4> HIDE DEF l
      <4>1. QED
        BY <1>1, <2>1
    <3>2. Append(t, e)[c + 1] = e /\ Append(s, e)[l + 1] = e
      BY <1>1, AppendAt
    <3>3. QED
      BY <2>1, <3>1, <3>2
  <2>2. CASE k \in 1..c
    <3>1. l + 1 - (c + 1) + k = l - c + k /\ l - c + k \in 1..l
      <4> HIDE DEF l
      <4>1. QED
        BY <1>1, <2>2
    <3>2. Append(t, e)[k] = t[k] /\ Append(s, e)[l - c + k] = s[l - c + k]
      BY <1>1, <2>2, <3>1, AppendAt
    <3>3. t[k] = s[l - c + k]
      BY <2>2 DEF Ends
    <3>4. QED
      BY <3>1, <3>2, <3>3
  <2>3. QED
    BY <1>1, <2>1, <2>2
<1>4. QED
  <2> HIDE DEF l
  <2>1. c + 1 <= l + 1
    BY <1>1
  <2>2. Len(Append(t, e)) = c + 1 /\ c + 1 <= Len(Append(s, e))
    BY <1>2, <2>1
  <2> DEFINE v == Append(s, e)
             w == Append(t, e)
  <2>3. ASSUME NEW k \in 1..c+1 PROVE w[k] = v[Len(v) - (c + 1) + k]
    <3>1. w[k] = v[l + 1 - (c + 1) + k]
      BY <1>3
    <3>2. Len(v) = l + 1
      BY <1>2
    <3> HIDE DEF v, w
    <3>3. l + 1 - (c + 1) + k = Len(v) - (c + 1) + k
      BY <1>1, <3>2
    <3>4. QED
      BY <3>1, <3>3, Zenon
  <2>4. QED
    BY <2>2, <2>3, Zenon DEF Ends

\* What Ends says, with SubSeq.
LEMMA EndsIsSubSeq ==
  ASSUME NEW s \in Seq(Names), NEW t \in Seq(Names), NEW c \in Nat, Ends(t, s, c)
  PROVE  t = SubSeq(s, Len(s) - c + 1, Len(s))
<1> USE DEF Ends
<1> DEFINE u == SubSeq(s, Len(s) - c + 1, Len(s))
<1>1. u \in Seq(Names) /\ Len(u) = c
  OBVIOUS
<1>2. \A k \in 1..c : u[k] = s[Len(s) - c + k]
  OBVIOUS
<1> HIDE DEF u
<1>3. \A k \in 1..c : u[k] = t[k]
  BY <1>2
<1>4. QED
  BY <1>1, <1>3, SMTT(20) DEF u

\* The last name of a helper is its own.
LEMMA LastName ==
  ASSUME PathInv, NEW x \in made
  PROVE  /\ said[x] \in Seq(Names) /\ Len(said[x]) \in Nat /\ Len(said[x]) > 0
         /\ funcname[x] \in Names /\ Len(funcname[x]) \in Nat
         /\ said[x][Len(said[x])] = funcname[x]
<1>1. HelperOK(x)
  BY DEF PathInv, GraphOK
<1>2. CASE said[x] = <<funcname[x]>>
  BY <1>1, <1>2 DEF HelperOK
<1>3. CASE /\ parent[x] \in made /\ said[x] = Append(said[parent[x]], funcname[x])
  <2>1. said[parent[x]] \in Seq(Names) /\ funcname[x] \in Names
        /\ Len(funcname[x]) \in Nat
    BY <1>1, <1>3, MadeFacts DEF HelperOK
  <2>2. /\ Len(said[x]) = Len(said[parent[x]]) + 1
        /\ said[x][Len(said[parent[x]]) + 1] = funcname[x]
    BY <1>3, <2>1, AppendAt
  <2>3. QED
    BY <1>1, <2>1, <2>2 DEF HelperOK
<1>4. QED
  BY <1>1, <1>2, <1>3, Zenon DEF HelperOK

-----------------------------------------------------------------------------
LEMMA CountInit == PathInit => CountOK /\ ReplayOK
  BY DEF PathInit, CountOK, ReplayOK

\* A new helper counts one more than its parent, up to Wrap.
LEMMA CountCreate ==
  ASSUME PathInv, CountOK, NEW x \in Helpers, NEW name \in Names, Create(x, name)
  PROVE  CountOK'
<1>1. PathTypeOK /\ x \notin made /\ Wrap \in Nat \ {0}
  BY PathAssumption DEF PathInv, Create
<1>2. nparents'[x] = 0 /\ said'[x] = <<name>>
  BY <1>1 DEF Create, PathTypeOK
<1>3. \A y \in made : nparents'[y] = nparents[y] /\ said'[y] = said[y]
  BY <1>1 DEF Create, PathTypeOK
<1>4. (Len(<<name>>) - 1) % Wrap = 0
  <2>1. Len(<<name>>) = 1 /\ 0 = Wrap * 0 + 0
    BY <1>1
  <2>2. QED
    BY <1>1, <2>1, ModIs
<1>5. made' = made \union {x}
  BY DEF Create
<1>6. QED
  BY <1>2, <1>3, <1>4, <1>5 DEF CountOK

LEMMA CountIndex ==
  ASSUME PathInv, CountOK, NEW x \in Helpers, NEW y \in Helpers,
         NEW name \in Names, IndexHelper(y, x, name)
  PROVE  CountOK'
<1>1. PathTypeOK /\ x \notin made /\ y \in made /\ Wrap \in Nat \ {0} /\ Len(name) \in Nat
  BY PathAssumption DEF PathInv, IndexHelper
<1>2. /\ nparents'[x] = NextCount(nparents[y])
      /\ said'[x] = Append(said[y], name)
      /\ made' = made \union {x}
  BY <1>1 DEF IndexHelper, PathTypeOK
<1>3. \A z \in made : nparents'[z] = nparents[z] /\ said'[z] = said[z]
  BY <1>1 DEF IndexHelper, PathTypeOK
<1>4. said[y] \in Seq(Names) /\ Len(said[y]) \in Nat /\ Len(said[y]) > 0
  BY <1>1, LastName
<1>5. NextCount(nparents[y]) = (Len(Append(said[y], name)) - 1) % Wrap
  <2> DEFINE l == Len(said[y])
  <2>1. Len(Append(said[y], name)) = l + 1
    BY <1>1, <1>4, AppendAt
  <2>2. nparents[y] = (l - 1) % Wrap
    BY <1>1 DEF CountOK
  <2>3. l - 1 \in Nat /\ (l + 1) - 1 = (l - 1) + 1
    <3> HIDE DEF l
    <3>1. QED
      BY <1>4 DEF l
  <2>4. ((l - 1) + 1) % Wrap =
          IF ((l - 1) % Wrap) + 1 = Wrap THEN 0 ELSE ((l - 1) % Wrap) + 1
    BY <1>1, <2>3, ModNext
  <2> HIDE DEF l
  <2>5. QED
    BY <2>1, <2>2, <2>3, <2>4 DEF NextCount
<1>6. QED
  BY <1>2, <1>3, <1>5 DEF CountOK

LEMMA ReplayWriteName == ReplayInv /\ WriteName => ReplayOK'
<1> SUFFICES ASSUME ReplayInv, WriteName PROVE ReplayOK'
  OBVIOUS
<1> DEFINE c == nparents[of]
           h == hstack[i]
           r == hstack[0]
<1>1. /\ PathInv /\ at = "names" /\ of \in made /\ i \in 0..c /\ i < c /\ PathTypeOK
      /\ i = 0 => names = <<>>
      /\ i > 0 => Ends(names, said[hstack[i - 1]], i) /\ names[1] = funcname[r]
      /\ (c # 0 => Chain(0))
  BY DEF ReplayInv, ReplayOK, PathInv, NamesOK, ClaimOK, WriteName
<1>2. c \in Nat /\ c > 0 /\ i \in Nat /\ i \in 0..c-1 /\ i + 1 - 1 = i
      /\ (i > 0 => i - 1 \in 0..c-1)
  <2>1. c \in 0..Wrap-1 /\ Wrap \in Nat
    BY <1>1, LoopFacts
  <2> HIDE DEF c
  <2>2. QED
    BY <1>1, <2>1
<1>3. Chain(0)
  BY <1>1, <1>2
<1>4. /\ h \in made /\ funcname[h] \in Names /\ Len(funcname[h]) \in Nat
      /\ i > 0 => /\ hstack[i - 1] \in made
                  /\ said[h] = Append(said[hstack[i - 1]], funcname[h])
  BY <1>1, <1>2, <1>3, Roots
<1>5. /\ of' = of /\ hstack' = hstack /\ at' = "names" /\ i' = i + 1
      /\ names' = Append(names, funcname[h])
      /\ said' = said /\ funcname' = funcname
  BY DEF WriteName, NextName, graph
<1>6. names \in Seq(Names)
  BY <1>1 DEF PathTypeOK
<1>7. Ends(names', said[h], i + 1) /\ names'[1] = funcname[r]
  <2>1. CASE i = 0
    <3>1. /\ said[h] \in Seq(Names) /\ Len(said[h]) \in Nat /\ Len(said[h]) > 0
          /\ said[h][Len(said[h])] = funcname[h]
      BY <1>1, <1>4, LastName
    <3>2. Len(names') = 1 /\ names'[1] = funcname[h] /\ h = r
      BY <1>1, <1>4, <1>5, <2>1
    <3>3. QED
      BY <2>1, <3>1, <3>2 DEF Ends
  <2>2. CASE i > 0
    <3> DEFINE q == said[hstack[i - 1]]
    <3>1. q \in Seq(Names) /\ Ends(names, q, i) /\ said[h] = Append(q, funcname[h])
          /\ names[1] = funcname[r]
      BY <1>1, <1>4, <2>2, LastName
    <3> HIDE DEF q
    <3>2. Ends(names', said[h], i + 1)
      BY <1>2, <1>4, <1>5, <1>6, <3>1, EndsGrow
    <3>3. Len(names) = i
      BY <3>1 DEF Ends
    <3>4. names'[1] = names[1]
      BY <1>2, <1>4, <1>5, <1>6, <2>2, <3>3, AppendAt
    <3>5. QED
      BY <3>1, <3>2, <3>4
  <2>3. QED
    BY <1>2, <2>1, <2>2
<1>8. QED
  BY <1>2, <1>5, <1>7 DEF ReplayOK

LEMMA ReplayWriteLast == ReplayInv /\ WriteLast => ReplayOK'
<1> SUFFICES ASSUME ReplayInv, WriteLast PROVE ReplayOK'
  OBVIOUS
<1> DEFINE c == nparents[of]
           r == hstack[0]
<1>1. /\ PathInv /\ at = "names" /\ of \in made /\ i = c /\ PathTypeOK
      /\ i = 0 => names = <<>>
      /\ i > 0 => Ends(names, said[hstack[i - 1]], i) /\ names[1] = funcname[r]
      /\ (c # 0 => Chain(0))
  BY DEF ReplayInv, ReplayOK, PathInv, NamesOK, ClaimOK, WriteLast
<1>2. c \in Nat /\ Len(said[of]) \in Nat /\ c < Len(said[of])
      /\ funcname[of] \in Names /\ Len(funcname[of]) \in Nat
  BY <1>1, LoopFacts
<1>3. /\ of' = of /\ hstack' = hstack /\ at' = "sent"
      /\ names' = Append(names, funcname[of])
      /\ said' = said /\ funcname' = funcname /\ nparents' = nparents
  BY DEF WriteLast, graph
<1>4. names \in Seq(Names)
  BY <1>1 DEF PathTypeOK
<1>5. Ends(names', said[of], c + 1) /\ (c > 0 => names'[1] = funcname[r])
  <2>1. CASE c = 0
    <3>1. /\ said[of] \in Seq(Names) /\ Len(said[of]) > 0
          /\ said[of][Len(said[of])] = funcname[of]
      BY <1>1, LastName
    <3>2. Len(names') = 1 /\ names'[1] = funcname[of]
      BY <1>1, <1>2, <1>3, <2>1
    <3>3. QED
      BY <1>2, <2>1, <3>1, <3>2 DEF Ends
  <2>2. CASE c > 0
    <3> DEFINE p == parent[of]
    <3>1. hstack[i - 1] = p
      BY <1>1, <1>2, <2>2 DEF Chain
    <3>2. Len(said[of]) > 1
      <4> DEFINE t == Len(said[of])
      <4>1. c \in Nat /\ t \in Nat /\ c < t
        BY <1>2
      <4> HIDE DEF c, t
      <4>2. t > 1
        BY <2>2, <4>1
      <4>3. QED
        BY <4>2 DEF t
    <3>3. p \in made /\ said[of] = Append(said[p], funcname[of])
      BY <1>1, <3>2, ParentMade DEF PathInv
    <3>4. said[p] \in Seq(Names) /\ Ends(names, said[p], c) /\ names[1] = funcname[r]
      BY <1>1, <2>2, <3>1, <3>3, LastName
    <3>5. Ends(names', said[of], c + 1)
      BY <1>2, <1>3, <1>4, <3>3, <3>4, EndsGrow
    <3>6. Len(names) = c
      BY <3>4 DEF Ends
    <3>7. names'[1] = names[1]
      BY <1>2, <1>3, <1>4, <2>2, <3>6, AppendAt
    <3>8. QED
      BY <3>4, <3>5, <3>7
  <2>3. QED
    BY <1>2, <2>1, <2>2
<1>6. QED
  BY <1>3, <1>5 DEF ReplayOK

\* In the loops no helper is made or changed.
LEMMA CountStays == CountOK /\ UNCHANGED graph => CountOK'
  BY DEF CountOK, graph

LEMMA ReplayStepKeeps == ReplayInv /\ [PathNext]_pathVars => ReplayInv'
<1> SUFFICES ASSUME ReplayInv, [PathNext]_pathVars PROVE ReplayInv'
  OBVIOUS
<1>1. PathInv /\ PathInv' /\ CountOK
  BY PathStepKeeps DEF ReplayInv
<1>2. CASE \E x \in Helpers, name \in Names : Create(x, name)
  BY <1>1, <1>2, CountCreate DEF ReplayInv, ReplayOK, Create, loop
<1>3. CASE \E x, y \in Helpers, name \in Names : IndexHelper(y, x, name)
  BY <1>1, <1>3, CountIndex DEF ReplayInv, ReplayOK, IndexHelper, loop
<1>4. CASE \E x \in Helpers : StartAlone(x) \/ StartNested(x)
  <2>1. ReplayOK'
    <3>1. i = 0
      BY <1>1, <1>4 DEF PathInv, IdleOK, StartAlone, StartNested
    <3>2. at' = "lengths" \/ (at' = "names" /\ i' = i)
      BY <1>4 DEF StartAlone, StartNested
    <3>3. QED
      BY <3>1, <3>2 DEF ReplayOK
  <2>2. UNCHANGED graph
    BY <1>4 DEF StartAlone, StartNested
  <2>3. QED
    BY <1>1, <2>1, <2>2, CountStays DEF ReplayInv
<1>5. CASE AddLength \/ WriteLength
  BY <1>1, <1>5, CountStays DEF ReplayInv, ReplayOK, AddLength, WriteLength
<1>6. CASE WriteName \/ WriteLast
  <2>1. UNCHANGED graph
    BY <1>6 DEF WriteName, WriteLast
  <2>2. QED
    BY <1>1, <1>6, <2>1, CountStays, ReplayWriteName, ReplayWriteLast DEF ReplayInv
<1>7. CASE PathDone
  BY <1>1, <1>7, CountStays DEF ReplayInv, ReplayOK, PathDone
<1>8. CASE UNCHANGED pathVars
  BY <1>1, <1>8, CountStays DEF ReplayInv, ReplayOK, pathVars, graph, loop
<1>9. QED
  BY <1>2, <1>3, <1>4, <1>5, <1>6, <1>7, <1>8 DEF PathNext, PathStep

-----------------------------------------------------------------------------
(* A request and its path.                                                 *)

\* As many of the names of a helper as nparents counts parents, and its own.
LastNames(x) == SubSeq(said[x], Len(said[x]) - nparents[x], Len(said[x]))

\* What helper_remote_index writes.
LEMMA SentIs ==
  ASSUME ReplayInv, at = "sent"
  PROVE  /\ of \in made
         /\ names = LastNames(of)
         /\ (claimed = written) <=> ~OffByEnds(of)
<1> DEFINE c == nparents[of]
           t == Len(said[of])
<1>1. /\ PathInv /\ of \in made
      /\ Ends(names, said[of], c + 1)
      /\ c > 0 => names[1] = funcname[hstack[0]]
      /\ c # 0 => Chain(0)
      /\ names \in Seq(Names) /\ claimed \in Nat /\ written \in Nat
  BY DEF ReplayInv, ReplayOK, PathInv, ClaimOK, PathTypeOK
<1>2. c \in Nat /\ t \in Nat /\ c < t /\ said[of] \in Seq(Names)
  BY <1>1, LoopFacts, MadeFacts
<1>3. names = LastNames(of)
  <2>1. names = SubSeq(said[of], t - (c + 1) + 1, t)
    <3> DEFINE d == c + 1
    <3>1. d \in Nat /\ Ends(names, said[of], d)
      BY <1>1, <1>2
    <3> HIDE DEF d
    <3>2. names = SubSeq(said[of], t - d + 1, t)
      BY <1>1, <1>2, <3>1, EndsIsSubSeq
    <3>3. QED
      BY <3>2 DEF d
  <2>2. t - (c + 1) + 1 = t - c
    <3> HIDE DEF c, t
    <3>1. QED
      BY <1>2
  <2>3. QED
    BY <2>1, <2>2 DEF LastNames
<1>4. LengthOffByEnds
  BY <1>1, LengthFromInv
<1>5. CASE c = 0
  BY <1>1, <1>3, <1>4, <1>5 DEF LengthOffByEnds, OffByEnds
<1>6. CASE c > 0
  <2> DEFINE p == parent[of]
             m == funcname[hstack[0]]
             n == funcname[p]
             f == Len(m)
             g == Len(n)
  <2>1. c - 1 \in 0..c-1 /\ 0 \in 0..c-1
    <3> HIDE DEF c
    <3>1. QED
      BY <1>2, <1>6
  <2>2. t > 1
    <3> HIDE DEF c, t
    <3>1. QED
      BY <1>2, <1>6
  <2>3. /\ p \in made /\ said[of] = Append(said[p], funcname[of])
        /\ Len(said[p]) + 1 = t
    BY <1>1, <2>2, ParentMade DEF PathInv
  <2>4. g \in Nat /\ f \in Nat /\ said[p] \in Seq(Names) /\ Len(said[p]) \in Nat
        /\ Len(said[p]) > 0 /\ said[p][Len(said[p])] = n
    <3>1. Chain(0) /\ hstack[0] \in made
      BY <1>1, <1>6, <2>1 DEF Chain
    <3>2. QED
      BY <1>1, <2>3, <3>1, LastName
  <2>5. said[of][t - 1] = n
    <3> DEFINE l == Len(said[p])
    <3>1. l \in Nat /\ l + 1 = t /\ l > 0
      BY <2>3, <2>4
    <3>2. t - 1 = l /\ l \in 1..l
      <4> HIDE DEF l, t
      <4>1. QED
        BY <1>2, <3>1
    <3>3. funcname[of] \in Names /\ Len(funcname[of]) \in Nat
      BY <1>1, LastName
    <3>4. Append(said[p], funcname[of])[l] = said[p][l]
      BY <2>4, <3>2, <3>3, AppendAt
    <3>5. QED
      BY <2>3, <2>4, <3>2, <3>4
  <2>6. said[of][t - c] = m
    <3>1. 1 \in 1..c+1 /\ t - (c + 1) + 1 = t - c
      <4> HIDE DEF c, t
      <4>1. QED
        BY <1>2
    <3>2. names[1] = said[of][t - (c + 1) + 1]
      BY <1>1, <3>1 DEF Ends
    <3>3. QED
      BY <1>1, <1>6, <3>1, <3>2
  <2>7. claimed + f = written + g
    BY <1>2, <1>4, <1>6 DEF LengthOffByEnds
  <2>8. OffByEnds(of) <=> f # g
    BY <1>6, <2>5, <2>6 DEF OffByEnds
  <2> HIDE DEF f, g
  <2>9. (claimed = written) <=> (f = g)
    BY <1>1, <2>4, <2>7
  <2>10. QED
    BY <1>1, <1>3, <2>8, <2>9
<1>7. QED
  BY <1>1, <1>2, <1>3, <1>5, <1>6

\* The path token of a helper.
PathOf(x) == [t |-> "path", fits |-> ~OffByEnds(x), names |-> LastNames(x)]

\* The stream of a request starts with the path of its helper.
StartsWithPath(st, x) ==
  \E S : st \in Seq(S) /\ st # <<>> /\ Head(st) = PathOf(x)

\* What is known of a request, as it goes on.
BodyInv ==
  /\ ReplayInv
  /\ phase # "program" => target \in made
  /\ phase = "path" => at # "idle" /\ of = target
  /\ phase \in {"args", "remote", "unsent", "walk"} => StartsWithPath(stream, target)
  /\ phase \in {"values", "ran"} => walk = Reached(target)

\* The path of a helper is decided when the helper is made.
LEMMA PathOfStays ==
  ASSUME UNCHANGED graph, target' = target
  PROVE  /\ (target \in made)' <=> target \in made
         /\ PathOf(target)' = PathOf(target)
         /\ Reached(target)' = Reached(target)
         /\ \A st : StartsWithPath(st, target)' <=> StartsWithPath(st, target)
  BY DEF graph, PathOf, Reached, StartsWithPath, OffByEnds, LastNames, Counted

LEMMA MorePath ==
  ASSUME NEW st, NEW x, NEW e, StartsWithPath(st, x)
  PROVE  StartsWithPath(Append(st, e), x)
<1>1. PICK S : st \in Seq(S) /\ st # <<>> /\ Head(st) = PathOf(x)
  BY DEF StartsWithPath
<1>2. /\ Append(st, e) \in Seq(S \union {e}) /\ Append(st, e) # <<>>
      /\ Head(Append(st, e)) = Head(st)
  <2> DEFINE V == S \union {e}
  <2>1. st \in Seq(V) /\ e \in V /\ st # <<>>
    BY <1>1
  <2> HIDE DEF V
  <2>2. Append(st, e) \in Seq(V) /\ Append(st, e) # <<>>
    BY <2>1
  <2>3. Head(Append(st, e)) = Head(st)
    BY <2>1
  <2>4. QED
    BY <2>2, <2>3 DEF V
<1>3. QED
  BY <1>1, <1>2 DEF StartsWithPath

\* The steps of a request that are steps of helper_remote_index or of the
\* program before it, and the others.
LEMMA BodyStepsPath ==
  ASSUME PathTypeOK, BodyNext
  PROVE  [PathNext]_pathVars
<1>1. CASE Index
  BY <1>1 DEF Index, PathNext, PathStep
<1>2. ASSUME NEW k \in Kinds, NEW x \in Helpers, Request(k, x)
      PROVE  PathNext
  BY <1>2 DEF Request, PathNext, PathStep
<1>3. CASE Replay
  BY <1>3 DEF Replay, PathNext, PathStep
<1>4. CASE EndPath \/ EndHelper
  BY <1>4 DEF EndPath, EndHelper, PathNext
<1>5. CASE WriteHelper
  <2>1. PICK x : x = Head(todo).x /\ (StartAlone(x) \/ StartNested(x))
    BY <1>5 DEF WriteHelper
  <2>2. x \in Helpers
    BY <2>1 DEF StartAlone, StartNested, PathTypeOK
  <2>3. QED
    BY <2>1, <2>2 DEF PathNext, PathStep
<1>6. CASE \/ WriteVariable \/ WriteElsewhere \/ Unsendable \/ Flush
           \/ ReadPath \/ ReadPathFails
           \/ ReadVariable \/ ReadIndex \/ ReadIndexFails \/ PairRaises \/ ReadAll
           \/ Reply \/ SetRaises \/ ReadReply
  BY <1>6 DEF WriteVariable, WriteElsewhere, Unsendable, Flush, ReadPath,
     ReadPathFails, ReadVariable, ReadIndex, ReadIndexFails, PairRaises, ReadAll, Reply,
     SetRaises, ReadReply, Stops
<1>7. QED
  BY <1>1, <1>2, <1>3, <1>4, <1>5, <1>6 DEF BodyNext

LEMMA BodyStart == BodyInit => BodyInv
  BY PathInitInv, CountInit DEF BodyInit, BodyInv, ReplayInv

\* While the request is under way its helper stays the same, and so does its
\* path.
LEMMA SamePath ==
  ASSUME BodyInv, BodyNext, phase # "program"
  PROVE  /\ UNCHANGED graph /\ target' = target /\ phase' # "program"
<1>1. CASE Replay
  BY <1>1 DEF Replay, AddLength, WriteLength, WriteName, WriteLast, bodyVars
<1>2. CASE EndPath \/ EndHelper
  BY <1>2 DEF EndPath, EndHelper, PathDone
<1>3. CASE WriteHelper
  BY <1>3 DEF WriteHelper, StartAlone, StartNested
<1>4. CASE \/ WriteVariable \/ WriteElsewhere \/ Unsendable \/ Flush
           \/ ReadPath \/ ReadPathFails
           \/ ReadVariable \/ ReadIndex \/ ReadIndexFails \/ PairRaises \/ ReadAll
           \/ Reply \/ SetRaises \/ ReadReply
  BY <1>4 DEF WriteVariable, WriteElsewhere, Unsendable, Flush, ReadPath,
     ReadPathFails, ReadVariable, ReadIndex, ReadIndexFails, PairRaises, ReadAll, Reply,
     SetRaises, ReadReply, Stops, pathVars
<1>5. ~Index /\ ~\E k \in Kinds, x \in Helpers : Request(k, x)
  BY DEF Index, Request
<1>6. QED
  BY <1>1, <1>2, <1>3, <1>4, <1>5 DEF BodyNext

LEMMA StartOf ==
  ASSUME NEW p, NEW q
  PROVE  /\ <<p>> \o <<>> \in Seq({p}) /\ <<p>> \o <<>> # <<>>
         /\ Head(<<p>> \o <<>>) = p
         /\ <<p>> \o <<q>> \in Seq({p, q}) /\ <<p>> \o <<q>> # <<>>
         /\ Head(<<p>> \o <<q>>) = p
OBVIOUS

\* The path that starts the stream is that of the target.
LEMMA PathStarts ==
  ASSUME BodyInv, EndPath
  PROVE  StartsWithPath(stream, target)'
<1>1. at = "sent" /\ of = target
  BY DEF BodyInv, EndPath, PathDone
<1>2. PathToken = PathOf(target)
  BY <1>1, SentIs DEF BodyInv, PathToken, PathOf
<1>3. UNCHANGED graph /\ target' = target
  BY DEF EndPath, PathDone
<1>4. \/ stream' = <<PathToken>> \o <<>>
      \/ \E n : stream' = <<PathToken>> \o <<[t |-> "count", n |-> n]>>
  BY DEF EndPath
<1>5. StartsWithPath(stream', target)
  <2>1. CASE stream' = <<PathToken>> \o <<>>
    BY <1>2, <2>1, StartOf DEF StartsWithPath
  <2>2. CASE \E n : stream' = <<PathToken>> \o <<[t |-> "count", n |-> n]>>
    <3>1. PICK n : stream' = <<PathToken>> \o <<[t |-> "count", n |-> n]>>
      BY <2>2
    <3>2. QED
      BY <1>2, <3>1, StartOf DEF StartsWithPath
  <2>3. QED
    BY <1>4, <2>1, <2>2
<1>6. QED
  BY <1>3, <1>5, PathOfStays

\* What the handler looks up is what the path names.
LEMMA PathRead ==
  ASSUME BodyInv, ReadPath
  PROVE  walk' = Reached(target)
<1>1. target \in made /\ Head(stream) = PathOf(target) /\ walk' = NamesOf(Head(stream))
  BY DEF BodyInv, ReadPath, StartsWithPath
<1>2. nparents[target] = (Len(said[target]) - 1) % Wrap
  BY <1>1 DEF BodyInv, ReplayInv, CountOK
<1>3. Reached(target) = InWords(LastNames(target))
  BY <1>2 DEF LastNames, Reached, Counted
<1>4. PathOf(target).names = LastNames(target)
  BY DEF PathOf
<1>5. QED
  BY <1>1, <1>3, <1>4 DEF NamesOf

LEMMA BodyStepKeeps == BodyInv /\ [BodyNext]_allVars => BodyInv'
<1> SUFFICES ASSUME BodyInv, [BodyNext]_allVars PROVE BodyInv'
  OBVIOUS
<1>1. ReplayInv'
  <2>1. [PathNext]_pathVars
    BY BodyStepsPath DEF BodyInv, ReplayInv, PathInv, allVars
  <2>2. QED
    BY <2>1, ReplayStepKeeps DEF BodyInv
<1> DEFINE InPath == phase = "path" => at # "idle" /\ of = target
           InBody == phase \in {"args", "remote", "unsent", "walk"} =>
                       StartsWithPath(stream, target)
           Walked == phase \in {"values", "ran"} => walk = Reached(target)
<1>2. CASE UNCHANGED allVars
  <2>1. /\ UNCHANGED graph /\ target' = target /\ phase' = phase /\ stream' = stream
        /\ walk' = walk /\ at' = at /\ of' = of
    BY <1>2 DEF allVars, bodyVars, pathVars, loop
  <2>2. QED
    BY <1>1, <2>1, PathOfStays DEF BodyInv
<1>3. CASE BodyNext /\ phase = "program"
  <2>1. CASE Index
    BY <1>1, <1>3, <2>1 DEF Index, BodyInv, bodyVars
  <2>2. CASE \E k \in Kinds, x \in Helpers : Request(k, x)
    BY <1>1, <1>3, <2>2 DEF Request, StartAlone, StartNested, BodyInv, graph
  <2>3. QED
    BY <1>3, <2>1, <2>2
       DEF BodyNext, Replay, EndPath, WriteVariable, WriteHelper, EndHelper,
           WriteElsewhere, Unsendable, Flush, ReadPath, ReadPathFails,
           ReadVariable, ReadIndex, ReadIndexFails, PairRaises, ReadAll, Reply, SetRaises,
           ReadReply, Writing, Reading
<1>4. CASE BodyNext /\ phase # "program"
  <2>1. /\ UNCHANGED graph /\ target' = target /\ phase' # "program"
        /\ (target \in made)'
    BY <1>4, SamePath DEF BodyInv, graph
  <2>2. /\ Reached(target)' = Reached(target)
        /\ \A st : StartsWithPath(st, target)' <=> StartsWithPath(st, target)
    BY <2>1, PathOfStays
  <2>3. InPath'
    <3>1. phase' = "path" => Replay
      BY <1>4
         DEF BodyNext, Index, Request, EndPath, WriteVariable, WriteHelper,
             EndHelper, WriteElsewhere, Unsendable, Flush, ReadPath,
             ReadPathFails, ReadVariable, ReadIndex, ReadIndexFails, PairRaises, ReadAll,
             Reply, SetRaises, ReadReply, Writing, Reading, Stops
    <3>2. Replay => InPath'
      BY DEF BodyInv, Replay, AddLength, WriteLength, WriteName, WriteLast,
             bodyVars
    <3>3. QED
      BY <3>1, <3>2
  <2>4. InBody'
    <3>1. CASE EndPath
      BY <3>1, PathStarts
    <3>2. CASE WriteVariable
      <4>1. phase \in {"args", "results"} /\ phase' = phase
            /\ \E e : stream' = Append(stream, e)
        BY <3>2 DEF WriteVariable, Writing
      <4>2. QED
        BY <2>2, <4>1, MorePath DEF BodyInv
    <3>3. CASE EndHelper
      <4>1. phase = "remote" /\ stream' = Append(stream, PathToken)
        BY <3>3 DEF EndHelper
      <4>2. QED
        BY <2>2, <4>1, MorePath DEF BodyInv
    <3>4. CASE WriteHelper \/ WriteElsewhere
      <4>1. /\ stream' = Append(stream, [t |-> "remote"])
            /\ phase \in {"args", "results"} /\ phase' \in {phase, "remote"}
            /\ phase' = "remote" => phase = "args"
        BY <3>4 DEF WriteHelper, WriteElsewhere, Writing, Tag
      <4>2. QED
        BY <2>2, <4>1, MorePath DEF BodyInv
    <3>5. CASE Unsendable \/ Flush
      <4>1. /\ stream' = stream
            /\ phase = "args" \/ phase' \in {"raised", "reply"}
        BY <3>5 DEF Unsendable, Flush, Writing
      <4>2. QED
        BY <2>2, <4>1 DEF BodyInv
    <3>6. CASE Replay
      BY <2>2, <3>6 DEF Replay, BodyInv, bodyVars
    <3>7. CASE \/ ReadPath \/ ReadPathFails
               \/ ReadVariable \/ ReadIndex \/ ReadIndexFails \/ PairRaises \/ ReadAll
               \/ Reply \/ SetRaises \/ ReadReply
      BY <3>7 DEF ReadPath, ReadPathFails, ReadVariable, ReadIndex,
         ReadIndexFails, PairRaises, ReadAll, Reply, SetRaises, ReadReply, Reading, Stops
    <3>8. QED
      BY <1>4, <3>1, <3>2, <3>3, <3>4, <3>5, <3>6, <3>7
         DEF BodyNext, Index, Request
  <2>5. Walked'
    <3>1. CASE ReadPath
      <4>1. walk' = Reached(target)'
        BY <2>2, <3>1, PathRead
      <4>2. QED
        BY <4>1
    <3>2. CASE ~ReadPath
      <4>1. phase' \in {"values", "ran"} => phase \in {"values", "ran"} /\ walk' = walk
        BY <1>4, <3>2
           DEF BodyNext, Index, Request, Replay, EndPath, WriteVariable,
               WriteHelper, EndHelper, WriteElsewhere, Unsendable, Flush,
               ReadPathFails, ReadVariable, ReadIndex, ReadIndexFails, PairRaises, ReadAll,
               Reply, SetRaises, ReadReply, Writing, Reading, Stops, bodyVars
      <4>2. QED
        BY <2>2, <4>1 DEF BodyInv
    <3>3. QED
      BY <3>1, <3>2
  <2>6. QED
    BY <1>1, <2>1, <2>3, <2>4, <2>5 DEF BodyInv
<1>5. QED
  BY <1>2, <1>3, <1>4

THEOREM BodyInvariant == BodySpec => []BodyInv
  BY BodyStart, BodyStepKeeps, PTL DEF BodySpec

\* A request makes and walks helpers in no way but RemotePath's: what was shown
\* of helper_remote_index holds while read_cmd_* and write_variable surround it.
THEOREM RequestsSendPaths == BodySpec => PathSpec
<1>1. BodyInit => PathInit
  BY DEF BodyInit
<1>2. BodyInv /\ [BodyNext]_allVars => [PathNext]_pathVars
  BY BodyStepsPath DEF BodyInv, ReplayInv, PathInv, allVars
<1>3. QED
  BY <1>1, <1>2, BodyInvariant, PTL DEF BodySpec, PathSpec

\* read_cmd_call, read_cmd_get and read_cmd_newindex look up, in order, the words
\* between the dots of the names the program indexed with, whatever it sends
\* along with them: a name with a dot in it is two names to the handler, an empty
\* one is none.  Past 256 names, which nparents cannot count, these are the words
\* of the last ones only.
THEOREM RightNames == BodySpec => []RightNameWalked
<1>1. BodyInv => RightNameWalked
  BY DEF BodyInv, RightNameWalked
<1>2. QED
  BY <1>1, BodyInvariant, PTL

\* Whether a path fits.
LEMMA FitsOf ==
  ASSUME NEW x, NEW p, p = PathOf(x)
  PROVE  p.t = "path" /\ (p.fits <=> ~OffByEnds(x))
<1>1. p.t = "path"
  BY DEF PathOf
<1>2. p.fits = ~OffByEnds(x)
  BY Zenon DEF PathOf
<1>3. QED
  BY <1>1, <1>2, Zenon

\* The path of a request fits unless it is the one that is off.
LEMMA TargetFits ==
  ASSUME BodyInv, phase = "walk"
  PROVE  Head(stream).fits <=> ~OffByEnds(target)
<1>1. Head(stream) = PathOf(target)
  BY DEF BodyInv, StartsWithPath
<1>2. QED
  BY <1>1, FitsOf

\* The length that starts a request's path is that of the path exactly when
\* the two names helper_remote_index confuses are equally long.
FitsUnlessOff ==
  phase = "walk" => (Head(stream).fits <=> ~OffByEnds(target))

\* Every request's path fits, but for the one of those names.
THEOREM PathsFit == BodySpec => []FitsUnlessOff
<1>1. BodyInv => FitsUnlessOff
  BY TargetFits DEF FitsUnlessOff
<1>2. QED
  BY <1>1, BodyInvariant, PTL
=============================================================================
