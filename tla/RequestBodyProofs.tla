------------------------- MODULE RequestBodyProofs -------------------------
(***************************************************************************)
(* For any values, any nesting and any mix of tables, functions and        *)
(* helpers: what one end of a request writes the other end reads back, and *)
(* neither takes a byte for what it is not but after a path of the wrong   *)
(* length or a helper of another handle.                                   *)
(*                                                                         *)
(* A stream holds no lengths: where a table ends is known only by the mark *)
(* that write_table puts there and read_table waits for.  So the invariant *)
(* gives each token of the stream what the writer was to write before it   *)
(* and after it, and each container the reader has open what was to be     *)
(* read when it was opened.  The two meet in what is to be read next; and  *)
(* the pairs of items written and values read so far show that a value     *)
(* that was put together is the one that was taken apart, level by level.  *)
(***************************************************************************)
EXTENDS RemotePathProofs, WellFoundedInduction, SequenceTheorems

-----------------------------------------------------------------------------
\* What a value is made of: Levels and PairLevels by induction on the level.

\* Every set of naturals with a member has a least one.
LEMMA LeastNat ==
  ASSUME NEW T \in SUBSET Nat, T # {}
  PROVE  \E m \in T : \A n \in T : m <= n
<1> DEFINE R == OpToRel(<, Nat)
<1>1. \A x, y \in Nat : x < y => <<x, y>> \in R
  BY DEF OpToRel
<1>2. IsWellFoundedOn(R, Nat)
  BY NatLessThanWellFounded
<1> HIDE DEF R
<1>3. PICK m \in T : \A n \in T : ~(<<n, m>> \in R)
  BY <1>2, WFMin, Zenon
<1>4. ASSUME NEW n \in T PROVE m <= n
  <2>1. ~(n < m)
    BY <1>1, <1>3
  <2>2. QED
    BY <2>1
<1>5. QED
  BY <1>3, <1>4

\* Induction: a set with 0 and the successors of its members is all of Nat.
LEMMA NatSet ==
  ASSUME NEW T \in SUBSET Nat, 0 \in T, \A n \in T : n + 1 \in T
  PROVE  T = Nat
<1> DEFINE U == Nat \ T
<1>1. SUFFICES ASSUME U # {} PROVE FALSE
  OBVIOUS
<1>2. PICK m \in U : \A n \in U : m <= n
  BY <1>1, LeastNat
<1>3. m \in Nat /\ m # 0 /\ m \notin T
  BY <1>2
<1>4. m - 1 \in Nat /\ m - 1 \notin U /\ m - 1 + 1 = m
  BY <1>2, <1>3
<1>5. m - 1 \in T
  BY <1>4
<1>6. QED
  BY <1>3, <1>4, <1>5

\* The levels of a value are what their definition says.
LEMMA LevelsAre ==
  ASSUME NEW v
  PROVE  /\ Levels(v)[0] = {v}
         /\ \A d \in 1..Nesting :
              Levels(v)[d] = UNION {Opened(u) : u \in Levels(v)[d - 1]}
<1> DEFINE Step(f, d) == IF d = 0 THEN {v} ELSE UNION {Opened(u) : u \in f[d - 1]}
           Good(n) == \E f : f = [d \in 0..n |-> Step(f, d)]
<1>1. Nesting \in Nat
  BY BodyAssumption
<1>2. Good(0)
  <2> DEFINE f == [d \in 0..0 |-> {v}]
  <2>1. f = [d \in 0..0 |-> Step(f, d)]
    OBVIOUS
  <2>2. QED
    BY <2>1
<1>3. ASSUME NEW n \in Nat, Good(n) PROVE Good(n + 1)
  <2>1. PICK f : f = [d \in 0..n |-> Step(f, d)]
    BY <1>3
  <2> DEFINE g == [d \in 0..n+1 |-> IF d = n + 1 THEN Step(f, d) ELSE f[d]]
  <2>2. \A d \in 0..n : g[d] = f[d]
    OBVIOUS
  <2>3. ASSUME NEW d \in 0..n+1 PROVE g[d] = Step(g, d)
    <3>1. CASE d = 0
      <4>1. f[0] = {v}
        BY <2>1
      <4>2. QED
        BY <2>2, <3>1, <4>1
    <3>2. CASE d # 0 /\ d # n + 1
      <4>1. d \in 0..n /\ d - 1 \in 0..n
        BY <3>2
      <4>2. f[d] = Step(f, d)
        BY <2>1, <4>1
      <4>3. QED
        BY <2>2, <3>2, <4>1, <4>2
    <3>3. CASE d # 0 /\ d = n + 1
      <4>1. d - 1 \in 0..n
        BY <3>3
      <4>2. g[d] = Step(f, d)
        BY <3>3
      <4>3. QED
        BY <2>2, <3>3, <4>1, <4>2
    <3>4. QED
      BY <3>1, <3>2, <3>3
  <2> HIDE DEF Step
  <2>4. g = [d \in 0..n+1 |-> Step(g, d)]
    BY <2>3
  <2>5. QED
    BY <2>4
<1>4. Good(Nesting)
  <2> DEFINE T == {n \in Nat : Good(n)}
  <2> HIDE DEF Good
  <2>1. 0 \in T /\ \A n \in T : n + 1 \in T
    BY <1>2, <1>3
  <2> HIDE DEF T
  <2>2. T \in SUBSET Nat
    BY DEF T
  <2>3. T = Nat
    BY <2>1, <2>2, NatSet
  <2>4. QED
    BY <1>1, <2>3 DEF T
<1>5. Levels(v) = [d \in 0..Nesting |-> Step(Levels(v), d)]
  <2>1. Levels(v) = CHOOSE f : f = [d \in 0..Nesting |-> Step(f, d)]
    BY DEF Levels
  <2>2. \E f : f = [d \in 0..Nesting |-> Step(f, d)]
    BY <1>4
  <2> HIDE DEF Step
  <2>3. QED
    BY <2>1, <2>2
<1>6. /\ 0 \in 0..Nesting
      /\ \A d \in 1..Nesting : d \in 0..Nesting /\ d # 0
  BY <1>1
<1> DEFINE l == Levels(v)
<1>7. l[0] = Step(l, 0)
  BY <1>5, <1>6, Zenon
<1>8. \A d \in 1..Nesting : l[d] = Step(l, d)
  BY <1>5, <1>6, Zenon
<1> HIDE DEF l
<1>9. QED
  BY <1>6, <1>7, <1>8 DEF l

\* The levels of a pair are what their definition says.
LEMMA PairLevelsAre ==
  ASSUME NEW v, NEW w
  PROVE  /\ PairLevels(v, w)[0] = {<<v, w>>}
         /\ \A d \in 1..Nesting :
              PairLevels(v, w)[d] = UNION {Inside(p) : p \in PairLevels(v, w)[d - 1]}
<1> DEFINE Step(f, d) == IF d = 0 THEN {<<v, w>>}
                         ELSE UNION {Inside(p) : p \in f[d - 1]}
           Good(n) == \E f : f = [d \in 0..n |-> Step(f, d)]
<1>1. Nesting \in Nat
  BY BodyAssumption
<1>2. Good(0)
  <2> DEFINE f == [d \in 0..0 |-> {<<v, w>>}]
  <2>1. f = [d \in 0..0 |-> Step(f, d)]
    OBVIOUS
  <2>2. QED
    BY <2>1
<1>3. ASSUME NEW n \in Nat, Good(n) PROVE Good(n + 1)
  <2>1. PICK f : f = [d \in 0..n |-> Step(f, d)]
    BY <1>3
  <2> DEFINE g == [d \in 0..n+1 |-> IF d = n + 1 THEN Step(f, d) ELSE f[d]]
  <2>2. \A d \in 0..n : g[d] = f[d]
    OBVIOUS
  <2>3. ASSUME NEW d \in 0..n+1 PROVE g[d] = Step(g, d)
    <3>1. CASE d = 0
      <4>1. f[0] = {<<v, w>>}
        BY <2>1
      <4>2. QED
        BY <2>2, <3>1, <4>1
    <3>2. CASE d # 0 /\ d # n + 1
      <4>1. d \in 0..n /\ d - 1 \in 0..n
        BY <3>2
      <4>2. f[d] = Step(f, d)
        BY <2>1, <4>1
      <4>3. QED
        BY <2>2, <3>2, <4>1, <4>2
    <3>3. CASE d # 0 /\ d = n + 1
      <4>1. d - 1 \in 0..n
        BY <3>3
      <4>2. g[d] = Step(f, d)
        BY <3>3
      <4>3. QED
        BY <2>2, <3>3, <4>1, <4>2
    <3>4. QED
      BY <3>1, <3>2, <3>3
  <2> HIDE DEF Step
  <2>4. g = [d \in 0..n+1 |-> Step(g, d)]
    BY <2>3
  <2>5. QED
    BY <2>4
<1>4. Good(Nesting)
  <2> DEFINE T == {n \in Nat : Good(n)}
  <2> HIDE DEF Good
  <2>1. 0 \in T /\ \A n \in T : n + 1 \in T
    BY <1>2, <1>3
  <2> HIDE DEF T
  <2>2. T \in SUBSET Nat
    BY DEF T
  <2>3. T = Nat
    BY <2>1, <2>2, NatSet
  <2>4. QED
    BY <1>1, <2>3 DEF T
<1>5. PairLevels(v, w) = [d \in 0..Nesting |-> Step(PairLevels(v, w), d)]
  <2>1. PairLevels(v, w) = CHOOSE f : f = [d \in 0..Nesting |-> Step(f, d)]
    BY DEF PairLevels
  <2>2. \E f : f = [d \in 0..Nesting |-> Step(f, d)]
    BY <1>4
  <2> HIDE DEF Step
  <2>3. QED
    BY <2>1, <2>2
<1>6. /\ 0 \in 0..Nesting
      /\ \A d \in 1..Nesting : d \in 0..Nesting /\ d # 0
  BY <1>1
<1> DEFINE l == PairLevels(v, w)
<1>7. l[0] = Step(l, 0)
  BY <1>5, <1>6, Zenon
<1>8. \A d \in 1..Nesting : l[d] = Step(l, d)
  BY <1>5, <1>6, Zenon
<1> HIDE DEF l
<1>9. QED
  BY <1>6, <1>7, <1>8 DEF l

\* What is in a list of values, at any level.
Within(vs) ==
  UNION {UNION {Levels(vs[m])[d] : d \in 0..Nesting} : m \in 1..Len(vs)}

\* What the tag of a value says of the rest of it.
LEMMA ValueKinds ==
  ASSUME NEW v \in Values
  PROVE  /\ v.t \in {"nil", "bool", "num", "str", "fun", "cfun", "elsewhere",
                     "userdata", "helper", "table"}
         /\ v.t \in Plain => v = Value(v.t)
         /\ v.t = "table" => v = Table(v.kv) /\ v.kv \in Seq(Values \X Values)
         /\ v.t = "helper" => v = HelperValue(v.x) /\ v.x \in Helpers
         /\ v.t = "elsewhere" => v = Value("elsewhere")
<1>1. IsValue(v)
  BY BodyAssumption
<1>2. QED
  BY <1>1 DEF IsValue, Plain

\* One level down.
LEMMA NextLevel ==
  ASSUME NEW v, NEW d \in 0..Nesting, d + 1 \in 0..Nesting, NEW u \in Levels(v)[d]
  PROVE  Opened(u) \subseteq Levels(v)[d + 1]
<1>1. d + 1 \in 1..Nesting /\ d + 1 - 1 = d
  OBVIOUS
<1>2. Levels(v)[d + 1] = UNION {Opened(w) : w \in Levels(v)[d + 1 - 1]}
  BY <1>1, LevelsAre
<1>3. QED
  BY <1>1, <1>2

\* What is in a value is a value, at any level.
LEMMA LevelsInValues ==
  ASSUME NEW v \in Values, NEW d \in 0..Nesting
  PROVE  Levels(v)[d] \subseteq Values
<1> DEFINE T == {n \in Nat : n \in 0..Nesting => Levels(v)[n] \subseteq Values}
<1>1. Nesting \in Nat
  BY BodyAssumption
<1>2. 0 \in T
  BY LevelsAre
<1>3. ASSUME NEW u \in Values PROVE Opened(u) \subseteq Values
  <2>1. CASE u.t = "table"
    <3>1. u.kv \in Seq(Values \X Values)
      BY <2>1, ValueKinds
    <3>2. \A m \in 1..Len(u.kv) : u.kv[m][1] \in Values /\ u.kv[m][2] \in Values
      BY <3>1
    <3>3. QED
      BY <2>1, <3>2 DEF Opened
  <2>2. CASE u.t # "table"
    BY <2>2 DEF Opened
  <2>3. QED
    BY <2>1, <2>2
<1>4. ASSUME NEW n \in T, n + 1 \in 0..Nesting
      PROVE  Levels(v)[n + 1] \subseteq Values
  <2>1. n \in 0..Nesting /\ n + 1 \in 1..Nesting /\ n + 1 - 1 = n
    BY <1>1, <1>4
  <2>2. Levels(v)[n] \subseteq Values
    BY <2>1
  <2>3. Levels(v)[n + 1] = UNION {Opened(u) : u \in Levels(v)[n + 1 - 1]}
    BY <2>1, LevelsAre
  <2>4. QED
    BY <1>3, <2>1, <2>2, <2>3
<1>5. T \in SUBSET Nat /\ \A n \in T : n + 1 \in T
  BY <1>4
<1>6. T = Nat
  <2> HIDE DEF T
  <2>1. QED
    BY <1>2, <1>5, NatSet
<1>7. d \in T
  BY <1>1, <1>6
<1>8. QED
  BY <1>7

\* What is no table stays as it is, down to the leaves.
LEMMA LeavesStay ==
  ASSUME NEW v, NEW d \in 0..Nesting, NEW u \in Levels(v)[d], u.t # "table"
  PROVE  u \in Leaves(v)
<1> DEFINE T == {n \in Nat : d + n \in 0..Nesting => u \in Levels(v)[d + n]}
<1>1. Nesting \in Nat /\ d \in Nat /\ d + 0 = d
  BY BodyAssumption
<1>2. 0 \in T
  BY <1>1
<1>3. ASSUME NEW n \in T, d + (n + 1) \in 0..Nesting
      PROVE  u \in Levels(v)[d + (n + 1)]
  <2>1. d + n \in 0..Nesting /\ (d + n) + 1 \in 0..Nesting /\ (d + n) + 1 = d + (n + 1)
    BY <1>1, <1>3
  <2>2. u \in Levels(v)[d + n]
    BY <2>1
  <2>3. Opened(u) = {u}
    BY DEF Opened
  <2>4. Opened(u) \subseteq Levels(v)[(d + n) + 1]
    BY <2>1, <2>2, NextLevel
  <2>5. QED
    BY <2>1, <2>3, <2>4
<1>4. T \in SUBSET Nat /\ \A n \in T : n + 1 \in T
  BY <1>3
<1>5. T = Nat
  <2> HIDE DEF T
  <2>1. QED
    BY <1>2, <1>4, NatSet
<1> HIDE DEF T
<1>6. Nesting - d \in Nat /\ d + (Nesting - d) = Nesting /\ Nesting \in 0..Nesting
  BY <1>1
<1>7. QED
  BY <1>5, <1>6 DEF Leaves, T

\* What is in a list: values, closed under the pairs of a table, and down to the
\* leaves where it is no table.
LEMMA WithinIs ==
  ASSUME NEW vs \in Seq(Values)
  PROVE  /\ Within(vs) \subseteq Values
         /\ vs \in Seq(Within(vs))
         /\ \A v \in Within(vs) : v.t = "table" =>
              \A m \in 1..Len(v.kv) : /\ v.kv[m][1] \in Within(vs)
                                      /\ v.kv[m][2] \in Within(vs)
         /\ \A v \in Within(vs) : v.t # "table" =>
              \E m \in 1..Len(vs) : v \in Leaves(vs[m])
<1>1. /\ Nesting \in Nat /\ 0 \in 0..Nesting
      /\ Len(vs) \in Nat /\ \A m \in 1..Len(vs) : vs[m] \in Values
  BY BodyAssumption
<1>2. Within(vs) \subseteq Values
  BY <1>1, LevelsInValues DEF Within
<1>3. ASSUME NEW m \in 1..Len(vs) PROVE vs[m] \in Within(vs)
  <2>1. vs[m] \in Levels(vs[m])[0]
    BY LevelsAre
  <2>2. QED
    BY <1>1, <2>1 DEF Within
<1>4. vs \in Seq(Within(vs))
  <2>1. vs = [m \in 1..Len(vs) |-> vs[m]]
    OBVIOUS
  <2>2. vs \in [1..Len(vs) -> Within(vs)]
    BY <1>3, <2>1
  <2>3. QED
    BY <1>1, <2>2, SeqDef
<1>5. ASSUME NEW v \in Within(vs), v.t = "table"
      PROVE  Opened(v) \subseteq Within(vs)
  <2>1. PICK m \in 1..Len(vs), d \in 0..Nesting : v \in Levels(vs[m])[d]
    BY DEF Within
  <2>2. d # Nesting
    <3>1. v \notin Leaves(vs[m])
      BY <1>1, <1>5, BodyAssumption
    <3>2. QED
      BY <2>1, <3>1 DEF Leaves
  <2>3. d + 1 \in 0..Nesting
    BY <1>1, <2>2
  <2>4. Opened(v) \subseteq Levels(vs[m])[d + 1]
    BY <2>1, <2>3, NextLevel
  <2>5. QED
    BY <2>3, <2>4 DEF Within
<1>6. ASSUME NEW v \in Within(vs), v.t = "table", NEW m \in 1..Len(v.kv)
      PROVE  v.kv[m][1] \in Within(vs) /\ v.kv[m][2] \in Within(vs)
  <2>1. v.kv[m][1] \in Opened(v) /\ v.kv[m][2] \in Opened(v)
    BY <1>6 DEF Opened
  <2>2. QED
    BY <1>5, <1>6, <2>1
<1>7. ASSUME NEW v \in Within(vs), v.t # "table"
      PROVE  \E m \in 1..Len(vs) : v \in Leaves(vs[m])
  <2>1. PICK m \in 1..Len(vs), d \in 0..Nesting : v \in Levels(vs[m])[d]
    BY DEF Within
  <2>2. QED
    BY <1>7, <2>1, LeavesStay
<1>8. QED
  BY <1>2, <1>4, <1>6, <1>7

-----------------------------------------------------------------------------
\* What the lists of the two ends hold, and what was to be written before each
\* token of a stream.

\* What the lists of the writer and the reader are made of.
Codes == [t : {"bytes"}, dump : {"empty", "code"}]
\* What ends a container: RPC_TABLE_END and RPC_FUNCTION_END.
EndMarks == {Value("table_end"), Value("function_end")}
\* All that may be on the writer's list for these values.
Items(vs) == Within(vs) \union Codes \union EndMarks

\* The tags that open a container of the reader.
Containers == {"table", "fun", "cfun"}

\* What follows the tag of a container.
Pieces(v) == IF v.t = "table" THEN Unpacked(v) ELSE Dumped(v)

\* The tag of an item says which of the three it is.
LEMMA ItemKinds ==
  ASSUME NEW vs \in Seq(Values), NEW u \in Items(vs)
  PROVE  /\ u.t = "bytes" <=> u \in Codes
         /\ u.t \in {"table_end", "function_end"} <=> u \in EndMarks
         /\ u.t \notin {"bytes", "table_end", "function_end"}
              <=> u \in Within(vs)
         /\ u.t # "pathof"
         /\ u \in Within(vs) => u \in Values
<1>1. \A v \in Within(vs) : /\ v \in Values
                            /\ v.t \notin {"bytes", "table_end", "function_end", "pathof"}
  BY WithinIs, ValueKinds
<1>2. \A v \in Codes : v.t = "bytes"
  BY DEF Codes
<1>3. \A v \in EndMarks : v.t \in {"table_end", "function_end"}
  BY DEF EndMarks, Value
<1>4. u \in Within(vs) \/ u \in Codes \/ u \in EndMarks
  BY DEF Items
<1>5. QED
  BY <1>1, <1>2, <1>3, <1>4

\* A table is its keys and values in turn, and the end mark.
LEMMA TablePieces ==
  ASSUME NEW v \in Values, v.t = "table"
  PROVE  /\ Len(v.kv) \in Nat
         /\ Pieces(v) \in Seq(Values \union EndMarks)
         /\ Len(Pieces(v)) = 2 * Len(v.kv) + 1
         /\ Pieces(v)[2 * Len(v.kv) + 1] = Value("table_end")
         /\ \A m \in 1..Len(v.kv) : /\ Pieces(v)[2 * m - 1] = v.kv[m][1]
                                    /\ Pieces(v)[2 * m] = v.kv[m][2]
<1> DEFINE n == Len(v.kv)
           M == Members(v)
           e == Value("table_end")
<1>1. v.kv \in Seq(Values \X Values) /\ n \in Nat
  BY ValueKinds
<1>2. \A m \in 1..n : v.kv[m][1] \in Values /\ v.kv[m][2] \in Values
  BY <1>1
<1>3. ASSUME NEW m \in 1..2 * n
      PROVE  v.kv[(m + 1) \div 2][2 - (m % 2)] \in Values
  <2>1. n \in Nat /\ m \in 1..2 * n
    BY <1>1
  <2> HIDE DEF n
  <2>2. (m + 1) \div 2 \in 1..n /\ 2 - (m % 2) \in {1, 2}
    BY <2>1
  <2>3. QED
    BY <1>2, <2>2
<1>4. M \in [1..2 * n -> Values]
  BY <1>3 DEF Members
<1>5. 2 * n \in Nat
  BY <1>1
<1>6. M \in Seq(Values) /\ Len(M) = 2 * n
  <2> HIDE DEF M, n
  <2>1. M \in Seq(Values)
    BY <1>4, <1>5, SeqDef
  <2>2. QED
    BY <1>4, <1>5, <2>1
<1>7. ASSUME NEW m \in 1..n
      PROVE  M[2 * m - 1] = v.kv[m][1] /\ M[2 * m] = v.kv[m][2]
  <2>1. n \in Nat /\ m \in 1..n
    BY <1>1
  <2> HIDE DEF n
  <2>2. 2 * m - 1 \in 1..2 * n /\ 2 * m \in 1..2 * n
    BY <2>1
  <2>3. ((2 * m - 1) + 1) \div 2 = m /\ 2 - ((2 * m - 1) % 2) = 1
    BY <2>1
  <2>4. (2 * m + 1) \div 2 = m /\ 2 - ((2 * m) % 2) = 2
    BY <2>1
  <2>5. \A k \in 1..2 * n : M[k] = v.kv[(k + 1) \div 2][2 - (k % 2)]
    BY DEF Members, n
  <2> HIDE DEF M
  <2>6. QED
    BY <2>2, <2>3, <2>4, <2>5
<1>8. Pieces(v) = Append(M, e)
  BY DEF Pieces, Unpacked
<1> HIDE DEF M
<1>9. /\ Append(M, e) \in Seq(Values \union EndMarks)
      /\ Len(Append(M, e)) = 2 * n + 1
      /\ Append(M, e)[2 * n + 1] = e
      /\ \A k \in 1..2 * n : Append(M, e)[k] = M[k]
  <2> DEFINE S == Values \union EndMarks
  <2>1. M \in Seq(S) /\ e \in S
    BY <1>6 DEF EndMarks
  <2> HIDE DEF S, e
  <2>2. QED
    BY <1>5, <1>6, <2>1, AppendProperties DEF S
<1>10. \A m \in 1..n : 2 * m - 1 \in 1..2 * n /\ 2 * m \in 1..2 * n
  <2> HIDE DEF n
  <2>1. QED
    BY <1>1 DEF n
<1>11. QED
  BY <1>1, <1>7, <1>8, <1>9, <1>10, Zenon

\* A function is its code, and the end mark.
LEMMA FunctionPieces ==
  ASSUME NEW v, v.t \in {"fun", "cfun"}
  PROVE  /\ Pieces(v) \in Seq(Codes \union EndMarks)
         /\ Len(Pieces(v)) = 2
         /\ Pieces(v)[1] \in Codes
         /\ Pieces(v)[1].dump = IF v.t = "cfun" THEN "empty" ELSE "code"
         /\ Pieces(v)[2] = Value("function_end")
<1> DEFINE b == [t |-> "bytes", dump |-> IF v.t = "cfun" THEN "empty" ELSE "code"]
           e == Value("function_end")
<1>1. b \in Codes /\ e \in EndMarks /\ b.dump = IF v.t = "cfun" THEN "empty" ELSE "code"
  BY DEF Codes, EndMarks
<1>2. Pieces(v) = <<b, e>>
  BY DEF Pieces, Dumped
<1> HIDE DEF b, e
<1>3. QED
  BY <1>1, <1>2 DEF e

\* The position of a key or a value among the members of a table.
LEMMA Halves ==
  ASSUME NEW n \in Nat, NEW k \in 1..2 * n
  PROVE  \E m \in 1..n : k = 2 * m - 1 \/ k = 2 * m
<1> DEFINE m == (k + 1) \div 2
<1>1. m \in 1..n
  OBVIOUS
<1>2. k = 2 * m - 1 \/ k = 2 * m
  OBVIOUS
<1> HIDE DEF m
<1>3. QED
  BY <1>1, <1>2

\* The pieces end in a mark, and nothing else in them is one.
LEMMA PiecesEnd ==
  ASSUME NEW vs \in Seq(Values), NEW v \in Within(vs), v.t \in Containers
  PROVE  /\ Pieces(v) \in Seq(Items(vs))
         /\ Len(Pieces(v)) \in Nat \ {0}
         /\ Pieces(v)[Len(Pieces(v))] =
              Value(IF v.t = "table" THEN "table_end" ELSE "function_end")
         /\ \A m \in 1..Len(Pieces(v)) : m # Len(Pieces(v)) =>
              Pieces(v)[m] \notin EndMarks
<1>1. v \in Values
  BY WithinIs
<1> DEFINE P == Pieces(v)
<1>2. CASE v.t = "table"
  <2> DEFINE n == Len(v.kv)
  <2>1. /\ n \in Nat /\ Len(P) = 2 * n + 1 /\ P \in Seq(Values \union EndMarks)
        /\ P[2 * n + 1] = Value("table_end")
        /\ \A m \in 1..n : P[2 * m - 1] = v.kv[m][1] /\ P[2 * m] = v.kv[m][2]
    BY <1>1, <1>2, TablePieces
  <2>2. \A m \in 1..n : v.kv[m][1] \in Within(vs) /\ v.kv[m][2] \in Within(vs)
    BY <1>2, WithinIs
  <2> HIDE DEF n, P
  <2>3. ASSUME NEW k \in 1..2 * n PROVE P[k] \in Within(vs)
    <3>1. PICK m \in 1..n : k = 2 * m - 1 \/ k = 2 * m
      BY <2>1, Halves
    <3>2. QED
      BY <2>1, <2>2, <3>1
  <2>4. \A u \in Within(vs) : u \in Items(vs) /\ u \notin EndMarks
    <3>1. \A u \in Within(vs) : u \in Items(vs) /\ u \in Values
      BY WithinIs DEF Items
    <3>2. QED
      BY <3>1, ValueKinds DEF EndMarks, Value
  <2>5. P[2 * n + 1] \in Items(vs)
    BY <2>1 DEF Items, EndMarks
  <2>6. ASSUME NEW m \in 1..Len(P)
        PROVE  P[m] \in Items(vs) /\ (m # Len(P) => P[m] \notin EndMarks)
    <3>1. m = 2 * n + 1 \/ m \in 1..2 * n
      BY <2>1
    <3>2. QED
      BY <2>1, <2>3, <2>4, <2>5, <3>1
  <2>7. P \in Seq(Items(vs))
    <3>1. P \in [1..Len(P) -> Items(vs)] /\ Len(P) \in Nat
      BY <2>1, <2>6, LenProperties
    <3>2. QED
      BY <3>1, SeqDef
  <2>8. Len(P) \in Nat \ {0}
    BY <2>1
  <2>9. QED
    BY <1>2, <2>1, <2>6, <2>7, <2>8 DEF P
<1>3. CASE v.t # "table"
  <2>1. v.t \in {"fun", "cfun"}
    BY <1>3 DEF Containers
  <2>2. /\ P \in Seq(Codes \union EndMarks) /\ Len(P) = 2
        /\ P[1] \in Codes /\ P[2] = Value("function_end")
    BY <2>1, FunctionPieces
  <2> HIDE DEF P
  <2>3. P \in Seq(Items(vs))
    <3>1. Codes \union EndMarks \subseteq Items(vs)
      BY DEF Items
    <3>2. QED
      BY <2>2, <3>1, SeqMonotonic, Zenon
  <2>4. P[1] \notin EndMarks
    BY <2>2 DEF Codes, EndMarks, Value
  <2>5. QED
    BY <1>3, <2>2, <2>3, <2>4 DEF P
<1>4. QED
  BY <1>2, <1>3

\* A helper whose tag is written and whose path is not.
PathMark(x) == [t |-> "pathof", x |-> x]

\* The same, with the helpers under way.
Listed(vs) == Items(vs) \union {PathMark(x) : x \in Helpers}

\* A token, what was to be written before it and after it.
Wrote(tok, before, after) ==
  /\ before # <<>>
  /\ LET v == Head(before) IN
       \/ /\ v.t \in Plain \union {"bytes", "table_end", "function_end"}
          /\ tok = v /\ after = Tail(before)
       \/ /\ v.t \in Containers
          /\ tok = Tag(IF v.t = "table" THEN "table_begin" ELSE "function_begin")
          /\ after = Pieces(v) \o Tail(before)
       \/ /\ v.t = "helper"
          /\ tok = Tag("remote") /\ after = <<PathMark(v.x)>> \o Tail(before)
       \/ /\ v.t = "pathof" /\ v.x \in made
          /\ tok = PathOf(v.x) /\ after = Tail(before)
       \/ /\ v.t = "elsewhere"
          /\ tok = Tag("remote") /\ after = Tail(before)

\* A sequence, of whatever.
IsSeq(st) == \E S : st \in Seq(S)

\* R is what was to be written before each token of the stream past the first
\* k, and what is to be written still.
Written(st, k, R, vs, left) ==
  /\ IsSeq(st) /\ k \in 0..Len(st)
  /\ R \in Seq(Seq(Listed(vs)))
  /\ Len(R) = Len(st) - k + 1
  /\ R[Len(R)] = left
  /\ \A m \in 1..Len(st) - k : Wrote(st[k + m], R[m], R[m + 1])

\* An append to a stream.
LEMMA AppendToAny ==
  ASSUME NEW st, IsSeq(st), NEW e
  PROVE  /\ IsSeq(Append(st, e)) /\ Len(st) \in Nat
         /\ Len(Append(st, e)) = Len(st) + 1
         /\ Append(st, e)[Len(st) + 1] = e
         /\ \A m \in 1..Len(st) : Append(st, e)[m] = st[m]
<1>1. PICK S : st \in Seq(S)
  BY DEF IsSeq
<1> DEFINE V == S \union {e}
<1>2. st \in Seq(V) /\ e \in V
  BY <1>1
<1> HIDE DEF V
<1>3. /\ Append(st, e) \in Seq(V) /\ Len(st) \in Nat
      /\ Len(Append(st, e)) = Len(st) + 1
      /\ Append(st, e)[Len(st) + 1] = e
      /\ \A m \in 1..Len(st) : Append(st, e)[m] = st[m]
  BY <1>2
<1>4. QED
  BY <1>3 DEF IsSeq

\* Nothing is written yet: all of the values are to be.
LEMMA WrittenStart ==
  ASSUME NEW st, IsSeq(st), NEW vs, vs \in Seq(Listed(vs))
  PROVE  Written(st, Len(st), <<vs>>, vs, vs)
<1>1. Len(st) \in Nat
  BY AppendToAny
<1> DEFINE n == Len(st)
<1> HIDE DEF n
<1>2. n \in Nat
  BY <1>1 DEF n
<1>3. n \in 0..n /\ n - n = 0
  BY <1>2
<1>4. <<vs>> \in Seq(Seq(Listed(vs))) /\ Len(<<vs>>) = 1 /\ <<vs>>[1] = vs
  OBVIOUS
<1>5. QED
  BY <1>3, <1>4 DEF Written, n

\* A token is written.
LEMMA WrittenMore ==
  ASSUME NEW st, NEW k, NEW R, NEW vs, NEW left, Written(st, k, R, vs, left),
         NEW e, NEW rest \in Seq(Listed(vs)), Wrote(e, left, rest)
  PROVE  /\ Written(Append(st, e), k, Append(R, rest), vs, rest)
         /\ Append(R, rest)[1] = R[1]
<1> DEFINE n == Len(st)
           Q == Append(R, rest)
           u == Append(st, e)
<1>1. /\ IsSeq(st) /\ k \in 0..n /\ R \in Seq(Seq(Listed(vs)))
      /\ Len(R) = n - k + 1 /\ R[Len(R)] = left
      /\ \A m \in 1..n - k : Wrote(st[k + m], R[m], R[m + 1])
  BY DEF Written
<1>2. /\ IsSeq(u) /\ n \in Nat /\ Len(u) = n + 1 /\ u[n + 1] = e
      /\ \A m \in 1..n : u[m] = st[m]
  BY <1>1, AppendToAny
<1>3. /\ Q \in Seq(Seq(Listed(vs))) /\ Len(Q) = Len(R) + 1
      /\ Q[Len(R) + 1] = rest
      /\ \A m \in 1..Len(R) : Q[m] = R[m]
  <2> DEFINE S == Seq(Listed(vs))
  <2>1. R \in Seq(S) /\ rest \in S
    BY <1>1
  <2> HIDE DEF S
  <2>2. QED
    BY <2>1, AppendProperties DEF S
<1> HIDE DEF n, Q, u
<1>4. k \in 0..n+1 /\ Len(Q) = (n + 1) - k + 1 /\ Q[Len(Q)] = rest /\ 1 \in 1..Len(R)
  BY <1>1, <1>2, <1>3
<1>5. ASSUME NEW m \in 1..(n + 1) - k PROVE Wrote(u[k + m], Q[m], Q[m + 1])
  <2>1. CASE m \in 1..n - k
    <3>1. k + m \in 1..n /\ m \in 1..Len(R) /\ m + 1 \in 1..Len(R)
      BY <1>1, <1>2, <2>1
    <3>2. u[k + m] = st[k + m] /\ Q[m] = R[m] /\ Q[m + 1] = R[m + 1]
      BY <1>2, <1>3, <3>1
    <3>3. QED
      BY <1>1, <2>1, <3>2
  <2>2. CASE m = (n + 1) - k
    <3>1. k + m = n + 1 /\ m = Len(R) /\ m \in 1..Len(R)
      BY <1>1, <1>2, <2>2
    <3>2. u[k + m] = e /\ Q[m] = left /\ Q[m + 1] = rest
      BY <1>1, <1>2, <1>3, <3>1
    <3>3. QED
      BY <3>2
  <2>3. QED
    BY <1>1, <1>2, <2>1, <2>2
<1>6. Written(u, k, Q, vs, rest)
  BY <1>2, <1>3, <1>4, <1>5 DEF Written
<1>7. QED
  BY <1>3, <1>4, <1>6 DEF Q, u

\* What of a sequence follows its first k.
LEMMA RestOfAny ==
  ASSUME NEW st, IsSeq(st), NEW k \in 0..Len(st)
  PROVE  /\ Len(st) \in Nat
         /\ IsSeq(SubSeq(st, k + 1, Len(st)))
         /\ Len(SubSeq(st, k + 1, Len(st))) = Len(st) - k
         /\ \A m \in 1..Len(st) - k : SubSeq(st, k + 1, Len(st))[m] = st[k + m]
<1>1. PICK S : st \in Seq(S)
  BY DEF IsSeq
<1>2. Len(st) \in Nat
  BY <1>1
<1> DEFINE u == SubSeq(st, k + 1, Len(st))
<1>3. u \in Seq(S) /\ Len(u) = Len(st) - k
  BY <1>1, <1>2
<1>4. \A m \in 1..Len(st) - k : u[m] = st[k + m]
  BY <1>1, <1>2
<1>5. QED
  BY <1>2, <1>3, <1>4 DEF IsSeq

\* The tail of a stream.
LEMMA TailOfAny ==
  ASSUME NEW st, IsSeq(st), st # <<>>
  PROVE  /\ Len(st) \in Nat \ {0}
         /\ Head(st) = st[1]
         /\ Tail(st) = SubSeq(st, 2, Len(st))
  BY DEF IsSeq

\* The tokens past the first k on their own, as Flush and the readers leave them.
LEMMA WrittenAfter ==
  ASSUME NEW st, NEW k, NEW R, NEW vs, NEW left, Written(st, k, R, vs, left)
  PROVE  Written(SubSeq(st, k + 1, Len(st)), 0, R, vs, left)
<1> DEFINE n == Len(st)
           u == SubSeq(st, k + 1, Len(st))
<1>1. /\ IsSeq(st) /\ k \in 0..n /\ R \in Seq(Seq(Listed(vs)))
      /\ Len(R) = n - k + 1 /\ R[Len(R)] = left
      /\ \A m \in 1..n - k : Wrote(st[k + m], R[m], R[m + 1])
  BY DEF Written
<1>2. /\ n \in Nat /\ IsSeq(u) /\ Len(u) = n - k
      /\ \A m \in 1..n - k : u[m] = st[k + m]
  BY <1>1, RestOfAny
<1> HIDE DEF n, u
<1>3. 0 \in 0..Len(u) /\ Len(R) = Len(u) - 0 + 1
  BY <1>1, <1>2
<1>4. ASSUME NEW m \in 1..Len(u) - 0 PROVE Wrote(u[0 + m], R[m], R[m + 1])
  <2>1. m \in 1..n - k /\ 0 + m = m
    BY <1>1, <1>2
  <2>2. QED
    BY <1>1, <1>2, <2>1
<1>5. QED
  BY <1>1, <1>2, <1>3, <1>4 DEF Written, u

\* A token is read.
LEMMA WrittenNext ==
  ASSUME NEW st, NEW R, NEW vs, NEW left, Written(st, 0, R, vs, left), st # <<>>
  PROVE  /\ Wrote(Head(st), R[1], R[2])
         /\ R[1] \in Seq(Listed(vs)) /\ R[2] \in Seq(Listed(vs))
         /\ Written(Tail(st), 0, Tail(R), vs, left)
         /\ Tail(R)[1] = R[2]
<1> DEFINE n == Len(st)
           u == Tail(st)
           Q == Tail(R)
<1>1. /\ IsSeq(st) /\ R \in Seq(Seq(Listed(vs)))
      /\ Len(R) = n - 0 + 1 /\ R[Len(R)] = left
      /\ \A m \in 1..n - 0 : Wrote(st[0 + m], R[m], R[m + 1])
  BY DEF Written
<1>2. n \in Nat \ {0} /\ Head(st) = st[1] /\ u = SubSeq(st, 1 + 1, n)
  BY <1>1, TailOfAny
<1>3. /\ IsSeq(u) /\ Len(u) = n - 1
      /\ \A m \in 1..n - 1 : u[m] = st[1 + m]
  <2> DEFINE k == 1
  <2>1. k \in 0..Len(st) /\ IsSeq(st)
    BY <1>1, <1>2
  <2> HIDE DEF k
  <2>2. /\ IsSeq(SubSeq(st, k + 1, Len(st)))
        /\ Len(SubSeq(st, k + 1, Len(st))) = Len(st) - k
        /\ \A m \in 1..Len(st) - k : SubSeq(st, k + 1, Len(st))[m] = st[k + m]
    BY <2>1, RestOfAny, Zenon
  <2>3. QED
    BY <1>2, <2>2, Zenon DEF k
<1>4. /\ Q \in Seq(Seq(Listed(vs))) /\ Len(Q) = Len(R) - 1
      /\ \A m \in 1..Len(R) - 1 : Q[m] = R[m + 1]
  BY <1>1, <1>2
<1>5. Wrote(st[1], R[1], R[2]) /\ 1 \in 1..Len(R) /\ 2 \in 1..Len(R)
  <2>1. 1 \in 1..n - 0 /\ 0 + 1 = 1
    BY <1>2
  <2> HIDE DEF n
  <2>2. QED
    BY <1>1, <1>2, <2>1
<1> HIDE DEF n, u, Q
<1>6. 0 \in 0..Len(u) /\ Len(Q) = Len(u) - 0 + 1 /\ Q[Len(Q)] = left /\ Q[1] = R[2]
  BY <1>1, <1>2, <1>3, <1>4
<1>7. ASSUME NEW m \in 1..Len(u) - 0 PROVE Wrote(u[0 + m], Q[m], Q[m + 1])
  <2>1. /\ m \in 1..n - 1 /\ m + 1 \in 1..n - 0 /\ 0 + (m + 1) = 1 + m /\ 0 + m = m
        /\ m \in 1..Len(R) - 1 /\ m + 1 \in 1..Len(R) - 1
    BY <1>1, <1>2, <1>3
  <2>2. Wrote(st[0 + (m + 1)], R[m + 1], R[(m + 1) + 1])
    BY <1>1, <2>1
  <2>3. u[0 + m] = st[0 + (m + 1)] /\ Q[m] = R[m + 1] /\ Q[m + 1] = R[(m + 1) + 1]
    BY <1>3, <1>4, <2>1
  <2>4. QED
    BY <2>2, <2>3
<1>8. Written(u, 0, Q, vs, left)
  BY <1>3, <1>4, <1>6, <1>7 DEF Written
<1>9. R[1] \in Seq(Listed(vs)) /\ R[2] \in Seq(Listed(vs))
  BY <1>1, <1>5
<1>10. QED
  BY <1>2, <1>5, <1>6, <1>8, <1>9 DEF u, Q

\* Nothing is left in the stream exactly when nothing is left to be read.
LEMMA WrittenOut ==
  ASSUME NEW st, NEW R, NEW vs, Written(st, 0, R, vs, <<>>)
  PROVE  st = <<>> <=> R[1] = <<>>
<1>1. CASE st = <<>>
  <2>1. Len(R) = 1 /\ R[Len(R)] = <<>>
    <3>1. Len(st) = 0
      BY <1>1
    <3>2. QED
      BY <3>1 DEF Written
  <2>2. QED
    BY <1>1, <2>1
<1>2. CASE st # <<>>
  <2>1. Wrote(Head(st), R[1], R[2])
    BY <1>2, WrittenNext
  <2>2. QED
    BY <1>2, <2>1 DEF Wrote
<1>3. QED
  BY <1>1, <1>2

-----------------------------------------------------------------------------
\* The reader: what there was to be read when each open container was opened.

\* What of a list is left when g of it have been read.
Rest(L, g) == SubSeq(L, g + 1, Len(L))

\* What is left of a list.
LEMMA RestIs ==
  ASSUME NEW S, NEW L \in Seq(S), NEW g \in 0..Len(L)
  PROVE  /\ Rest(L, g) \in Seq(S) /\ Len(L) \in Nat
         /\ Len(Rest(L, g)) = Len(L) - g
         /\ \A m \in 1..Len(L) - g : Rest(L, g)[m] = L[g + m]
         /\ Rest(L, g) = <<>> <=> g = Len(L)
<1> DEFINE n == Len(L)
           r == SubSeq(L, g + 1, n)
<1>1. n \in Nat /\ g \in 0..n
  BY LenProperties
<1>2. r \in Seq(S) /\ Len(r) = n - g
  BY <1>1
<1>3. \A m \in 1..n - g : r[m] = L[g + m]
  BY <1>1
<1>4. r = <<>> <=> Len(r) = 0
  BY <1>2
<1> HIDE DEF n, r
<1>5. r = <<>> <=> g = n
  BY <1>1, <1>2, <1>4
<1>6. QED
  BY <1>1, <1>2, <1>3, <1>5 DEF Rest, n, r

\* The next of what is left.
LEMMA RestNext ==
  ASSUME NEW S, NEW L \in Seq(S), NEW g \in 0..Len(L), g # Len(L)
  PROVE  /\ g + 1 \in 0..Len(L) /\ g + 1 \in 1..Len(L)
         /\ Head(Rest(L, g)) = L[g + 1]
         /\ Tail(Rest(L, g)) = Rest(L, g + 1)
<1>1. Len(L) \in Nat /\ g \in Nat /\ g + 1 \in 0..Len(L) /\ g + 1 \in 1..Len(L)
  OBVIOUS
<1> DEFINE r == Rest(L, g)
           q == Rest(L, g + 1)
<1>2. r \in Seq(S) /\ Len(r) = Len(L) - g /\ r # <<>>
      /\ \A m \in 1..Len(L) - g : r[m] = L[g + m]
  BY RestIs
<1>3. q \in Seq(S) /\ Len(q) = Len(L) - (g + 1)
      /\ \A m \in 1..Len(L) - (g + 1) : q[m] = L[(g + 1) + m]
  BY <1>1, RestIs
<1> HIDE DEF r, q
<1>4. Head(r) = L[g + 1]
  BY <1>1, <1>2
<1>5. /\ Tail(r) \in Seq(S) /\ Len(Tail(r)) = Len(q)
      /\ \A m \in 1..Len(q) : Tail(r)[m] = r[m + 1]
  BY <1>1, <1>2, <1>3
<1>6. ASSUME NEW m \in 1..Len(q) PROVE Tail(r)[m] = q[m]
  <2>1. /\ m + 1 \in 1..Len(L) - g /\ m \in 1..Len(L) - (g + 1)
        /\ g + (m + 1) = (g + 1) + m
    BY <1>1, <1>3
  <2>2. r[m + 1] = L[g + (m + 1)] /\ q[m] = L[(g + 1) + m]
    BY <1>2, <1>3, <2>1
  <2>3. QED
    BY <1>5, <2>1, <2>2
<1>7. Tail(r) = q
  BY <1>3, <1>5, <1>6, SeqEqual
<1>8. QED
  BY <1>1, <1>4, <1>7 DEF r, q

\* What is left of two lists, one after the other.
LEMMA RestOfConcat ==
  ASSUME NEW S, NEW p \in Seq(S), NEW z \in Seq(S)
  PROVE  /\ p \o z \in Seq(S) /\ Len(p) \in 0..Len(p \o z) /\ Len(z) \in Nat
         /\ Len(p \o z) = Len(p) + Len(z)
         /\ \A m \in 1..Len(p) : (p \o z)[m] = p[m]
         /\ Rest(p \o z, 0) = p \o z
         /\ Rest(p \o z, Len(p)) = z
<1> DEFINE q == p \o z
           r == Rest(q, Len(p))
<1>1. /\ q \in Seq(S) /\ Len(q) = Len(p) + Len(z) /\ Len(p) \in Nat /\ Len(z) \in Nat
      /\ \A m \in 1..Len(p) : q[m] = p[m]
      /\ \A m \in Len(p) + 1 .. Len(p) + Len(z) : q[m] = z[m - Len(p)]
  BY ConcatProperties
<1> HIDE DEF q
<1>2. Len(p) \in 0..Len(q) /\ Len(q) - Len(p) = Len(z)
  <2> DEFINE a == Len(p)
             b == Len(z)
             c == Len(q)
  <2>1. a \in Nat /\ b \in Nat /\ c = a + b
    BY <1>1
  <2> HIDE DEF a, b, c
  <2>2. a \in 0..c /\ c - a = b
    BY <2>1
  <2>3. QED
    BY <2>2, Zenon DEF a, b, c
<1>3. r \in Seq(S) /\ Len(r) = Len(z) /\ \A m \in 1..Len(z) : r[m] = q[Len(p) + m]
  <2> DEFINE a == Len(p)
             b == Len(z)
  <2>1. q \in Seq(S) /\ a \in 0..Len(q) /\ Len(q) - a = b
    BY <1>1, <1>2
  <2> HIDE DEF a, b
  <2>2. /\ Rest(q, a) \in Seq(S) /\ Len(Rest(q, a)) = Len(q) - a
        /\ \A m \in 1..Len(q) - a : Rest(q, a)[m] = q[a + m]
    BY <2>1, RestIs
  <2>3. QED
    BY <2>1, <2>2, Zenon DEF a, b
<1> HIDE DEF r
<1>4. ASSUME NEW m \in 1..Len(z) PROVE r[m] = z[m]
  <2>1. Len(p) + m \in Len(p) + 1 .. Len(p) + Len(z) /\ (Len(p) + m) - Len(p) = m
    BY <1>1
  <2>2. QED
    BY <1>1, <1>3, <2>1
<1>5. r = z
  BY <1>3, <1>4, SeqEqual
<1>6. Rest(q, 0) = q
  BY <1>1, SubSeqFull DEF Rest
<1>7. QED
  BY <1>1, <1>2, <1>5, <1>6 DEF q, r

\* An item and what the reader has made of it; X is what has been read before.
Crossed(v, w, X) ==
  \/ /\ v \in Values /\ Becomes(v, w)
     /\ v.t = "table" =>
          \A m \in 1..Len(v.kv) : /\ <<v.kv[m][1], w.kv[m][1]>> \in X
                                  /\ <<v.kv[m][2], w.kv[m][2]>> \in X
  \/ v \in Codes /\ w \in Loaded(v)

\* The container that the tag of v opens.
ContainerOf(v) == IF v.t = "table" THEN "table" ELSE "function"

\* A container that was opened inside another: what there was to be read, V of
\* the outer one when it was opened itself, U of this one.
Entered(V, outer, U, inner) ==
  LET g == Len(outer.got)
      v == V[g + 1]
  IN  /\ g < Len(V)
      /\ v.t \in Containers /\ inner.c = ContainerOf(v)
      /\ U = Pieces(v) \o Rest(V, g + 1)
      /\ Len(inner.got) < Len(Pieces(v))

\* The reader's containers, of values of G.
Frames(G) == [c : {"list", "table", "function"}, got : Seq(G)]

\* The reader's containers, and for each of them what there was to be read when
\* it was opened, inside it and after it.
Stacked(W, X, G, stack, vs) ==
  /\ stack \in Seq(Frames(G)) /\ stack # <<>>
  /\ W \in Seq(Seq(Items(vs))) /\ Len(W) = Len(stack)
  /\ W[1] = vs
  /\ \A k \in 1..Len(stack) : Len(stack[k].got) <= Len(W[k])
  /\ \A k \in 1..Len(stack) : \A m \in 1..Len(stack[k].got) :
       <<W[k][m], stack[k].got[m]>> \in X
  /\ \A k \in 2..Len(stack) : Entered(W[k - 1], stack[k - 1], W[k], stack[k])
  /\ \A v, w : <<v, w>> \in X => Crossed(v, w, X)

\* How much of the innermost container has been read.
Read(stack) == Len(stack[Len(stack)].got)

\* What is to be read.
Unread(W, stack) == Rest(W[Len(stack)], Read(stack))

\* The containers and their lists are what Stacked measures them by.
LEMMA StackTypes ==
  ASSUME NEW W, NEW X, NEW G, NEW stack, NEW vs, Stacked(W, X, G, stack, vs)
  PROVE  /\ Len(stack) \in Nat \ {0}
         /\ \A k \in 1..Len(stack) :
              /\ stack[k] \in Frames(G) /\ stack[k].got \in Seq(G)
              /\ W[k] \in Seq(Items(vs)) /\ Len(W[k]) \in Nat
              /\ Len(stack[k].got) \in 0..Len(W[k])
<1>1. /\ stack \in Seq(Frames(G)) /\ stack # <<>>
      /\ W \in Seq(Seq(Items(vs))) /\ Len(W) = Len(stack)
      /\ \A k \in 1..Len(stack) : Len(stack[k].got) <= Len(W[k])
  BY DEF Stacked
<1>2. Len(stack) \in Nat \ {0}
  <2> DEFINE F == Frames(G)
  <2>1. stack \in Seq(F)
    BY <1>1
  <2> HIDE DEF F
  <2>2. QED
    BY <1>1, <2>1
<1>3. ASSUME NEW k \in 1..Len(stack)
      PROVE  /\ stack[k] \in Frames(G) /\ stack[k].got \in Seq(G)
             /\ W[k] \in Seq(Items(vs)) /\ Len(W[k]) \in Nat
             /\ Len(stack[k].got) \in 0..Len(W[k])
  <2>1. stack[k] \in Frames(G) /\ W[k] \in Seq(Items(vs))
    BY <1>1, ElementOfSeq
  <2>2. stack[k].got \in Seq(G)
    BY <2>1 DEF Frames
  <2>3. Len(W[k]) \in Nat /\ Len(stack[k].got) \in Nat
    BY <2>1, <2>2, LenProperties
  <2>4. QED
    BY <1>1, <2>1, <2>2, <2>3
<1>4. QED
  BY <1>2, <1>3

\* The next item to be read.
LEMMA StackNext ==
  ASSUME NEW W, NEW X, NEW G, NEW stack, NEW vs, Stacked(W, X, G, stack, vs),
         Unread(W, stack) # <<>>
  PROVE  LET n == Len(stack)
             g == Read(stack)
         IN  /\ g \in Nat /\ g < Len(W[n]) /\ g + 1 \in 1..Len(W[n])
             /\ W[n][g + 1] \in Items(vs)
             /\ Head(Unread(W, stack)) = W[n][g + 1]
             /\ Tail(Unread(W, stack)) = Rest(W[n], g + 1)
<1> DEFINE n == Len(stack)
           g == Read(stack)
           L == W[n]
<1>1. L \in Seq(Items(vs)) /\ Len(L) \in Nat /\ g \in 0..Len(L)
  BY StackTypes DEF Read
<1>2. Rest(L, g) # <<>>
  BY DEF Unread
<1> HIDE DEF n, g, L
<1>3. g # Len(L)
  BY <1>1, <1>2, RestIs
<1>4. /\ g + 1 \in 1..Len(L) /\ Head(Rest(L, g)) = L[g + 1]
      /\ Tail(Rest(L, g)) = Rest(L, g + 1)
  BY <1>1, <1>3, RestNext
<1>5. g \in Nat /\ g < Len(L) /\ L[g + 1] \in Items(vs)
  BY <1>1, <1>3, <1>4, ElementOfSeq
<1>6. QED
  BY <1>4, <1>5 DEF Unread, n, g, L

\* More pairs explain no less.
LEMMA CrossedMore ==
  ASSUME NEW v, NEW w, NEW X, NEW Y, X \subseteq Y, Crossed(v, w, X)
  PROVE  Crossed(v, w, Y)
  BY DEF Crossed

\* The innermost container takes one value more.
Pushed(p, stack, w, G) ==
  LET n == Len(stack)
      g == Len(stack[n].got)
  IN  /\ p \in Seq(Frames(G \union {w})) /\ p # <<>> /\ Len(p) = n
      /\ \A k \in 1..n : k # n => p[k] = stack[k]
      /\ p[n].c = stack[n].c
      /\ Len(p[n].got) = g + 1
      /\ p[n].got[g + 1] = w
      /\ \A m \in 1..g : p[n].got[m] = stack[n].got[m]

\* Push does what Pushed says.
LEMMA PushIs ==
  ASSUME NEW G, NEW stack, stack \in Seq(Frames(G)), stack # <<>>, NEW w
  PROVE  Pushed(Push(stack, w), stack, w, G)
<1> DEFINE n == Len(stack)
           g == Len(stack[n].got)
           p == Push(stack, w)
           a == Append(stack[n].got, w)
           F == Frames(G)
           H == Frames(G \union {w})
<1>1. stack \in Seq(F) /\ n \in Nat \ {0}
  <2>1. stack \in Seq(F)
    OBVIOUS
  <2> HIDE DEF F
  <2>2. QED
    BY <2>1
<1>2. stack[n] \in F /\ n \in 1..n
  <2>1. n \in 1..n
    BY <1>1
  <2> HIDE DEF F
  <2>2. QED
    BY <1>1, <2>1, ElementOfSeq
<1>3. stack[n] = [c |-> stack[n].c, got |-> stack[n].got] /\ stack[n].got \in Seq(G)
      /\ stack[n].c \in {"list", "table", "function"}
  BY <1>2 DEF Frames
<1>4. /\ a \in Seq(G \union {w}) /\ g \in Nat /\ Len(a) = g + 1
      /\ a[g + 1] = w /\ \A m \in 1..g : a[m] = stack[n].got[m]
  <2> DEFINE V == G \union {w}
             t == stack[n].got
  <2>1. t \in Seq(V) /\ w \in V
    BY <1>3
  <2> HIDE DEF V, t
  <2>2. /\ Append(t, w) \in Seq(V) /\ Len(t) \in Nat /\ Len(Append(t, w)) = Len(t) + 1
        /\ Append(t, w)[Len(t) + 1] = w
        /\ \A m \in 1..Len(t) : Append(t, w)[m] = t[m]
    BY <2>1, AppendProperties, LenProperties
  <2>3. QED
    BY <2>2, Zenon DEF V, t
<1>5. p = [stack EXCEPT ![n] = [stack[n] EXCEPT !.got = a]]
  BY DEF Push
<1>6. [stack[n] EXCEPT !.got = a] = [c |-> stack[n].c, got |-> a]
  <2> HIDE DEF a
  <2>1. ASSUME NEW f, NEW x, NEW y, f = [c |-> x, got |-> y]
        PROVE  [f EXCEPT !.got = a] = [c |-> x, got |-> a]
    BY <2>1
  <2>2. QED
    BY <1>3, <2>1, Zenon
<1>7. stack \in [1..n -> F] /\ DOMAIN stack = 1..n
  <2> HIDE DEF F
  <2>1. QED
    BY <1>1, LenProperties
<1>8. /\ p[n] = [c |-> stack[n].c, got |-> a] /\ DOMAIN p = 1..n
      /\ \A k \in 1..n : k # n => p[k] = stack[k]
  BY <1>2, <1>5, <1>6, <1>7
<1>9. \A k \in 1..n : p[k] \in H
  <2>1. F \subseteq H
    <3>1. Seq(G) \subseteq Seq(G \union {w})
      OBVIOUS
    <3>2. QED
      BY <3>1 DEF Frames
  <2>2. [c |-> stack[n].c, got |-> a] \in H
    BY <1>3, <1>4 DEF Frames
  <2>3. \A k \in 1..n : stack[k] \in F
    BY <1>7
  <2> HIDE DEF F, H
  <2>4. QED
    BY <1>8, <2>1, <2>2, <2>3
<1>10. p \in [1..n -> H]
  <2>1. p = [k \in 1..n |-> p[k]]
    BY <1>5, <1>7
  <2> HIDE DEF H, p
  <2>2. QED
    BY <1>9, <2>1
<1>11. p \in Seq(H) /\ Len(p) = n /\ p # <<>>
  <2> HIDE DEF H, p, n
  <2>1. p \in Seq(H)
    BY <1>1, <1>10, SeqDef
  <2>2. Len(p) = n
    BY <1>1, <1>8, <2>1, LenProperties
  <2>3. QED
    BY <1>1, <2>1, <2>2
<1>12. p[n].c = stack[n].c /\ p[n].got = a
  BY <1>8
<1> HIDE DEF a, H, p
<1>13. QED
  BY <1>4, <1>8, <1>11, <1>12, Zenon DEF Pushed, H, p

\* The container that was entered, and how far its pieces are read.
Inner(vs, V, h, U, g) ==
  LET v == V[h + 1]
      P == Pieces(v)
      z == Rest(V, h + 1)
  IN  /\ v \in Within(vs) /\ v \in Values /\ v.t \in Containers /\ v \notin EndMarks
      /\ h + 1 \in 1..Len(V) /\ h + 1 \in 0..Len(V) /\ g \in Nat /\ Len(P) \in Nat
      /\ z \in Seq(Items(vs)) /\ P \in Seq(Items(vs)) /\ U = P \o z
      /\ \A m \in 1..Len(P) : U[m] = P[m]
      /\ Rest(U, Len(P)) = z
      /\ g + 1 \in 1..Len(P)
      /\ U[g + 1] \in EndMarks <=> g + 1 = Len(P)

\* A container that was entered holds the pieces of what opened it.
LEMMA EnteredFacts ==
  ASSUME NEW vs, vs \in Seq(Values),
         NEW V, NEW outer, NEW U, NEW inner, Entered(V, outer, U, inner),
         V \in Seq(Items(vs)), Len(outer.got) \in 0..Len(V),
         Len(inner.got) \in 0..Len(U)
  PROVE  Inner(vs, V, Len(outer.got), U, Len(inner.got))
<1> DEFINE h == Len(outer.got)
           g == Len(inner.got)
           v == V[h + 1]
           P == Pieces(v)
           z == Rest(V, h + 1)
<1>1. /\ h < Len(V) /\ v.t \in Containers /\ U = P \o z /\ g < Len(P)
  BY DEF Entered
<1>2. h \in Nat /\ Len(V) \in Nat /\ g \in Nat
  BY LenProperties
<1> HIDE DEF h, g
<1>3. h + 1 \in 1..Len(V) /\ h + 1 \in 0..Len(V)
  BY <1>1, <1>2
<1>4. v \in Items(vs)
  BY <1>3, ElementOfSeq
<1>5. v \in Within(vs) /\ v \in Values /\ v \notin EndMarks
  BY <1>1, <1>4, ItemKinds DEF Containers
<1>6. /\ P \in Seq(Items(vs)) /\ Len(P) \in Nat \ {0}
      /\ P[Len(P)] = Value(IF v.t = "table" THEN "table_end" ELSE "function_end")
      /\ \A m \in 1..Len(P) : m # Len(P) => P[m] \notin EndMarks
  BY <1>1, <1>5, PiecesEnd
<1>7. z \in Seq(Items(vs))
  <2> DEFINE k == h + 1
             I == Items(vs)
  <2>1. k \in 0..Len(V) /\ V \in Seq(I)
    BY <1>3
  <2> HIDE DEF k, I
  <2>2. Rest(V, k) \in Seq(I)
    BY <2>1, RestIs
  <2>3. QED
    BY <2>2 DEF k, I
<1> HIDE DEF P, z, v
<1>8. (\A m \in 1..Len(P) : (P \o z)[m] = P[m]) /\ Rest(P \o z, Len(P)) = z
  BY <1>6, <1>7, RestOfConcat
<1>9. g + 1 \in 1..Len(P)
  BY <1>1, <1>2, <1>6
<1>10. U[g + 1] \in EndMarks <=> g + 1 = Len(P)
  <2>1. P[Len(P)] \in EndMarks
    BY <1>6 DEF EndMarks
  <2>2. U[g + 1] = P[g + 1]
    BY <1>1, <1>8, <1>9
  <2>3. QED
    BY <1>6, <1>9, <2>1, <2>2
<1>11. QED
  BY <1>1, <1>2, <1>3, <1>5, <1>6, <1>7, <1>8, <1>9, <1>10, Zenon
     DEF Inner, h, g, v, P, z

\* The reader is inside of stack, and U is what it is to read.
Facing(V, X, G, p, vs, U) == Stacked(V, X, G, p, vs) /\ Unread(V, p) = U

\* A value is added to the innermost container.
LEMMA PushOK ==
  ASSUME NEW W, NEW X, NEW G, NEW stack, NEW vs, vs \in Seq(Values),
         Stacked(W, X, G, stack, vs), Unread(W, stack) # <<>>,
         Head(Unread(W, stack)) \notin EndMarks,
         NEW w, Crossed(Head(Unread(W, stack)), w, X)
  PROVE  Facing(W, X \union {<<Head(Unread(W, stack)), w>>}, G \union {w},
                Push(stack, w), vs, Tail(Unread(W, stack)))
<1> DEFINE n == Len(stack)
           g == Read(stack)
           v == Head(Unread(W, stack))
           Y == X \union {<<v, w>>}
           H == G \union {w}
           p == Push(stack, w)
<1>1. /\ stack \in Seq(Frames(G)) /\ stack # <<>>
      /\ W \in Seq(Seq(Items(vs))) /\ Len(W) = n
      /\ W[1] = vs
      /\ \A k \in 1..n : Len(stack[k].got) <= Len(W[k])
      /\ \A k \in 1..n : \A m \in 1..Len(stack[k].got) :
           <<W[k][m], stack[k].got[m]>> \in X
      /\ \A k \in 2..n : Entered(W[k - 1], stack[k - 1], W[k], stack[k])
      /\ \A u, y : <<u, y>> \in X => Crossed(u, y, X)
  BY DEF Stacked
<1>2. /\ n \in Nat \ {0}
      /\ \A k \in 1..n :
           /\ W[k] \in Seq(Items(vs)) /\ Len(W[k]) \in Nat
           /\ Len(stack[k].got) \in 0..Len(W[k])
  BY StackTypes
<1>3. /\ g \in Nat /\ g < Len(W[n]) /\ v = W[n][g + 1]
      /\ Tail(Unread(W, stack)) = Rest(W[n], g + 1)
  BY StackNext
<1>4. /\ p \in Seq(Frames(H)) /\ p # <<>> /\ Len(p) = n
      /\ \A k \in 1..n : k # n => p[k] = stack[k]
      /\ p[n].c = stack[n].c
      /\ Len(p[n].got) = g + 1
      /\ p[n].got[g + 1] = w
      /\ \A m \in 1..g : p[n].got[m] = stack[n].got[m]
  <2>1. Pushed(p, stack, w, G)
    BY <1>1, PushIs
  <2>2. QED
    BY <2>1, Zenon DEF Pushed, Read
<1>5. g = Len(stack[n].got) /\ n \in 1..n
  BY <1>2 DEF Read
<1>6. v \notin EndMarks /\ Crossed(v, w, X)
  OBVIOUS
<1>7. X \subseteq Y /\ <<v, w>> \in Y
  OBVIOUS
<1>8. Unread(W, p) = Rest(W[n], g + 1)
  BY <1>4 DEF Unread, Read
<1> HIDE DEF n, g, v, p
<1>9. \A k \in 1..n : Len(p[k].got) <= Len(W[k])
  <2>1. ASSUME NEW k \in 1..n PROVE Len(p[k].got) <= Len(W[k])
    <3>1. CASE k # n
      BY <1>1, <1>4, <3>1
    <3>2. CASE k = n
      BY <1>2, <1>3, <1>4, <3>2
    <3>3. QED
      BY <3>1, <3>2
  <2>2. QED
    BY <2>1
<1>10. \A k \in 1..n : \A m \in 1..Len(p[k].got) : <<W[k][m], p[k].got[m]>> \in Y
  <2>1. ASSUME NEW k \in 1..n, NEW m \in 1..Len(p[k].got)
        PROVE  <<W[k][m], p[k].got[m]>> \in Y
    <3>1. CASE k # n
      <4>1. p[k] = stack[k] /\ m \in 1..Len(stack[k].got)
        BY <1>4, <3>1
      <4>2. QED
        BY <1>1, <1>7, <4>1
    <3>2. CASE k = n /\ m = g + 1
      BY <1>3, <1>4, <1>7, <3>2
    <3>3. CASE k = n /\ m # g + 1
      <4>1. m \in 1..g /\ m \in 1..Len(stack[n].got)
        BY <1>3, <1>4, <1>5, <3>3
      <4>2. p[k].got[m] = stack[n].got[m]
        BY <1>4, <3>3, <4>1
      <4>3. QED
        BY <1>1, <1>5, <1>7, <3>3, <4>1, <4>2
    <3>4. QED
      BY <3>1, <3>2, <3>3
  <2>2. QED
    BY <2>1
<1>11. \A k \in 2..n : Entered(W[k - 1], p[k - 1], W[k], p[k])
  <2>1. ASSUME NEW k \in 2..n PROVE Entered(W[k - 1], p[k - 1], W[k], p[k])
    <3>1. k - 1 \in 1..n /\ k - 1 # n /\ k \in 1..n
      BY <1>2
    <3>2. p[k - 1] = stack[k - 1] /\ Entered(W[k - 1], stack[k - 1], W[k], stack[k])
      BY <1>1, <1>4, <3>1
    <3>3. CASE k # n
      BY <1>4, <3>1, <3>2, <3>3
    <3>4. CASE k = n
      <4> DEFINE a == W[n - 1][Len(stack[n - 1].got) + 1]
                 b == Len(Pieces(a))
      <4>1. /\ g + 1 \in 1..b /\ b \in Nat
            /\ W[n][g + 1] \in EndMarks <=> g + 1 = b
        <5>1. Entered(W[n - 1], stack[n - 1], W[n], stack[n])
          BY <3>2, <3>4
        <5>2. /\ W[n - 1] \in Seq(Items(vs)) /\ Len(stack[n - 1].got) \in 0..Len(W[n - 1])
              /\ Len(stack[n].got) \in 0..Len(W[n])
          BY <1>2, <1>5, <3>1, <3>4
        <5>3. Inner(vs, W[n - 1], Len(stack[n - 1].got), W[n], Len(stack[n].got))
          BY <5>1, <5>2, EnteredFacts, Zenon
        <5>4. QED
          BY <1>5, <5>3, Zenon DEF Inner
      <4>2. g + 1 < b
        <5> HIDE DEF b
        <5>1. QED
          BY <1>3, <1>6, <4>1
      <4>3. Len(p[n].got) < Len(Pieces(a)) /\ p[n].c = stack[n].c
        BY <1>4, <4>2
      <4>4. p[n - 1] = stack[n - 1] /\ Entered(W[n - 1], stack[n - 1], W[n], stack[n])
        BY <3>2, <3>4
      <4> HIDE DEF b
      <4>5. Entered(W[n - 1], p[n - 1], W[n], p[n])
        BY <4>3, <4>4, Zenon DEF Entered
      <4>6. QED
        BY <3>4, <4>5
    <3>5. QED
      BY <3>3, <3>4
  <2>2. QED
    BY <2>1
<1>12. \A u, y : <<u, y>> \in Y => Crossed(u, y, Y)
  <2>1. ASSUME NEW u, NEW y, <<u, y>> \in Y PROVE Crossed(u, y, Y)
    <3>1. <<u, y>> \in X \/ (u = v /\ y = w)
      BY <2>1
    <3>2. Crossed(u, y, X)
      BY <1>1, <1>6, <3>1
    <3> HIDE DEF Y
    <3>3. QED
      BY <1>7, <3>2, CrossedMore
  <2>2. QED
    BY <2>1
<1> HIDE DEF Y, H
<1>13. Stacked(W, Y, H, p, vs)
  BY <1>1, <1>4, <1>9, <1>10, <1>11, <1>12 DEF Stacked
<1>14. QED
  BY <1>3, <1>8, <1>13 DEF Facing, Y, H, p, v

\* What an append to a sequence does.
Appended(p, s, e, S) ==
  /\ p \in Seq(S) /\ p # <<>> /\ Len(s) \in Nat /\ Len(p) = Len(s) + 1
  /\ p[Len(s) + 1] = e
  /\ \A k \in 1..Len(s) : p[k] = s[k]

\* Append does what Appended says.
LEMMA AppendIs ==
  ASSUME NEW S, NEW s \in Seq(S), NEW e \in S
  PROVE  Appended(Append(s, e), s, e, S)
<1>1. Append(s, e) \in Seq(S) /\ Append(s, e) # <<>> /\ Len(s) \in Nat
  OBVIOUS
<1>2. QED
  BY <1>1, AppendProperties DEF Appended

\* A container is opened.
LEMMA EnterOK ==
  ASSUME NEW W, NEW X, NEW G, NEW stack, NEW vs, vs \in Seq(Values),
         Stacked(W, X, G, stack, vs), Unread(W, stack) # <<>>,
         Head(Unread(W, stack)).t \in Containers,
         NEW c, c = ContainerOf(Head(Unread(W, stack))),
         NEW U, U = Pieces(Head(Unread(W, stack))) \o Tail(Unread(W, stack))
  PROVE  Facing(Append(W, U), X, G, Append(stack, [c |-> c, got |-> <<>>]), vs, U)
<1> DEFINE n == Len(stack)
           g == Read(stack)
           v == Head(Unread(W, stack))
           f == [c |-> c, got |-> <<>>]
           p == Append(stack, f)
           Q == Append(W, U)
<1>1. /\ stack \in Seq(Frames(G)) /\ stack # <<>>
      /\ W \in Seq(Seq(Items(vs))) /\ Len(W) = n
      /\ W[1] = vs
      /\ \A k \in 1..n : Len(stack[k].got) <= Len(W[k])
      /\ \A k \in 1..n : \A m \in 1..Len(stack[k].got) :
           <<W[k][m], stack[k].got[m]>> \in X
      /\ \A k \in 2..n : Entered(W[k - 1], stack[k - 1], W[k], stack[k])
      /\ \A u, y : <<u, y>> \in X => Crossed(u, y, X)
  BY DEF Stacked
<1>2. /\ n \in Nat \ {0}
      /\ \A k \in 1..n :
           /\ W[k] \in Seq(Items(vs)) /\ Len(W[k]) \in Nat
           /\ Len(stack[k].got) \in 0..Len(W[k])
  BY StackTypes
<1>3. /\ g \in Nat /\ g < Len(W[n]) /\ v = W[n][g + 1] /\ g + 1 \in 1..Len(W[n])
      /\ v \in Items(vs)
      /\ Tail(Unread(W, stack)) = Rest(W[n], g + 1)
  BY StackNext
<1>4. g = Len(stack[n].got) /\ n \in 1..n
  BY <1>2 DEF Read
<1>5. v.t \in Containers /\ c = ContainerOf(v) /\ U = Pieces(v) \o Rest(W[n], g + 1)
  BY <1>3
<1>6. f \in Frames(G) /\ f.c = c /\ Len(f.got) = 0 /\ f.got = <<>>
  <2>1. c \in {"table", "function"}
    BY <1>5 DEF ContainerOf
  <2>2. <<>> \in Seq(G)
    OBVIOUS
  <2>3. QED
    BY <2>1, <2>2 DEF Frames
<1>7. v \in Within(vs)
  BY <1>3, <1>5, ItemKinds DEF Containers
<1>8. Pieces(v) \in Seq(Items(vs)) /\ Len(Pieces(v)) \in Nat \ {0}
  BY <1>5, <1>7, PiecesEnd
<1>9. Rest(W[n], g + 1) \in Seq(Items(vs))
  <2> DEFINE k == g + 1
             I == Items(vs)
             L == W[n]
  <2>1. k \in 0..Len(L) /\ L \in Seq(I)
    BY <1>2, <1>3, <1>4
  <2> HIDE DEF k, I, L
  <2>2. Rest(L, k) \in Seq(I)
    BY <2>1, RestIs
  <2>3. QED
    BY <2>2 DEF k, I, L
<1>10. U \in Seq(Items(vs)) /\ Rest(U, 0) = U /\ Len(U) \in Nat
  <2> DEFINE P == Pieces(v)
             z == Rest(W[n], g + 1)
             I == Items(vs)
  <2>1. P \in Seq(I) /\ z \in Seq(I) /\ U = P \o z
    BY <1>5, <1>8, <1>9
  <2> HIDE DEF P, z, I
  <2>2. P \o z \in Seq(I) /\ Rest(P \o z, 0) = P \o z
    BY <2>1, RestOfConcat
  <2>3. U \in Seq(I) /\ Rest(U, 0) = U
    BY <2>1, <2>2
  <2>4. QED
    BY <2>3, LenProperties DEF I
<1>11. Appended(p, stack, f, Frames(G)) /\ Appended(Q, W, U, Seq(Items(vs)))
  <2> HIDE DEF f
  <2>1. QED
    BY <1>1, <1>6, <1>10, AppendIs
<1> HIDE DEF n, g, v, f, p, Q
<1>12. /\ p \in Seq(Frames(G)) /\ p # <<>> /\ Len(p) = n + 1 /\ p[n + 1] = f
       /\ \A k \in 1..n : p[k] = stack[k]
  BY <1>11, Zenon DEF Appended, n
<1>13. /\ Q \in Seq(Seq(Items(vs))) /\ Len(Q) = n + 1 /\ Q[n + 1] = U
       /\ \A k \in 1..n : Q[k] = W[k]
  BY <1>1, <1>11, Zenon DEF Appended
<1>14. Q[1] = vs
  <2>1. 1 \in 1..n
    BY <1>2
  <2>2. QED
    BY <1>1, <1>13, <2>1
<1>15. ASSUME NEW k \in 1..n + 1
       PROVE  /\ Len(p[k].got) <= Len(Q[k])
              /\ \A m \in 1..Len(p[k].got) : <<Q[k][m], p[k].got[m]>> \in X
  <2>1. CASE k \in 1..n
    BY <1>1, <1>12, <1>13, <2>1
  <2>2. CASE k = n + 1
    <3>1. Len(p[k].got) = 0 /\ Q[k] = U /\ p[k] = f
      BY <1>6, <1>12, <1>13, <2>2
    <3>2. Len(p[k].got) <= Len(Q[k])
      BY <1>10, <3>1
    <3>3. \A m \in 1..Len(p[k].got) : FALSE
      BY <3>1
    <3>4. QED
      BY <3>2, <3>3
  <2>3. QED
    BY <1>2, <2>1, <2>2
<1>16. ASSUME NEW k \in 2..n + 1
       PROVE  Entered(Q[k - 1], p[k - 1], Q[k], p[k])
  <2>1. CASE k \in 2..n
    <3>1. k - 1 \in 1..n /\ k \in 1..n
      BY <1>2, <2>1
    <3>2. QED
      BY <1>1, <1>12, <1>13, <2>1, <3>1
  <2>2. CASE k = n + 1
    <3>1. k - 1 = n
      BY <1>2, <2>2
    <3>2. /\ Q[k - 1] = W[n] /\ p[k - 1] = stack[n] /\ Q[k] = U /\ p[k] = f
      BY <1>4, <1>12, <1>13, <2>2, <3>1
    <3>3. Len(f.got) < Len(Pieces(v))
      <4> DEFINE l == Len(Pieces(v))
      <4>1. l \in Nat \ {0}
        BY <1>8
      <4> HIDE DEF l
      <4>2. 0 < l
        BY <4>1
      <4>3. QED
        BY <1>6, <4>2 DEF l
    <3>4. Entered(W[n], stack[n], U, f)
      BY <1>3, <1>4, <1>5, <1>6, <3>3, Zenon DEF Entered
    <3>5. QED
      BY <3>2, <3>4
  <2>3. QED
    BY <1>2, <2>1, <2>2
<1>17. Stacked(Q, X, G, p, vs)
  BY <1>1, <1>12, <1>13, <1>14, <1>15, <1>16 DEF Stacked
<1>18. Unread(Q, p) = U
  <2>1. Read(p) = 0 /\ Q[Len(p)] = U
    BY <1>6, <1>12, <1>13 DEF Read
  <2>2. QED
    BY <1>10, <2>1 DEF Unread
<1>19. QED
  BY <1>17, <1>18 DEF Facing, p, Q, f

\* What is before the last of a sequence.
Fronted(p, s, S) ==
  /\ p \in Seq(S) /\ p # <<>> /\ Len(s) \in Nat /\ Len(p) = Len(s) - 1
  /\ \A k \in 1..Len(s) - 1 : p[k] = s[k]

\* Front does what Fronted says.
LEMMA FrontIs ==
  ASSUME NEW S, NEW s \in Seq(S), Len(s) > 1
  PROVE  Fronted(Front(s), s, S) /\ Last(s) = s[Len(s)]
<1> DEFINE n == Len(s)
           p == SubSeq(s, 1, n - 1)
<1>1. n \in Nat /\ n > 1
  BY LenProperties
<1>2. p \in Seq(S) /\ Len(p) = n - 1
  BY <1>1
<1>3. \A k \in 1..n - 1 : p[k] = s[k]
  BY <1>1
<1> HIDE DEF n, p
<1>4. p # <<>>
  <2>1. Len(p) # 0
    BY <1>1, <1>2
  <2>2. QED
    BY <2>1
<1>5. Front(s) = p /\ Last(s) = s[n]
  BY DEF Front, Last, n, p
<1>6. QED
  BY <1>1, <1>2, <1>3, <1>4, <1>5 DEF Fronted, n

\* What a container is when its pieces have been read.
LEMMA FilledIs ==
  ASSUME NEW X, NEW v \in Values, v.t \in Containers,
         NEW c, c.c = ContainerOf(v), NEW S, c.got \in Seq(S),
         Len(c.got) + 1 = Len(Pieces(v)),
         \A m \in 1..Len(c.got) : <<Pieces(v)[m], c.got[m]>> \in X,
         \A u, y : <<u, y>> \in X => Crossed(u, y, X)
  PROVE  Crossed(v, Filled(c), X)
<1> DEFINE P == Pieces(v)
           got == c.got
           g == Len(got)
<1>1. g \in Nat
  BY LenProperties
<1>2. CASE v.t = "table"
  <2> DEFINE n == Len(v.kv)
             w == Table([m \in 1..g \div 2 |-> <<got[2*m - 1], got[2*m]>>])
  <2>1. n \in Nat /\ Len(P) = 2 * n + 1
        /\ \A m \in 1..n : P[2 * m - 1] = v.kv[m][1] /\ P[2 * m] = v.kv[m][2]
    BY <1>2, TablePieces
  <2>2. g = 2 * n /\ g \div 2 = n
    <3>1. g + 1 = Len(P)
      OBVIOUS
    <3> HIDE DEF n, g
    <3>2. QED
      BY <1>1, <2>1, <3>1
  <2>3. Filled(c) = w
    BY <1>2 DEF Filled, ContainerOf
  <2>4. /\ w.t = "table" /\ w.kv = [m \in 1..n |-> <<got[2*m - 1], got[2*m]>>]
    BY <2>2 DEF Table
  <2>5. Len(w.kv) = n
    <3> DEFINE q == [m \in 1..n |-> <<got[2*m - 1], got[2*m]>>]
               T == {q[m] : m \in 1..n}
    <3>1. q \in [1..n -> T] /\ DOMAIN q = 1..n
      OBVIOUS
    <3> HIDE DEF q, T, n
    <3>2. q \in Seq(T)
      BY <2>1, <3>1, SeqDef
    <3>3. Len(q) = n
      BY <2>1, <3>1, <3>2, LenProperties
    <3> HIDE DEF w, g, got
    <3>4. QED
      BY <2>4, <3>3 DEF q
  <2>6. Becomes(v, w)
    BY <1>2, <2>4, <2>5, Zenon DEF Becomes
  <2>7. ASSUME NEW m \in 1..n
        PROVE  <<v.kv[m][1], w.kv[m][1]>> \in X /\ <<v.kv[m][2], w.kv[m][2]>> \in X
    <3>1. w.kv[m][1] = got[2*m - 1] /\ w.kv[m][2] = got[2*m]
      <4> HIDE DEF w, g, got, n
      <4>1. QED
        BY <2>4, <2>7
    <3>2. 2*m - 1 \in 1..g /\ 2*m \in 1..g
      <4> HIDE DEF g, n
      <4>1. QED
        BY <2>1, <2>2, <2>7
    <3>3. <<P[2*m - 1], got[2*m - 1]>> \in X /\ <<P[2*m], got[2*m]>> \in X
      BY <3>2
    <3>4. P[2*m - 1] = v.kv[m][1] /\ P[2*m] = v.kv[m][2]
      BY <2>1, <2>7
    <3> HIDE DEF w, g, got, n, P
    <3>5. QED
      BY <3>1, <3>3, <3>4
  <2> HIDE DEF w
  <2>8. Crossed(v, w, X)
    BY <2>6, <2>7, Zenon DEF Crossed, n
  <2>9. QED
    BY <2>3, <2>8
<1>3. CASE v.t # "table"
  <2>1. v.t \in {"fun", "cfun"}
    BY <1>3 DEF Containers
  <2>2. /\ Len(P) = 2 /\ P[1] \in Codes
        /\ P[1].dump = IF v.t = "cfun" THEN "empty" ELSE "code"
    BY <2>1, FunctionPieces
  <2>3. g = 1
    <3>1. g + 1 = Len(P)
      OBVIOUS
    <3> HIDE DEF g
    <3>2. QED
      BY <1>1, <2>2, <3>1
  <2>4. Crossed(P[1], got[1], X)
    <3>1. 1 \in 1..g
      BY <2>3
    <3>2. <<P[1], got[1]>> \in X
      BY <3>1
    <3>3. QED
      BY <3>2
  <2>5. P[1] \notin Values
    <3>1. P[1].t = "bytes"
      BY <2>2 DEF Codes
    <3>2. QED
      BY <3>1, ValueKinds
  <2>6. got[1] \in Loaded(P[1])
    BY <2>4, <2>5 DEF Crossed
  <2>7. Becomes(v, got[1])
    BY <2>1, <2>2, <2>6 DEF Becomes, Loaded
  <2>8. Filled(c) = got[1]
    BY <1>3 DEF Filled, ContainerOf
  <2>9. QED
    BY <1>3, <2>7, <2>8 DEF Crossed
<1>4. QED
  BY <1>2, <1>3

\* The outer container takes the place of the innermost one.
Outer(V, X, G, p, vs, w, after) ==
  LET u == Unread(V, p)
  IN  /\ Stacked(V, X, G, p, vs)
      /\ u # <<>> /\ Head(u) \notin EndMarks
      /\ Crossed(Head(u), w, X)
      /\ Tail(u) = after

\* A container is closed.
LEMMA LeaveOK ==
  ASSUME NEW W, NEW X, NEW G, NEW stack, NEW vs, vs \in Seq(Values),
         Stacked(W, X, G, stack, vs), Unread(W, stack) # <<>>,
         Head(Unread(W, stack)) \in EndMarks
  PROVE  Outer(Front(W), X, G, Front(stack), vs, Filled(Last(stack)),
               Tail(Unread(W, stack)))
<1> DEFINE n == Len(stack)
           g == Read(stack)
           v == Head(Unread(W, stack))
           p == Front(stack)
           V == Front(W)
           c == Last(stack)
<1>1. /\ stack \in Seq(Frames(G)) /\ stack # <<>>
      /\ W \in Seq(Seq(Items(vs))) /\ Len(W) = n
      /\ W[1] = vs
      /\ \A k \in 1..n : Len(stack[k].got) <= Len(W[k])
      /\ \A k \in 1..n : \A m \in 1..Len(stack[k].got) :
           <<W[k][m], stack[k].got[m]>> \in X
      /\ \A k \in 2..n : Entered(W[k - 1], stack[k - 1], W[k], stack[k])
      /\ \A u, y : <<u, y>> \in X => Crossed(u, y, X)
  BY DEF Stacked
<1>2. /\ n \in Nat \ {0}
      /\ \A k \in 1..n :
           /\ W[k] \in Seq(Items(vs)) /\ Len(W[k]) \in Nat
           /\ stack[k] \in Frames(G) /\ stack[k].got \in Seq(G)
           /\ Len(stack[k].got) \in 0..Len(W[k])
  BY StackTypes
<1>3. /\ g \in Nat /\ g < Len(W[n]) /\ v = W[n][g + 1] /\ g + 1 \in 1..Len(W[n])
      /\ Tail(Unread(W, stack)) = Rest(W[n], g + 1)
  BY StackNext
<1>4. g = Len(stack[n].got) /\ n \in 1..n
  BY <1>2 DEF Read
<1>5. n > 1
  <2>1. ASSUME n = 1 PROVE FALSE
    <3>1. v = vs[g + 1] /\ g + 1 \in 1..Len(vs)
      BY <1>1, <1>3, <2>1
    <3>2. v \in Values
      BY <3>1, ElementOfSeq
    <3>3. v.t \notin {"table_end", "function_end"}
      BY <3>2, ValueKinds
    <3>4. v \in EndMarks
      OBVIOUS
    <3>5. QED
      BY <3>3, <3>4 DEF EndMarks, Value
  <2> HIDE DEF n
  <2>2. QED
    BY <1>2, <2>1
<1>6. Fronted(p, stack, Frames(G)) /\ c = stack[n] /\ Fronted(V, W, Seq(Items(vs)))
  <2>1. Len(stack) > 1 /\ Len(W) > 1
    BY <1>1, <1>5
  <2>2. QED
    BY <1>1, <2>1, FrontIs
<1> HIDE DEF n, g, v, p, V, c
<1>7. /\ p \in Seq(Frames(G)) /\ p # <<>> /\ Len(p) = n - 1
      /\ \A k \in 1..n - 1 : p[k] = stack[k]
  BY <1>6, Zenon DEF Fronted, n
<1>8. /\ V \in Seq(Seq(Items(vs))) /\ Len(V) = n - 1
      /\ \A k \in 1..n - 1 : V[k] = W[k]
  BY <1>1, <1>6, Zenon DEF Fronted
<1>9. n - 1 \in 1..n - 1 /\ n - 1 \in 1..n /\ n \in 2..n /\ 1 \in 1..n - 1
      /\ 1..n - 1 \subseteq 1..n /\ 2..n - 1 \subseteq 2..n
      /\ \A k \in 2..n - 1 : k \in 1..n - 1 /\ k - 1 \in 1..n - 1
  BY <1>2, <1>5
<1>10. Stacked(V, X, G, p, vs)
  <2>1. V[1] = vs
    BY <1>1, <1>8, <1>9
  <2>2. ASSUME NEW k \in 1..n - 1
        PROVE  /\ Len(p[k].got) <= Len(V[k])
               /\ \A m \in 1..Len(p[k].got) : <<V[k][m], p[k].got[m]>> \in X
    <3>1. p[k] = stack[k] /\ V[k] = W[k] /\ k \in 1..n
      BY <1>7, <1>8, <1>9
    <3>2. QED
      BY <1>1, <3>1
  <2>3. ASSUME NEW k \in 2..n - 1
        PROVE  Entered(V[k - 1], p[k - 1], V[k], p[k])
    <3>1. k \in 1..n - 1 /\ k - 1 \in 1..n - 1 /\ k \in 2..n
      BY <1>9
    <3>2. p[k] = stack[k] /\ V[k] = W[k] /\ p[k - 1] = stack[k - 1] /\ V[k - 1] = W[k - 1]
      BY <1>7, <1>8, <3>1
    <3>3. QED
      BY <1>1, <3>1, <3>2
  <2>4. QED
    BY <1>1, <1>7, <1>8, <2>1, <2>2, <2>3 DEF Stacked
<1> DEFINE L == W[n - 1]
           h == Len(stack[n - 1].got)
           a == L[h + 1]
           P == Pieces(a)
<1>11. Entered(L, stack[n - 1], W[n], stack[n])
  BY <1>1, <1>9
<1>12. Inner(vs, L, h, W[n], g)
  <2>1. /\ L \in Seq(Items(vs)) /\ h \in 0..Len(L)
        /\ Len(stack[n].got) \in 0..Len(W[n])
    BY <1>2, <1>4, <1>9
  <2>2. QED
    BY <1>4, <1>11, <2>1, EnteredFacts
<1>13. stack[n].c = ContainerOf(a)
  BY <1>11, Zenon DEF Entered
<1>14. L \in Seq(Items(vs)) /\ Len(L) \in Nat /\ h \in 0..Len(L) /\ stack[n].got \in Seq(G)
  BY <1>2, <1>4, <1>9
<1>15. Unread(V, p) = Rest(L, h)
  <2>1. p[n - 1] = stack[n - 1] /\ V[n - 1] = L
    BY <1>7, <1>8, <1>9
  <2>2. QED
    BY <1>7, <2>1 DEF Unread, Read
<1> HIDE DEF L, h
<1>16. /\ a \in Within(vs) /\ a \in Values /\ a.t \in Containers /\ a \notin EndMarks
       /\ h + 1 \in 1..Len(L) /\ Len(P) \in Nat
       /\ \A m \in 1..Len(P) : W[n][m] = P[m]
       /\ Rest(W[n], Len(P)) = Rest(L, h + 1)
       /\ W[n][g + 1] \in EndMarks <=> g + 1 = Len(P)
  BY <1>12, Zenon DEF Inner
<1>17. g + 1 = Len(P)
  <2>1. v \in EndMarks
    BY DEF v
  <2>2. QED
    BY <1>3, <1>16, <2>1
<1>18. /\ Rest(L, h) # <<>> /\ Head(Rest(L, h)) = a /\ Tail(Rest(L, h)) = Rest(L, h + 1)
  <2>1. h # Len(L)
    BY <1>14, <1>16
  <2>2. Rest(L, h) # <<>>
    BY <1>14, <2>1, RestIs
  <2>3. QED
    BY <1>14, <2>1, <2>2, RestNext
<1>19. Tail(Unread(W, stack)) = Rest(L, h + 1)
  BY <1>3, <1>16, <1>17
<1>20. Crossed(a, Filled(c), X)
  <2>1. c.got \in Seq(G) /\ Len(c.got) + 1 = Len(Pieces(a)) /\ c.c = ContainerOf(a)
    BY <1>4, <1>6, <1>13, <1>14, <1>17
  <2>2. \A m \in 1..Len(c.got) : <<Pieces(a)[m], c.got[m]>> \in X
    <3>1. ASSUME NEW m \in 1..g PROVE <<P[m], c.got[m]>> \in X
      <4>1. m \in 1..Len(P)
        <5> HIDE DEF P
        <5>1. QED
          BY <1>3, <1>16, <1>17
      <4>2. <<W[n][m], stack[n].got[m]>> \in X
        BY <1>1, <1>4
      <4>3. QED
        BY <1>6, <1>16, <4>1, <4>2
    <3>2. g = Len(c.got)
      BY <1>4, <1>6
    <3>3. QED
      BY <3>1, <3>2
  <2> HIDE DEF a
  <2>3. a \in Values /\ a.t \in Containers
    BY <1>16
  <2>4. QED
    BY <1>1, <2>1, <2>2, <2>3, FilledIs
<1> HIDE DEF a
<1>21. Outer(V, X, G, p, vs, Filled(c), Tail(Unread(W, stack)))
  BY <1>10, <1>15, <1>16, <1>18, <1>19, <1>20, Zenon DEF Outer
<1>22. QED
  BY <1>21 DEF p, V, c

-----------------------------------------------------------------------------
\* What was read in pairs with what was sent is the same for the program.

\* What has been read in pairs with what was written is the same all the way
\* down.
LEMMA SameIs ==
  ASSUME NEW X, \A u, y : <<u, y>> \in X => Crossed(u, y, X),
         NEW v \in Values, NEW w, <<v, w>> \in X
  PROVE  Same(v, w)
<1> DEFINE Good(S) == \A p \in S : p[1] \in Values /\ p = <<p[1], p[2]>> /\ p \in X
           T == {d \in Nat : d \in 0..Nesting => Good(PairLevels(v, w)[d])}
<1>1. Nesting \in Nat
  BY BodyAssumption
<1>2. ASSUME NEW p, p[1] \in Values, p = <<p[1], p[2]>>, p \in X
      PROVE  Becomes(p[1], p[2]) /\ Good(Inside(p))
  <2> DEFINE u == p[1]
             y == p[2]
  <2>1. Crossed(u, y, X)
    BY <1>2, Zenon
  <2>2. u \notin Codes
    <3>1. u.t # "bytes"
      BY <1>2, ValueKinds
    <3>2. QED
      BY <3>1 DEF Codes
  <2>3. /\ Becomes(u, y)
        /\ u.t = "table" =>
             \A m \in 1..Len(u.kv) : /\ <<u.kv[m][1], y.kv[m][1]>> \in X
                                     /\ <<u.kv[m][2], y.kv[m][2]>> \in X
    BY <2>1, <2>2 DEF Crossed
  <2>4. CASE u.t = "table" /\ y.t = "table"
    <3>1. u.kv \in Seq(Values \X Values) /\ DOMAIN u.kv = 1..Len(u.kv)
      BY <1>2, <2>4, ValueKinds
    <3>2. ASSUME NEW m \in DOMAIN u.kv \intersect DOMAIN y.kv, NEW j \in {1, 2},
                 NEW q, q = <<u.kv[m][j], y.kv[m][j]>>
          PROVE  q[1] \in Values /\ q = <<q[1], q[2]>> /\ q \in X
      <4>1. m \in 1..Len(u.kv)
        BY <3>1
      <4>2. u.kv[m] \in Values \X Values
        BY <3>1, <4>1
      <4>3. u.kv[m][1] \in Values /\ u.kv[m][2] \in Values
        BY <4>2
      <4>4. q \in X /\ u.kv[m][j] \in Values
        BY <2>3, <2>4, <3>2, <4>1, <4>3
      <4>5. QED
        BY <3>2, <4>4
    <3>3. Inside(p) = {<<u.kv[m][j], y.kv[m][j]>> :
                         m \in DOMAIN u.kv \intersect DOMAIN y.kv, j \in {1, 2}}
      BY <2>4 DEF Inside
    <3>4. QED
      BY <2>3, <3>2, <3>3
  <2>5. CASE ~(u.t = "table" /\ y.t = "table")
    <3>1. Inside(p) = {p}
      BY <2>5 DEF Inside
    <3>2. QED
      BY <1>2, <2>3, <3>1
  <2>6. QED
    BY <2>4, <2>5
<1>3. 0 \in T
  <2>1. PairLevels(v, w)[0] = {<<v, w>>}
    BY PairLevelsAre
  <2>2. QED
    BY <2>1
<1>4. ASSUME NEW n \in T, n + 1 \in 0..Nesting
      PROVE  Good(PairLevels(v, w)[n + 1])
  <2>1. n \in 0..Nesting /\ n + 1 \in 1..Nesting /\ n + 1 - 1 = n
    BY <1>1, <1>4
  <2>2. Good(PairLevels(v, w)[n])
    BY <2>1
  <2>3. PairLevels(v, w)[n + 1] = UNION {Inside(p) : p \in PairLevels(v, w)[n + 1 - 1]}
    BY <2>1, PairLevelsAre
  <2>4. PairLevels(v, w)[n + 1] = UNION {Inside(p) : p \in PairLevels(v, w)[n]}
    BY <2>1, <2>3
  <2>5. \A p \in PairLevels(v, w)[n] : Good(Inside(p))
    BY <1>2, <2>2
  <2>6. QED
    BY <2>4, <2>5
<1>5. T \in SUBSET Nat /\ \A n \in T : n + 1 \in T
  BY <1>4
<1>6. T = Nat
  <2> HIDE DEF T
  <2>1. QED
    BY <1>3, <1>5, NatSet
<1>7. ASSUME NEW d \in 0..Nesting, NEW p \in PairLevels(v, w)[d]
      PROVE  Becomes(p[1], p[2])
  <2>1. d \in T
    BY <1>1, <1>6
  <2>2. p[1] \in Values /\ p = <<p[1], p[2]>> /\ p \in X
    BY <2>1
  <2>3. QED
    BY <1>2, <2>2
<1>8. QED
  BY <1>7 DEF Same

\* What the names of a path lead to.
LEMMA NamesOfPath ==
  ASSUME CountOK, NEW x \in made
  PROVE  NamesOf(PathOf(x)) = Reached(x)
<1>1. nparents[x] = (Len(said[x]) - 1) % Wrap
  BY DEF CountOK
<1>2. Reached(x) = InWords(LastNames(x))
  BY <1>1 DEF LastNames, Reached, Counted
<1>3. PathOf(x).names = LastNames(x)
  BY DEF PathOf
<1>4. QED
  BY <1>2, <1>3 DEF NamesOf

-----------------------------------------------------------------------------
\* The invariant.

\* The writer and the values: it is past the first k bytes, and left is what it
\* still has to write.
Carried(st, k, vs, left) == \E R : Written(st, k, R, vs, left) /\ R[1] = vs

\* The reader and the values: it is somewhere among them.
Taken(st, vs, stack) ==
  \E R, W, X, G : /\ Written(st, 0, R, vs, <<>>)
                  /\ Stacked(W, X, G, stack, vs)
                  /\ R[1] = Unread(W, stack)

\* What is to be written: a helper whose path is under way counts as its path.
Pending ==
  IF phase = "remote" THEN <<PathMark(Head(todo).x)>> \o Tail(todo) ELSE todo

\* The kind of a request is one of the three.
KindsOK == phase # "program" => kind \in {"call", "get", "newindex"}

\* What is sent are values, what is to be written are items of theirs.
ListsOK == sent \in Seq(Values) /\ todo \in Seq(Items(sent))

\* The client writes: past the path, and the count of a call, the stream and what
\* is to be written carry the arguments.
ArgsOK ==
  phase \in {"args", "remote", "walk"} =>
    /\ Carried(stream, IF kind = "call" THEN 2 ELSE 1, sent, Pending)
    /\ kind = "call" => stream[2].n = Len(sent)
    /\ phase = "walk" => todo = <<>>
    /\ phase = "remote" => /\ todo # <<>> /\ Head(todo).t = "helper"
                           /\ at # "idle" /\ of = Head(todo).x

\* The server writes: past the count, which a get does not send, the stream and
\* what is to be written carry the results, or an error has been sent.
ReplyOK ==
  phase = "results" \/ (phase = "reply" /\ open = <<>>) =>
    /\ open = <<>>
    /\ Carried(stream, IF kind = "get" THEN 0 ELSE 1, sent, Pending)
    /\ phase = "reply" => todo = <<>>
    /\ IF kind = "get" THEN Len(sent) = 1
       ELSE IF stream[1].t = "count" THEN stream[1].n = Len(sent)
       ELSE sent = <<>>

\* Either end reads: the stream and the open containers carry what was sent.
ReadOK ==
  phase = "values" \/ (phase = "reply" /\ open # <<>>) =>
    count = Len(sent) /\ Taken(stream, sent, open)

\* What it takes for a reader to be off.
Off ==
  \/ \E x \in HelpersIn(sent) \union {target} : OffByEnds(x)
  \/ \E m \in 1..Len(sent) : Value("elsewhere") \in Leaves(sent[m])

\* A reader that is off is off for one of those reasons.
MisreadOK == phase = "misread" => Off

\* What makes ValuesArrive and MisreadExplained inductive: between any two bytes
\* of a request, which values the bytes and the two ends hold.
Ledger ==
  KindsOK /\ ListsOK /\ ArgsOK /\ ReplyOK /\ ReadOK /\ MisreadOK /\ ValuesArrive

\* The lists, from the narrowest to the widest.
LEMMA ListedIs ==
  ASSUME NEW vs, vs \in Seq(Values)
  PROVE  /\ Seq(Items(vs)) \subseteq Seq(Listed(vs))
         /\ Seq(Within(vs)) \subseteq Seq(Items(vs))
         /\ vs \in Seq(Items(vs)) /\ vs \in Seq(Listed(vs))
<1>1. Items(vs) \subseteq Listed(vs) /\ Within(vs) \subseteq Items(vs)
  BY DEF Listed, Items
<1>2. /\ Seq(Items(vs)) \subseteq Seq(Listed(vs))
      /\ Seq(Within(vs)) \subseteq Seq(Items(vs))
  BY <1>1, SeqMonotonic, Zenon
<1>3. vs \in Seq(Within(vs))
  BY WithinIs
<1>4. QED
  BY <1>2, <1>3

\* In a request what is written and read does not change by itself.
LEMMA LedgerStays ==
  ASSUME UNCHANGED graph
  PROVE  /\ \A x : PathOf(x)' = PathOf(x) /\ Reached(x)' = Reached(x)
                   /\ (OffByEnds(x)' <=> OffByEnds(x))
         /\ \A st, k, vs, left : Carried(st, k, vs, left)' <=> Carried(st, k, vs, left)
         /\ \A st, vs, stack : Taken(st, vs, stack)' <=> Taken(st, vs, stack)
<1>1. \A x : PathOf(x)' = PathOf(x) /\ Reached(x)' = Reached(x)
             /\ (OffByEnds(x)' <=> OffByEnds(x))
  BY DEF graph, PathOf, Reached, Counted, OffByEnds, LastNames
<1>2. made' = made
  BY DEF graph
<1>3. \A tok, b, a : Wrote(tok, b, a)' <=> Wrote(tok, b, a)
  <2>1. TAKE tok, b, a
  <2>2. PathOf(Head(b).x)' = PathOf(Head(b).x) /\ made' = made
    BY <1>1, <1>2
  <2> HIDE DEF PathOf
  <2>3. QED
    BY <2>2, Zenon DEF Wrote
<1>4. ASSUME NEW st, NEW k, NEW R, NEW vs, NEW left
      PROVE  Written(st, k, R, vs, left)' <=> Written(st, k, R, vs, left)
  <2>1. \A m \in 1..Len(st) - k :
          Wrote(st[k + m], R[m], R[m + 1])' <=> Wrote(st[k + m], R[m], R[m + 1])
    BY <1>3, Zenon
  <2>2. QED
    BY <2>1, Zenon DEF Written
<1>5. \A v, w : Becomes(v, w)' <=> Becomes(v, w)
  BY <1>1, Zenon DEF Becomes
<1>6. \A v, w, X : Crossed(v, w, X)' <=> Crossed(v, w, X)
  BY <1>5, Zenon DEF Crossed
<1>7. \A W, X, G, stack, vs : Stacked(W, X, G, stack, vs)' <=> Stacked(W, X, G, stack, vs)
  BY <1>6 DEF Stacked
<1>8. \A st, k, vs, left : Carried(st, k, vs, left)' <=> Carried(st, k, vs, left)
  BY <1>4, Zenon DEF Carried
<1>9. \A st, vs, stack : Taken(st, vs, stack)' <=> Taken(st, vs, stack)
  BY <1>4, <1>7, Zenon DEF Taken
<1>10. QED
  BY <1>1, <1>8, <1>9

\* No request is under way.
LEMMA LedgerStart == BodyInit => Ledger
<1> SUFFICES ASSUME BodyInit PROVE Ledger
  OBVIOUS
<1>1. phase = "program" /\ sent = <<>> /\ todo = <<>>
  BY DEF BodyInit
<1>2. ListsOK
  BY <1>1 DEF ListsOK
<1>3. QED
  BY <1>1, <1>2
     DEF Ledger, KindsOK, ArgsOK, ReplyOK, ReadOK, MisreadOK, ValuesArrive

\* Nothing of a request is touched.
LEMMA LedgerStutters ==
  ASSUME Ledger, UNCHANGED bodyVars, UNCHANGED graph,
         of' = of, at' = "idle" => at = "idle"
  PROVE  Ledger'
<1>1. /\ phase' = phase /\ kind' = kind /\ sent' = sent /\ todo' = todo /\ stream' = stream
      /\ open' = open /\ count' = count /\ target' = target
  BY DEF bodyVars
<1>2. Pending' = Pending
  BY <1>1 DEF Pending
<1>3. ArgsOK' /\ ReplyOK' /\ ReadOK'
  BY <1>1, <1>2, LedgerStays DEF Ledger, ArgsOK, ReplyOK, ReadOK
<1>4. MisreadOK'
  BY <1>1, LedgerStays DEF Ledger, MisreadOK, Off
<1>5. \A v, w : Same(v, w)' <=> Same(v, w)
  <2>1. \A v, w : Becomes(v, w)' <=> Becomes(v, w)
    BY LedgerStays, Zenon DEF Becomes
  <2>2. QED
    BY <2>1, Zenon DEF Same
<1>6. ValuesArrive'
  BY <1>1, <1>5 DEF Ledger, ValuesArrive
<1>7. QED
  BY <1>1, <1>3, <1>4, <1>6 DEF Ledger, KindsOK, ListsOK

-----------------------------------------------------------------------------
\* The end that writes.

\* The first k are the same.
Alike(p, q, k) == \A m \in 1..k : p[m] = q[m]

\* A token is written after those of Carried.
LEMMA CarryOn ==
  ASSUME NEW st, NEW k, NEW vs, NEW left, Carried(st, k, vs, left),
         NEW e, NEW rest, rest \in Seq(Listed(vs)), Wrote(e, left, rest)
  PROVE  Carried(Append(st, e), k, vs, rest) /\ Alike(Append(st, e), st, k)
<1>1. PICK R : Written(st, k, R, vs, left) /\ R[1] = vs
  BY DEF Carried
<1>2. /\ Written(Append(st, e), k, Append(R, rest), vs, rest)
      /\ Append(R, rest)[1] = R[1]
  BY <1>1, WrittenMore
<1>3. IsSeq(st) /\ k \in 0..Len(st)
  BY <1>1 DEF Written
<1>4. Len(st) \in Nat /\ \A m \in 1..Len(st) : Append(st, e)[m] = st[m]
  BY <1>3, AppendToAny
<1>5. \A m \in 1..k : Append(st, e)[m] = st[m]
  BY <1>3, <1>4
<1>6. QED
  BY <1>1, <1>2, <1>5 DEF Carried, Alike

\* A byte is written.
LEMMA TokenWritten ==
  ASSUME Ledger, UNCHANGED graph, NEW e, stream' = Append(stream, e),
         Wrote(e, Pending, Pending'),
         todo' \in Seq(Items(sent)), Pending' \in Seq(Listed(sent)),
         UNCHANGED <<kind, target, sent, open, count>>,
         \/ phase \in {"args", "results"} /\ phase' = phase
         \/ phase = "remote" /\ phase' = "args"
         \/ /\ phase = "args" /\ phase' = "remote"
            /\ todo' # <<>> /\ Head(todo').t = "helper"
            /\ at' # "idle" /\ of' = Head(todo').x
  PROVE  Ledger'
<1>1. \A k : Carried(stream, k, sent, Pending) =>
        /\ Carried(stream', k, sent, Pending')
        /\ \A m \in 1..k : stream'[m] = stream[m]
  <2>1. \A k : Carried(stream, k, sent, Pending) =>
          Carried(stream', k, sent, Pending') /\ Alike(stream', stream, k)
    BY CarryOn, Zenon
  <2>2. QED
    BY <2>1, Zenon DEF Alike
<1>2. /\ kind' = kind /\ sent' = sent /\ open' = open
      /\ phase \in {"args", "remote", "results"} /\ phase' \in {"args", "remote", "results"}
      /\ phase' = "results" <=> phase = "results"
  OBVIOUS
<1>3. KindsOK' /\ ListsOK'
  BY <1>2 DEF Ledger, KindsOK, ListsOK
<1>4. CASE phase # "results"
  <2>1. /\ Carried(stream, IF kind = "call" THEN 2 ELSE 1, sent, Pending)
        /\ kind = "call" => stream[2].n = Len(sent)
    BY <1>2, <1>4 DEF Ledger, ArgsOK
  <2>2. /\ Carried(stream', IF kind = "call" THEN 2 ELSE 1, sent, Pending')
        /\ kind = "call" => stream'[2].n = Len(sent)
    <3>1. CASE kind = "call"
      <4>1. Carried(stream, 2, sent, Pending)
        BY <2>1, <3>1
      <4>2. 2 \in 1..2
        OBVIOUS
      <4>3. Carried(stream', 2, sent, Pending') /\ stream'[2] = stream[2]
        BY <1>1, <4>1, <4>2
      <4>4. QED
        BY <2>1, <3>1, <4>3
    <3>2. CASE kind # "call"
      BY <1>1, <2>1, <3>2
    <3>3. QED
      BY <3>1, <3>2
  <2>3. Carried(stream, IF kind = "call" THEN 2 ELSE 1, sent, Pending)'
    BY <1>2, <2>2, LedgerStays
  <2>4. phase' = "remote" => /\ todo' # <<>> /\ Head(todo').t = "helper"
                             /\ at' # "idle" /\ of' = Head(todo').x
    BY <1>2, <1>4
  <2>5. ArgsOK'
    BY <1>2, <1>4, <2>2, <2>3, <2>4 DEF ArgsOK
  <2>6. QED
    BY <1>2, <1>3, <1>4, <2>5 DEF Ledger, ReplyOK, ReadOK, MisreadOK, ValuesArrive
<1>5. CASE phase = "results"
  <2>1. /\ open = <<>>
        /\ Carried(stream, IF kind = "get" THEN 0 ELSE 1, sent, Pending)
        /\ IF kind = "get" THEN Len(sent) = 1
           ELSE IF stream[1].t = "count" THEN stream[1].n = Len(sent)
           ELSE sent = <<>>
    BY <1>5 DEF Ledger, ReplyOK
  <2>2. /\ Carried(stream', IF kind = "get" THEN 0 ELSE 1, sent, Pending')
        /\ IF kind = "get" THEN Len(sent) = 1
           ELSE IF stream'[1].t = "count" THEN stream'[1].n = Len(sent)
           ELSE sent = <<>>
    <3>1. CASE kind = "get"
      BY <1>1, <2>1, <3>1
    <3>2. CASE kind # "get"
      <4>1. Carried(stream, 1, sent, Pending)
        BY <2>1, <3>2
      <4>2. Carried(stream', 1, sent, Pending') /\ stream'[1] = stream[1]
        BY <1>1, <4>1
      <4>3. QED
        BY <2>1, <3>2, <4>2
    <3>3. QED
      BY <3>1, <3>2
  <2>3. Carried(stream, IF kind = "get" THEN 0 ELSE 1, sent, Pending)'
    BY <1>2, <2>2, LedgerStays
  <2>4. ReplyOK'
    BY <1>2, <1>5, <2>1, <2>2, <2>3 DEF ReplyOK
  <2>5. QED
    BY <1>2, <1>3, <1>5, <2>4 DEF Ledger, ArgsOK, ReadOK, MisreadOK, ValuesArrive
<1>6. QED
  BY <1>4, <1>5

\* The request is over.
LEMMA LedgerEnds ==
  ASSUME Ledger, UNCHANGED <<kind, sent, todo>>, phase # "program",
         phase' \in {"unsent", "raised", "crashed"}
  PROVE  Ledger'
  BY DEF Ledger, KindsOK, ListsOK, ArgsOK, ReplyOK, ReadOK, MisreadOK, ValuesArrive

\* The first of what is to be written.
LEMMA HeadOfTodo ==
  ASSUME ListsOK, todo # <<>>
  PROVE  /\ Head(todo) \in Items(sent) /\ Tail(todo) \in Seq(Items(sent))
         /\ todo \in Seq(Items(sent)) /\ Tail(todo) \in Seq(Listed(sent))
<1> DEFINE I == Items(sent)
<1>1. todo \in Seq(I) /\ sent \in Seq(Values)
  BY DEF ListsOK
<1>2. Seq(I) \subseteq Seq(Listed(sent))
  BY <1>1, ListedIs
<1> HIDE DEF I
<1>3. Head(todo) \in I /\ Tail(todo) \in Seq(I)
  BY <1>1
<1>4. QED
  BY <1>1, <1>2, <1>3 DEF I

\* write_variable of what is no helper.
LEMMA VariableWritten == Ledger /\ WriteVariable => Ledger'
<1> SUFFICES ASSUME Ledger, WriteVariable PROVE Ledger'
  OBVIOUS
<1>1. /\ phase \in {"args", "results"} /\ phase' = phase /\ todo # <<>>
      /\ UNCHANGED <<graph, kind, target, sent, open, count>>
  BY DEF WriteVariable, Writing, pathVars
<1>2. Pending = todo /\ Pending' = todo'
  BY <1>1 DEF Pending
<1> DEFINE v == Head(todo)
           I == Items(sent)
<1>3. /\ v \in I /\ Tail(todo) \in Seq(I) /\ sent \in Seq(Values)
      /\ Seq(I) \subseteq Seq(Listed(sent))
  BY <1>1, HeadOfTodo, ListedIs DEF Ledger, ListsOK
<1>4. PICK e : stream' = Append(stream, e) /\ Wrote(e, todo, todo') /\ todo' \in Seq(I)
  <2>1. CASE /\ v.t \in Plain \union {"bytes", "table_end", "function_end"}
             /\ stream' = Append(stream, v)
             /\ todo' = Tail(todo)
    <3>1. Wrote(v, todo, todo')
      BY <1>1, <2>1, Zenon DEF Wrote
    <3>2. QED
      BY <1>3, <2>1, <3>1
  <2>2. ASSUME NEW t, v.t \in Containers,
               t = (IF v.t = "table" THEN "table_begin" ELSE "function_begin"),
               stream' = Append(stream, Tag(t)),
               todo' = Pieces(v) \o Tail(todo)
        PROVE  \E e : stream' = Append(stream, e) /\ Wrote(e, todo, todo') /\ todo' \in Seq(I)
    <3>1. Wrote(Tag(t), todo, todo')
      BY <1>1, <2>2, Zenon DEF Wrote
    <3>2. v \in Within(sent)
      BY <1>3, <2>2, ItemKinds DEF Containers
    <3>3. Pieces(v) \in Seq(I)
      BY <1>3, <2>2, <3>2, PiecesEnd
    <3> DEFINE P == Pieces(v)
               z == Tail(todo)
    <3>4. P \in Seq(I) /\ z \in Seq(I)
      BY <1>3, <3>3
    <3> HIDE DEF P, z, I
    <3>5. P \o z \in Seq(I)
      BY <3>4, RestOfConcat
    <3>6. QED
      BY <2>2, <3>1, <3>5 DEF P, z
  <2>3. CASE /\ v.t = "table"
             /\ stream' = Append(stream, Tag("table_begin"))
             /\ todo' = Unpacked(v) \o Tail(todo)
    <3>1. /\ v.t \in Containers /\ Pieces(v) = Unpacked(v)
          /\ "table_begin" = (IF v.t = "table" THEN "table_begin" ELSE "function_begin")
      BY <2>3 DEF Pieces, Containers
    <3>2. QED
      BY <2>2, <2>3, <3>1, Zenon
  <2>4. CASE /\ v.t \in {"fun", "cfun"}
             /\ stream' = Append(stream, Tag("function_begin"))
             /\ todo' = Dumped(v) \o Tail(todo)
    <3>1. /\ v.t \in Containers /\ Pieces(v) = Dumped(v)
          /\ "function_begin" = (IF v.t = "table" THEN "table_begin" ELSE "function_begin")
      BY <2>4 DEF Pieces, Containers
    <3>2. QED
      BY <2>2, <2>4, <3>1, Zenon
  <2>5. QED
    BY <2>1, <2>3, <2>4, Zenon DEF WriteVariable
<1>5. todo' \in Seq(Listed(sent))
  BY <1>3, <1>4
<1>6. QED
  BY <1>1, <1>2, <1>4, <1>5, TokenWritten

\* write_variable of a helper of another handle: RPC_REMOTE and nothing else.
LEMMA ElsewhereWritten == Ledger /\ WriteElsewhere => Ledger'
<1> SUFFICES ASSUME Ledger, WriteElsewhere PROVE Ledger'
  OBVIOUS
<1>1. /\ phase \in {"args", "results"} /\ phase' = phase /\ todo # <<>>
      /\ UNCHANGED <<graph, kind, target, sent, open, count>>
      /\ Head(todo).t = "elsewhere"
      /\ stream' = Append(stream, Tag("remote")) /\ todo' = Tail(todo)
  BY DEF WriteElsewhere, Writing, pathVars
<1>2. Pending = todo /\ Pending' = todo'
  BY <1>1 DEF Pending
<1>3. Tail(todo) \in Seq(Items(sent)) /\ Tail(todo) \in Seq(Listed(sent))
  BY <1>1, HeadOfTodo DEF Ledger
<1>4. Wrote(Tag("remote"), todo, todo')
  BY <1>1, Zenon DEF Wrote
<1>5. QED
  BY <1>1, <1>2, <1>3, <1>4, TokenWritten

\* A helper under way comes first.
LEMMA MarkFirst ==
  ASSUME ListsOK, todo # <<>>, Head(todo).t = "helper"
  PROVE  LET p == <<PathMark(Head(todo).x)>> \o Tail(todo)
         IN  /\ p \in Seq(Listed(sent)) /\ p # <<>>
             /\ Head(p) = PathMark(Head(todo).x)
             /\ Tail(p) = Tail(todo)
<1> DEFINE m == PathMark(Head(todo).x)
           z == Tail(todo)
           L == Listed(sent)
<1>1. z \in Seq(L) /\ Head(todo) \in Items(sent) /\ sent \in Seq(Values)
  BY HeadOfTodo DEF ListsOK
<1>2. Head(todo) \in Values
  BY <1>1, ItemKinds
<1>3. m \in L
  BY <1>2, ValueKinds DEF Listed
<1> HIDE DEF m, z, L
<1>4. /\ <<m>> \o z \in Seq(L) /\ <<m>> \o z # <<>>
      /\ Head(<<m>> \o z) = m /\ Tail(<<m>> \o z) = z
  BY <1>1, <1>3
<1>5. QED
  BY <1>4 DEF m, z, L

\* write_variable of a helper of this handle, up to its path.
LEMMA HelperStarted == Ledger /\ WriteHelper => Ledger'
<1> SUFFICES ASSUME Ledger, WriteHelper PROVE Ledger'
  OBVIOUS
<1>1. /\ phase = "args" /\ phase' = "remote" /\ todo # <<>> /\ Head(todo).t = "helper"
      /\ UNCHANGED <<graph, kind, target, sent, open, count, todo>>
      /\ stream' = Append(stream, Tag("remote"))
      /\ at' # "idle" /\ of' = Head(todo).x
  BY DEF WriteHelper, StartAlone, StartNested
<1> DEFINE p == <<PathMark(Head(todo).x)>> \o Tail(todo)
<1>2. Pending = todo /\ Pending' = p
  BY <1>1 DEF Pending
<1>3. p \in Seq(Listed(sent)) /\ todo \in Seq(Items(sent))
  BY <1>1, MarkFirst DEF Ledger, ListsOK
<1>4. Wrote(Tag("remote"), todo, p)
  BY <1>1, Zenon DEF Wrote
<1> HIDE DEF p
<1>5. QED
  BY <1>1, <1>2, <1>3, <1>4, TokenWritten

\* The path of that helper.
LEMMA HelperWritten == BodyInv /\ Ledger /\ EndHelper => Ledger'
<1> SUFFICES ASSUME BodyInv, Ledger, EndHelper PROVE Ledger'
  OBVIOUS
<1>1. /\ phase = "remote" /\ phase' = "args" /\ todo' = Tail(todo)
      /\ UNCHANGED <<graph, kind, target, sent, open, count>>
      /\ stream' = Append(stream, PathToken) /\ at = "sent"
  BY DEF EndHelper, PathDone
<1>2. todo # <<>> /\ Head(todo).t = "helper" /\ of = Head(todo).x
  BY <1>1 DEF Ledger, ArgsOK
<1>3. of \in made /\ PathToken = PathOf(of)
  <2>1. of \in made
    BY <1>1 DEF BodyInv, ReplayInv, PathInv, ClaimOK
  <2>2. QED
    BY <1>1, <2>1, SentIs DEF BodyInv, PathToken, PathOf
<1> DEFINE p == <<PathMark(Head(todo).x)>> \o Tail(todo)
<1>4. Pending = p /\ Pending' = todo'
  BY <1>1 DEF Pending
<1>5. p # <<>> /\ Head(p) = PathMark(Head(todo).x) /\ Tail(p) = Tail(todo)
  BY <1>2, MarkFirst DEF Ledger
<1>6. Tail(todo) \in Seq(Items(sent)) /\ Tail(todo) \in Seq(Listed(sent))
  BY <1>2, HeadOfTodo DEF Ledger
<1> HIDE DEF p
<1>7. Head(p).t = "pathof" /\ Head(p).x = of
  BY <1>2, <1>5 DEF PathMark
<1>8. Wrote(PathOf(of), p, Tail(todo))
  BY <1>3, <1>5, <1>7, Zenon DEF Wrote
<1>9. QED
  BY <1>1, <1>3, <1>4, <1>6, <1>8, TokenWritten

\* What precedes the values is written.
LEMMA CarryStart ==
  ASSUME NEW st, IsSeq(st), NEW vs, vs \in Seq(Values)
  PROVE  Carried(st, Len(st), vs, vs)
<1>1. vs \in Seq(Listed(vs))
  BY ListedIs
<1>2. Written(st, Len(st), <<vs>>, vs, vs)
  BY <1>1, WrittenStart
<1>3. <<vs>>[1] = vs
  OBVIOUS
<1>4. QED
  BY <1>2, <1>3 DEF Carried

\* The path and the count of a call.
LEMMA PairOf ==
  ASSUME NEW p, NEW c
  PROVE  /\ <<p>> \o <<c>> \in Seq({p, c})
         /\ Len(<<p>> \o <<c>>) = 2 /\ (<<p>> \o <<c>>)[2] = c
OBVIOUS

\* A program sends values.
LEMMA ArgumentsAreValues ==
  ASSUME KindsOK, phase # "program", NEW vs \in Arguments(kind)
  PROVE  vs \in Seq(Values)
<1>1. kind \in {"call", "get", "newindex"}
  BY DEF KindsOK
<1>2. CASE kind = "call"
  BY <1>2, BodyAssumption DEF Arguments
<1>3. CASE kind = "get"
  BY <1>3 DEF Arguments
<1>4. CASE kind = "newindex"
  <2>1. PICK v \in NewValues : vs = <<Key, v>>
    BY <1>4 DEF Arguments
  <2>2. Key \in Values /\ v \in Values
    BY BodyAssumption
  <2> HIDE DEF Key
  <2>3. QED
    BY <2>1, <2>2
<1>5. QED
  BY <1>1, <1>2, <1>3, <1>4

\* helper_remote_index is done: the arguments are next.
LEMMA ArgumentsStart == Ledger /\ EndPath => Ledger'
<1> SUFFICES ASSUME Ledger, EndPath PROVE Ledger'
  OBVIOUS
<1>1. phase = "path" /\ phase' = "args" /\ UNCHANGED <<graph, kind>>
  BY DEF EndPath, PathDone
<1>2. PICK vs \in Arguments(kind) :
        /\ sent' = vs /\ todo' = vs
        /\ stream' = <<PathToken>> \o
             (IF kind = "call" THEN <<[t |-> "count", n |-> Len(vs)]>> ELSE <<>>)
  BY DEF EndPath
<1>3. vs \in Seq(Values)
  BY <1>1, ArgumentsAreValues DEF Ledger
<1>4. vs \in Seq(Items(vs)) /\ KindsOK' /\ ListsOK'
  BY <1>1, <1>2, <1>3, ListedIs DEF Ledger, KindsOK, ListsOK
<1>5. Pending' = vs
  BY <1>1, <1>2 DEF Pending
<1>6. /\ Carried(stream', IF kind = "call" THEN 2 ELSE 1, vs, vs)
      /\ kind = "call" => stream'[2].n = Len(vs)
  <2> DEFINE p == PathToken
             l == Len(vs)
             c == [t |-> "count", n |-> l]
  <2>1. CASE kind = "call"
    <3>1. stream' = <<p>> \o <<c>> /\ c.n = l
      <4>1. stream' = <<p>> \o <<c>>
        BY <1>2, <2>1
      <4> HIDE DEF l
      <4>2. c.n = l
        OBVIOUS
      <4>3. QED
        BY <4>1, <4>2
    <3> HIDE DEF p, c, l
    <3>3. stream' \in Seq({p, c}) /\ Len(stream') = 2 /\ stream'[2] = c
      BY <3>1, PairOf
    <3>4. IsSeq(stream') /\ stream'[2].n = l
      BY <3>1, <3>3 DEF IsSeq
    <3>5. PICK st : st = stream'
      OBVIOUS
    <3>6. Carried(st, Len(st), vs, vs)
      BY <1>3, <3>4, <3>5, CarryStart
    <3>7. QED
      BY <2>1, <3>3, <3>4, <3>5, <3>6 DEF l
  <2>2. CASE kind # "call"
    <3>1. stream' = <<p>> \o <<>>
      BY <1>2, <2>2
    <3> HIDE DEF p
    <3>2. stream' = <<p>>
      BY <3>1
    <3>3. stream' \in Seq({p}) /\ Len(stream') = 1
      BY <3>2
    <3>4. IsSeq(stream')
      BY <3>3 DEF IsSeq
    <3>5. PICK st : st = stream'
      OBVIOUS
    <3>6. Carried(st, Len(st), vs, vs)
      BY <1>3, <3>4, <3>5, CarryStart
    <3>7. QED
      BY <2>2, <3>3, <3>5, <3>6
  <2>3. QED
    BY <2>1, <2>2
<1>7. Carried(stream, IF kind = "call" THEN 2 ELSE 1, sent, Pending)'
  BY <1>1, <1>2, <1>5, <1>6, LedgerStays
<1>8. ArgsOK'
  BY <1>1, <1>2, <1>6, <1>7 DEF ArgsOK
<1>9. QED
  BY <1>1, <1>4, <1>8 DEF Ledger, ReplyOK, ReadOK, MisreadOK, ValuesArrive

\* The request reaches the server.
LEMMA BodyFlushed == Ledger /\ Flush => Ledger'
<1> SUFFICES ASSUME Ledger, Flush PROVE Ledger'
  OBVIOUS
<1>1. /\ todo = <<>> /\ phase \in {"args", "results"}
      /\ phase' = IF phase = "args" THEN "walk" ELSE "reply"
      /\ UNCHANGED <<graph, kind, sent, todo, stream, open>>
  BY DEF Flush, pathVars
<1>2. Pending' = Pending
  BY <1>1 DEF Pending
<1>3. \A k : Carried(stream, k, sent, Pending)' <=> Carried(stream, k, sent, Pending)
  BY <1>1, <1>2, LedgerStays
<1>4. ArgsOK'
  BY <1>1, <1>3 DEF Ledger, ArgsOK
<1>5. ReplyOK' /\ (phase' = "reply" => open' = <<>>)
  BY <1>1, <1>3 DEF Ledger, ReplyOK
<1>6. QED
  BY <1>1, <1>4, <1>5 DEF Ledger, KindsOK, ListsOK, ReadOK, MisreadOK, ValuesArrive

\* The handler has results, and writes them.
LEMMA HandlerReplies == Ledger /\ Reply => Ledger'
<1> SUFFICES ASSUME Ledger, Reply PROVE Ledger'
  OBVIOUS
<1>1. /\ phase = "ran" /\ phase' = "results" /\ open' = <<>>
      /\ UNCHANGED <<graph, kind>> /\ todo' = sent' /\ stream = <<>>
  BY DEF Reply, pathVars, Ledger, ValuesArrive
<1>2. /\ sent' \in Seq(Values) /\ IsSeq(stream')
      /\ Len(stream') = IF kind = "get" THEN 0 ELSE 1
      /\ IF kind = "get" THEN Len(sent') = 1
         ELSE IF stream'[1].t = "count" THEN stream'[1].n = Len(sent')
         ELSE sent' = <<>>
  <2>1. Results \subseteq Seq(Values)
    BY BodyAssumption
  <2>2. CASE /\ kind = "call"
             /\ \E rs \in Results :
                  sent' = rs /\ stream' = Append(stream, [t |-> "count", n |-> Len(rs)])
    <3>1. PICK rs \in Results :
            sent' = rs /\ stream' = Append(stream, [t |-> "count", n |-> Len(rs)])
      BY <2>2
    <3> DEFINE l == Len(rs)
               c == [t |-> "count", n |-> l]
    <3>2. stream' = Append(<<>>, c) /\ c.t = "count" /\ c.n = l
      BY <1>1, <3>1
    <3> HIDE DEF c, l
    <3>3. stream' \in Seq({c}) /\ Len(stream') = 1 /\ stream'[1] = c
      BY <3>2
    <3>4. QED
      BY <2>1, <2>2, <3>1, <3>2, <3>3 DEF IsSeq, l
  <2>3. CASE /\ kind = "get"
             /\ \E rs \in Results : Len(rs) = 1 /\ sent' = rs /\ UNCHANGED stream
    <3>1. stream' = <<>> /\ <<>> \in Seq({}) /\ Len(<<>>) = 0
      BY <1>1, <2>3
    <3>2. QED
      BY <2>1, <2>3, <3>1 DEF IsSeq
  <2>4. CASE /\ kind \in {"call", "newindex"}
             /\ sent' = <<>>
             /\ stream' = Append(stream, Tag(IF kind = "call" THEN "error" ELSE "zero"))
    <3> DEFINE c == Tag(IF kind = "call" THEN "error" ELSE "zero")
    <3>1. stream' = Append(<<>>, c) /\ c.t # "count"
      BY <1>1, <2>4 DEF Tag
    <3> HIDE DEF c
    <3>2. stream' \in Seq({c}) /\ Len(stream') = 1 /\ stream'[1] = c
      BY <3>1
    <3>3. QED
      BY <2>4, <3>1, <3>2 DEF IsSeq
  <2>5. QED
    BY <2>2, <2>3, <2>4 DEF Reply
<1>3. Pending' = sent'
  BY <1>1 DEF Pending
<1>4. KindsOK' /\ ListsOK'
  BY <1>1, <1>2, ListedIs DEF Ledger, KindsOK, ListsOK
<1>5. Carried(stream', IF kind = "get" THEN 0 ELSE 1, sent', Pending')
  <2>1. PICK st, vs : st = stream' /\ vs = sent'
    OBVIOUS
  <2>2. Carried(st, Len(st), vs, vs)
    BY <1>2, <2>1, CarryStart
  <2>3. QED
    BY <1>2, <1>3, <2>1, <2>2
<1>6. Carried(stream, IF kind = "get" THEN 0 ELSE 1, sent, Pending)'
  BY <1>1, <1>5, LedgerStays
<1>7. ReplyOK'
  BY <1>1, <1>2, <1>6 DEF ReplyOK
<1>8. QED
  BY <1>1, <1>4, <1>7 DEF Ledger, ArgsOK, ReadOK, MisreadOK, ValuesArrive

-----------------------------------------------------------------------------
\* The end that reads.

\* The reader at the start of the values.
LEMMA ReadStart ==
  ASSUME NEW st, NEW vs, vs \in Seq(Values), Carried(st, 0, vs, <<>>)
  PROVE  Taken(st, vs, <<List>>)
<1>1. PICK R : Written(st, 0, R, vs, <<>>) /\ R[1] = vs
  BY DEF Carried
<1> DEFINE f == List
           I == Items(vs)
           p == <<f>>
           W == <<vs>>
<1>2. f \in Frames({}) /\ f.got = <<>>
  <2>1. <<>> \in Seq({})
    OBVIOUS
  <2>2. QED
    BY <2>1 DEF Frames, List
<1>3. vs \in Seq(I)
  BY ListedIs
<1> HIDE DEF f, I
<1>4. p \in Seq(Frames({})) /\ p # <<>> /\ Len(p) = 1 /\ p[1] = f
  <2> DEFINE F == Frames({})
  <2> HIDE DEF F
  <2>1. f \in F
    BY <1>2 DEF F
  <2>2. p \in Seq(F) /\ p # <<>> /\ Len(p) = 1 /\ p[1] = f
    BY <2>1
  <2>3. QED
    BY <2>2 DEF F
<1>5. W \in Seq(Seq(I)) /\ Len(W) = 1 /\ W[1] = vs
  <2> DEFINE S == Seq(I)
  <2> HIDE DEF S
  <2>1. vs \in S
    BY <1>3 DEF S
  <2>2. W \in Seq(S) /\ Len(W) = 1 /\ W[1] = vs
    BY <2>1
  <2>3. QED
    BY <2>2 DEF S
<1>6. Len(vs) \in Nat
  OBVIOUS
<1> HIDE DEF p, W
<1>7. /\ \A k \in 1..Len(p) : k = 1
      /\ \A k \in 2..Len(p) : FALSE
  BY <1>4
<1>8. Len(f.got) = 0
  BY <1>2
<1>9. \A k \in 1..Len(p) : Len(p[k].got) <= Len(W[k])
  BY <1>4, <1>5, <1>6, <1>7, <1>8
<1>10. \A k \in 1..Len(p) : \A m \in 1..Len(p[k].got) : FALSE
  BY <1>4, <1>7, <1>8
<1>11. Stacked(W, {}, {}, p, vs)
  BY <1>4, <1>5, <1>7, <1>9, <1>10 DEF Stacked, I
<1>12. Unread(W, p) = vs
  <2>1. Read(p) = 0
    BY <1>4, <1>8 DEF Read
  <2>2. Rest(vs, 0) = vs
    BY SubSeqFull DEF Rest
  <2>3. QED
    BY <1>4, <1>5, <2>1, <2>2 DEF Unread
<1>13. Taken(st, vs, p)
  BY <1>1, <1>11, <1>12 DEF Taken
<1>14. QED
  BY <1>13 DEF p, f

\* Past the number of values, or a path.
LEMMA CarriedAfter ==
  ASSUME NEW st, NEW vs, NEW left, NEW k, Carried(st, k, vs, left)
  PROVE  /\ Carried(SubSeq(st, k + 1, Len(st)), 0, vs, left)
         /\ k = 1 => Tail(st) = SubSeq(st, k + 1, Len(st))
<1>1. PICK R : Written(st, k, R, vs, left) /\ R[1] = vs
  BY DEF Carried
<1>2. Written(SubSeq(st, k + 1, Len(st)), 0, R, vs, left)
  BY <1>1, WrittenAfter
<1>3. ASSUME k = 1 PROVE Tail(st) = SubSeq(st, k + 1, Len(st))
  <2>1. IsSeq(st) /\ 1 \in 0..Len(st)
    BY <1>1, <1>3 DEF Written
  <2>2. st # <<>>
    <3>1. Len(st) # 0
      BY <2>1
    <3>2. QED
      BY <3>1
  <2>3. QED
    BY <1>3, <2>1, <2>2, TailOfAny
<1>4. QED
  BY <1>1, <1>2, <1>3 DEF Carried

\* The handler starts to read.
LEMMA ArgumentsRead == Ledger /\ ReadPath => Ledger'
<1> SUFFICES ASSUME Ledger, ReadPath PROVE Ledger'
  OBVIOUS
<1>1. /\ phase = "walk" /\ phase' = "values" /\ open' = <<List>>
      /\ UNCHANGED <<graph, kind, sent, todo>>
      /\ IF kind = "call"
         THEN count' = stream[2].n /\ stream' = SubSeq(stream, 3, Len(stream))
         ELSE count' = Len(sent) /\ stream' = Tail(stream)
  BY DEF ReadPath, pathVars
<1>2. /\ Carried(stream, IF kind = "call" THEN 2 ELSE 1, sent, <<>>)
      /\ kind = "call" => stream[2].n = Len(sent)
  BY <1>1 DEF Ledger, ArgsOK, Pending
<1>3. sent \in Seq(Values)
  BY DEF Ledger, ListsOK
<1>4. Carried(stream', 0, sent, <<>>) /\ count' = Len(sent)
  <2>1. CASE kind = "call"
    <3>1. Carried(SubSeq(stream, 2 + 1, Len(stream)), 0, sent, <<>>) /\ 2 + 1 = 3
      BY <1>2, <2>1, CarriedAfter
    <3>2. QED
      BY <1>1, <1>2, <2>1, <3>1
  <2>2. CASE kind # "call"
    <3>1. /\ Carried(SubSeq(stream, 1 + 1, Len(stream)), 0, sent, <<>>)
          /\ Tail(stream) = SubSeq(stream, 1 + 1, Len(stream))
      BY <1>2, <2>2, CarriedAfter
    <3>2. QED
      BY <1>1, <2>2, <3>1
  <2>3. QED
    BY <2>1, <2>2
<1>5. Taken(stream', sent, <<List>>)
  <2>1. PICK st : st = stream'
    OBVIOUS
  <2>2. Taken(st, sent, <<List>>)
    BY <1>3, <1>4, <2>1, ReadStart
  <2>3. QED
    BY <2>1, <2>2
<1>6. Taken(stream, sent, open)'
  BY <1>1, <1>5, LedgerStays
<1>7. ReadOK'
  BY <1>1, <1>4, <1>6 DEF ReadOK
<1>8. QED
  BY <1>1, <1>7 DEF Ledger, KindsOK, ListsOK, ArgsOK, ReplyOK, MisreadOK, ValuesArrive

\* The client starts to read.
LEMMA ResultsRead == Ledger /\ ReadReply => Ledger'
<1> SUFFICES ASSUME Ledger, ReadReply PROVE Ledger'
  OBVIOUS
<1>1. /\ phase = "reply" /\ phase' = "reply" /\ open = <<>> /\ open' = <<List>>
      /\ UNCHANGED <<graph, kind, sent, todo>>
      /\ IF kind = "get"
         THEN count' = 1 /\ UNCHANGED stream
         ELSE /\ count' = IF Head(stream).t = "count" THEN Head(stream).n ELSE 0
              /\ stream' = Tail(stream)
  BY DEF ReadReply, pathVars
<1>2. /\ Carried(stream, IF kind = "get" THEN 0 ELSE 1, sent, <<>>)
      /\ IF kind = "get" THEN Len(sent) = 1
         ELSE IF stream[1].t = "count" THEN stream[1].n = Len(sent)
         ELSE sent = <<>>
  BY <1>1 DEF Ledger, ReplyOK, Pending
<1>3. sent \in Seq(Values)
  BY DEF Ledger, ListsOK
<1>4. Carried(stream', 0, sent, <<>>) /\ count' = Len(sent)
  <2>1. CASE kind = "get"
    BY <1>1, <1>2, <2>1
  <2>2. CASE kind # "get"
    <3>1. Carried(stream, 1, sent, <<>>)
      BY <1>2, <2>2
    <3>2. /\ Carried(SubSeq(stream, 1 + 1, Len(stream)), 0, sent, <<>>)
          /\ Tail(stream) = SubSeq(stream, 1 + 1, Len(stream))
      BY <3>1, CarriedAfter
    <3>3. Head(stream) = stream[1]
      OBVIOUS
    <3>4. count' = Len(sent)
      <4>1. Len(<<>>) = 0
        OBVIOUS
      <4>2. QED
        BY <1>1, <1>2, <2>2, <3>3, <4>1
    <3>5. QED
      BY <1>1, <2>2, <3>2, <3>4
  <2>3. QED
    BY <2>1, <2>2
<1>5. Taken(stream', sent, <<List>>)
  <2>1. PICK st : st = stream'
    OBVIOUS
  <2>2. Taken(st, sent, <<List>>)
    BY <1>3, <1>4, <2>1, ReadStart
  <2>3. QED
    BY <2>1, <2>2
<1>6. Taken(stream, sent, open)'
  BY <1>1, <1>5, LedgerStays
<1>7. ReadOK' /\ open' # <<>>
  BY <1>1, <1>4, <1>6 DEF ReadOK
<1>8. QED
  BY <1>1, <1>7 DEF Ledger, KindsOK, ListsOK, ArgsOK, ReplyOK, MisreadOK, ValuesArrive

\* Where the reader is, with what it is measured by.
Reader(st, vs, stack, R, W, X, G) ==
  /\ vs \in Seq(Values)
  /\ Written(st, 0, R, vs, <<>>)
  /\ Stacked(W, X, G, stack, vs)
  /\ R[1] = Unread(W, stack)

\* What is to be read is on the list.
LEMMA UnreadIs ==
  ASSUME NEW W, NEW X, NEW G, NEW stack, NEW vs, Stacked(W, X, G, stack, vs)
  PROVE  Unread(W, stack) \in Seq(Items(vs))
<1> DEFINE n == Len(stack)
           g == Read(stack)
           L == W[n]
<1>1. L \in Seq(Items(vs)) /\ g \in 0..Len(L)
  BY StackTypes DEF Read
<1>2. Rest(L, g) \in Seq(Items(vs))
  <2> HIDE DEF g, L
  <2>1. QED
    BY <1>1, RestIs
<1>3. QED
  BY <1>2 DEF Unread

\* What the next byte is of.
NextIs(tok, u, vs, st, Q) ==
  /\ u # <<>> /\ u \in Seq(Items(vs))
  /\ Head(u) \in Items(vs) /\ Tail(u) \in Seq(Items(vs))
  /\ Wrote(tok, u, Q[1])
  /\ Written(st, 0, Q, vs, <<>>)

\* The next token is of the next item to be read.
LEMMA NextToken ==
  ASSUME NEW st, NEW vs, NEW stack, NEW R, NEW W, NEW X, NEW G,
         Reader(st, vs, stack, R, W, X, G), st # <<>>
  PROVE  NextIs(Head(st), Unread(W, stack), vs, Tail(st), Tail(R))
<1> DEFINE u == Unread(W, stack)
           I == Items(vs)
<1>1. /\ Written(st, 0, R, vs, <<>>) /\ Stacked(W, X, G, stack, vs) /\ R[1] = u
  BY DEF Reader
<1>2. /\ Wrote(Head(st), R[1], R[2])
      /\ Written(Tail(st), 0, Tail(R), vs, <<>>) /\ Tail(R)[1] = R[2]
  BY <1>1, WrittenNext
<1>3. u \in Seq(I)
  BY <1>1, UnreadIs
<1>4. u # <<>>
  BY <1>1, <1>2 DEF Wrote
<1> HIDE DEF u, I
<1>5. Head(u) \in I /\ Tail(u) \in Seq(I)
  BY <1>3, <1>4
<1>6. QED
  BY <1>1, <1>2, <1>3, <1>4, <1>5, Zenon DEF NextIs, u, I

\* A value is read.
LEMMA ValueTaken ==
  ASSUME NEW vs, vs \in Seq(Values), NEW stack, NEW W, NEW X, NEW G,
         Stacked(W, X, G, stack, vs),
         Unread(W, stack) # <<>>, Head(Unread(W, stack)) \notin EndMarks,
         NEW w, Crossed(Head(Unread(W, stack)), w, X),
         NEW st, NEW Q, Written(st, 0, Q, vs, <<>>), Q[1] = Tail(Unread(W, stack))
  PROVE  Taken(st, vs, Push(stack, w))
<1>1. Facing(W, X \union {<<Head(Unread(W, stack)), w>>}, G \union {w},
             Push(stack, w), vs, Tail(Unread(W, stack)))
  BY PushOK, Zenon
<1>2. QED
  BY <1>1, Zenon DEF Facing, Taken

\* read_variable, but for what it finds after RPC_REMOTE.
LEMMA TokenTaken ==
  ASSUME NEW st, NEW vs, NEW stack, NEW R, NEW W, NEW X, NEW G,
         Reader(st, vs, stack, R, W, X, G), st # <<>>
  PROVE  LET tok == Head(st)
         IN  /\ tok.t \in Plain => Taken(Tail(st), vs, Push(stack, tok))
             /\ tok.t = "bytes" =>
                  \A w \in Loaded(tok) : Taken(Tail(st), vs, Push(stack, w))
             /\ tok.t \in {"table_begin", "function_begin"} =>
                  Taken(Tail(st), vs,
                    Append(stack, [c |-> IF tok.t = "table_begin" THEN "table"
                                         ELSE "function", got |-> <<>>]))
             /\ tok.t \in {"table_end", "function_end"} =>
                  Taken(Tail(st), vs, Push(Front(stack), Filled(Last(stack))))
<1> DEFINE tok == Head(st)
           u == Unread(W, stack)
           v == Head(u)
           Q == Tail(R)
<1>1. /\ u # <<>> /\ v \in Items(vs)
      /\ Wrote(tok, u, Q[1]) /\ Written(Tail(st), 0, Q, vs, <<>>)
  BY NextToken, Zenon DEF NextIs
<1>2. vs \in Seq(Values) /\ Stacked(W, X, G, stack, vs)
  BY DEF Reader
<1>3. /\ v.t = "bytes" <=> v \in Codes
      /\ v.t \in {"table_end", "function_end"} <=> v \in EndMarks
      /\ v.t \notin {"bytes", "table_end", "function_end"} <=> v \in Within(vs)
      /\ v.t # "pathof"
      /\ v \in Within(vs) => v \in Values
  BY <1>1, <1>2, ItemKinds
<1> HIDE DEF tok, u, v, Q
<1>4. \/ /\ v.t \in Plain \union {"bytes", "table_end", "function_end"}
         /\ tok = v /\ Q[1] = Tail(u)
      \/ /\ v.t \in Containers
         /\ tok = Tag(IF v.t = "table" THEN "table_begin" ELSE "function_begin")
         /\ Q[1] = Pieces(v) \o Tail(u)
      \/ v.t \in {"helper", "elsewhere"} /\ tok.t = "remote"
  BY <1>1, <1>3 DEF Wrote, Tag, v
<1>5. ASSUME NEW w, v \notin EndMarks, Crossed(v, w, X), Q[1] = Tail(u)
      PROVE  Taken(Tail(st), vs, Push(stack, w))
  BY <1>1, <1>2, <1>5, ValueTaken DEF u, v
<1>6. ASSUME tok.t \in Plain PROVE Taken(Tail(st), vs, Push(stack, tok))
  <2>1. tok = v /\ Q[1] = Tail(u) /\ v.t \in Plain
    BY <1>4, <1>6 DEF Plain, Tag
  <2>2. v \in Values /\ v \notin EndMarks /\ v.t # "table"
    BY <1>3, <2>1 DEF Plain
  <2>3. Crossed(v, v, X)
    BY <2>1, <2>2, Zenon DEF Crossed, Becomes
  <2>4. QED
    BY <1>5, <2>1, <2>2, <2>3
<1>7. ASSUME tok.t = "bytes", NEW w \in Loaded(tok)
      PROVE  Taken(Tail(st), vs, Push(stack, w))
  <2>1. tok = v /\ Q[1] = Tail(u) /\ v.t = "bytes"
    BY <1>4, <1>7 DEF Tag
  <2>2. v \in Codes /\ v \notin EndMarks
    BY <1>3, <2>1
  <2>3. Crossed(v, w, X)
    BY <1>7, <2>1, <2>2, Zenon DEF Crossed
  <2>4. QED
    BY <1>5, <2>1, <2>2, <2>3
<1>8. ASSUME tok.t \in {"table_begin", "function_begin"}, NEW c,
             c = IF tok.t = "table_begin" THEN "table" ELSE "function"
      PROVE  Taken(Tail(st), vs, Append(stack, [c |-> c, got |-> <<>>]))
  <2>1. v.t \in Containers /\ Q[1] = Pieces(v) \o Tail(u) /\ c = ContainerOf(v)
    BY <1>4, <1>8 DEF Plain, Tag, Containers, ContainerOf
  <2> DEFINE U == Pieces(v) \o Tail(u)
  <2>2. Facing(Append(W, U), X, G, Append(stack, [c |-> c, got |-> <<>>]), vs, U)
    <3>1. /\ Unread(W, stack) # <<>> /\ Head(Unread(W, stack)).t \in Containers
          /\ c = ContainerOf(Head(Unread(W, stack)))
          /\ U = Pieces(Head(Unread(W, stack))) \o Tail(Unread(W, stack))
      BY <1>1, <2>1 DEF u, v
    <3> HIDE DEF U
    <3>2. QED
      BY <1>2, <3>1, EnterOK, Zenon
  <2> HIDE DEF U
  <2>3. QED
    BY <1>1, <2>1, <2>2, Zenon DEF Facing, Taken, U
<1>9. ASSUME tok.t \in {"table_end", "function_end"}
      PROVE  Taken(Tail(st), vs, Push(Front(stack), Filled(Last(stack))))
  <2>1. tok = v /\ Q[1] = Tail(u) /\ v.t \in {"table_end", "function_end"}
    BY <1>4, <1>9 DEF Tag
  <2>2. v \in EndMarks
    BY <1>3, <2>1
  <2> DEFINE V == Front(W)
             p == Front(stack)
             w == Filled(Last(stack))
  <2>3. Outer(V, X, G, p, vs, w, Tail(u))
    BY <1>1, <1>2, <2>2, LeaveOK DEF u, v
  <2> HIDE DEF V, p, w
  <2>4. /\ Stacked(V, X, G, p, vs)
        /\ Unread(V, p) # <<>> /\ Head(Unread(V, p)) \notin EndMarks
        /\ Crossed(Head(Unread(V, p)), w, X)
        /\ Tail(Unread(V, p)) = Tail(u)
    BY <2>3, Zenon DEF Outer
  <2>5. Taken(Tail(st), vs, Push(p, w))
    BY <1>1, <1>2, <2>1, <2>4, ValueTaken
  <2>6. QED
    BY <2>5 DEF p, w
<1>10. QED
  BY <1>6, <1>7, <1>8, <1>9 DEF tok

\* A value is read and the request goes on.
LEMMA StillReading ==
  ASSUME Ledger, Reading, UNCHANGED <<graph, kind, phase, sent, todo, count>>,
         Taken(stream', sent, open')
  PROVE  Ledger'
<1>1. /\ phase \in {"values", "reply"} /\ open # <<>>
      /\ phase' = phase /\ sent' = sent /\ count' = count /\ kind' = kind /\ todo' = todo
  BY DEF Reading
<1>2. open' # <<>>
  <2>1. PICK R, W, X, G : Stacked(W, X, G, open', sent)
    BY DEF Taken
  <2>2. QED
    BY <2>1, Zenon DEF Stacked
<1>3. count = Len(sent)
  BY <1>1 DEF Ledger, ReadOK
<1>4. Taken(stream, sent, open)'
  BY <1>1, LedgerStays
<1>5. ReadOK'
  BY <1>1, <1>3, <1>4 DEF ReadOK
<1>6. QED
  BY <1>1, <1>2, <1>5
     DEF Ledger, KindsOK, ListsOK, ArgsOK, ReplyOK, MisreadOK, ValuesArrive

\* While there is something to read.
LEMMA ReaderIs ==
  ASSUME Ledger, Reading
  PROVE  /\ count = Len(sent) /\ sent \in Seq(Values)
         /\ \E R, W, X, G : Reader(stream, sent, open, R, W, X, G)
<1>1. count = Len(sent) /\ Taken(stream, sent, open) /\ sent \in Seq(Values)
  BY DEF Ledger, ReadOK, ListsOK, Reading
<1>2. QED
  BY <1>1, Zenon DEF Taken, Reader

\* read_variable of what is no helper.
LEMMA VariableRead == Ledger /\ ReadVariable => Ledger'
<1> SUFFICES ASSUME Ledger, ReadVariable PROVE Ledger'
  OBVIOUS
<1>1. /\ Reading /\ stream # <<>> /\ stream' = Tail(stream)
      /\ UNCHANGED <<graph, kind, phase, sent, todo, count>>
  BY DEF ReadVariable, pathVars
<1> DEFINE tok == Head(stream)
<1>2. /\ tok.t \in Plain => Taken(Tail(stream), sent, Push(open, tok))
      /\ tok.t = "bytes" =>
           \A w \in Loaded(tok) : Taken(Tail(stream), sent, Push(open, w))
      /\ tok.t \in {"table_begin", "function_begin"} =>
           Taken(Tail(stream), sent,
             Append(open, [c |-> IF tok.t = "table_begin" THEN "table"
                                 ELSE "function", got |-> <<>>]))
      /\ tok.t \in {"table_end", "function_end"} =>
           Taken(Tail(stream), sent, Push(Front(open), Filled(Last(open))))
  <2>1. PICK R, W, X, G : Reader(stream, sent, open, R, W, X, G)
    BY <1>1, ReaderIs
  <2>2. QED
    BY <1>1, <2>1, TokenTaken
<1>3. \/ tok.t \in Plain /\ open' = Push(open, tok)
      \/ tok.t = "bytes" /\ \E v \in Loaded(tok) : open' = Push(open, v)
      \/ /\ tok.t \in {"table_begin", "function_begin"}
         /\ open' = Append(open, [c |-> IF tok.t = "table_begin" THEN "table"
                                        ELSE "function", got |-> <<>>])
      \/ /\ tok.t \in {"table_end", "function_end"}
         /\ open' = Push(Front(open), Filled(Last(open)))
  BY Zenon DEF ReadVariable
<1> HIDE DEF tok
<1>4. Taken(Tail(stream), sent, open')
  BY <1>2, <1>3, Zenon
<1>5. QED
  BY <1>1, <1>4, StillReading

\* After RPC_REMOTE a path follows, of a helper of this handle; after one of
\* another handle none does.
RemoteIs(st, v, vs, u) ==
  \/ /\ v.t = "helper" /\ v.x \in made
     /\ Len(st) > 1 /\ st[2] = PathOf(v.x)
     /\ \E Q : Written(SubSeq(st, 3, Len(st)), 0, Q, vs, <<>>) /\ Q[1] = Tail(u)
  \/ v = Value("elsewhere") /\ ~(Len(st) > 1 /\ st[2].t = "path")

\* The second of a stream.
LEMMA SecondOfAny ==
  ASSUME NEW st, IsSeq(st), st # <<>>
  PROVE  /\ Tail(st) # <<>> <=> Len(st) > 1
         /\ Tail(st) # <<>> => /\ Head(Tail(st)) = st[2]
                               /\ Tail(Tail(st)) = SubSeq(st, 3, Len(st))
<1>1. PICK S : st \in Seq(S)
  BY DEF IsSeq
<1>2. Len(st) \in Nat \ {0}
  BY <1>1
<1> DEFINE r == Tail(st)
           n == Len(st)
<1>3. /\ r \in Seq(S) /\ Len(r) = n - 1 /\ n \in Nat \ {0}
      /\ \A m \in 1..n - 1 : r[m] = st[m + 1]
  BY <1>1, <1>2
<1> HIDE DEF r, n
<1>4. r # <<>> <=> n > 1
  <2>1. r # <<>> <=> Len(r) # 0
    BY <1>3
  <2>2. QED
    BY <1>3, <2>1
<1>5. ASSUME n > 1
      PROVE  Head(r) = st[2] /\ Tail(r) = SubSeq(st, 3, n)
  <2>1. r[1] = st[2] /\ Head(r) = r[1]
    BY <1>3, <1>4, <1>5
  <2> DEFINE p == Tail(r)
             q == SubSeq(st, 3, n)
  <2>2. p \in Seq(S) /\ Len(p) = n - 2 /\ \A m \in 1..n - 2 : p[m] = r[m + 1]
    BY <1>3, <1>4, <1>5
  <2>3. q \in Seq(S) /\ Len(q) = n - 2 /\ \A m \in 1..n - 2 : q[m] = st[m + 2]
    <3> DEFINE k == 2
    <3>1. k \in 0..Len(st) /\ st \in Seq(S)
      BY <1>1, <1>3, <1>5 DEF n
    <3> HIDE DEF k
    <3>2. /\ Rest(st, k) \in Seq(S)
          /\ Len(Rest(st, k)) = Len(st) - k
          /\ \A m \in 1..Len(st) - k : Rest(st, k)[m] = st[k + m]
      BY <3>1, RestIs
    <3>3. Rest(st, k) = q
      BY DEF Rest, k, n
    <3> HIDE DEF q
    <3>4. q \in Seq(S) /\ Len(q) = n - 2 /\ \A m \in 1..n - 2 : q[m] = st[2 + m]
      BY <3>2, <3>3, Zenon DEF k, n
    <3>5. QED
      BY <1>3, <3>4
  <2> HIDE DEF p, q
  <2>4. ASSUME NEW m \in 1..Len(q) PROVE p[m] = q[m]
    <3>1. m \in 1..n - 2 /\ m + 1 \in 1..n - 1 /\ (m + 1) + 1 = m + 2
      BY <1>3, <2>3
    <3>2. QED
      BY <1>3, <2>2, <2>3, <3>1
  <2>5. p = q
    BY <2>2, <2>3, <2>4, SeqEqual
  <2>6. QED
    BY <2>1, <2>5 DEF p, q
<1>6. QED
  BY <1>4, <1>5 DEF r, n

\* A RPC_REMOTE is of a helper or of one of another handle.
LEMMA RemoteNext ==
  ASSUME NEW st, NEW vs, NEW stack, NEW R, NEW W, NEW X, NEW G,
         Reader(st, vs, stack, R, W, X, G), st # <<>>, Head(st).t = "remote"
  PROVE  /\ Unread(W, stack) # <<>>
         /\ Head(Unread(W, stack)) \in Within(vs)
         /\ RemoteIs(st, Head(Unread(W, stack)), vs, Unread(W, stack))
<1> DEFINE tok == Head(st)
           u == Unread(W, stack)
           v == Head(u)
           Q == Tail(R)
           z == Tail(u)
<1>1. /\ u # <<>> /\ v \in Items(vs) /\ z \in Seq(Items(vs))
      /\ Wrote(tok, u, Q[1]) /\ Written(Tail(st), 0, Q, vs, <<>>)
  BY NextToken, Zenon DEF NextIs
<1>2. vs \in Seq(Values) /\ IsSeq(st)
  BY DEF Reader, Written
<1>3. /\ v.t \notin {"bytes", "table_end", "function_end"} <=> v \in Within(vs)
      /\ v.t # "pathof"
      /\ v \in Within(vs) => v \in Values
  BY <1>1, <1>2, ItemKinds
<1>4. tok.t = "remote"
  OBVIOUS
<1> HIDE DEF tok, u, v, Q, z
<1>5. \/ v.t = "helper" /\ Q[1] = <<PathMark(v.x)>> \o z
      \/ v.t = "elsewhere" /\ Q[1] = z
  BY <1>1, <1>3, <1>4 DEF Wrote, Tag, Plain, v, z
<1>6. v \in Within(vs) /\ v \in Values
  BY <1>3, <1>5
<1>7. /\ Tail(st) # <<>> <=> Len(st) > 1
      /\ Tail(st) # <<>> => /\ Head(Tail(st)) = st[2]
                            /\ Tail(Tail(st)) = SubSeq(st, 3, Len(st))
  BY <1>2, SecondOfAny
<1>8. Tail(st) # <<>> =>
        /\ Wrote(st[2], Q[1], Q[2])
        /\ Written(SubSeq(st, 3, Len(st)), 0, Tail(Q), vs, <<>>) /\ Tail(Q)[1] = Q[2]
  BY <1>1, <1>7, WrittenNext
<1>9. CASE v.t = "helper"
  <2>1. Q[1] = <<PathMark(v.x)>> \o z
    BY <1>5, <1>9
  <2> DEFINE p == PathMark(v.x)
  <2>2. Q[1] # <<>> /\ Head(Q[1]) = p /\ Tail(Q[1]) = z
    <3> DEFINE S == Items(vs) \union {p}
    <3>1. z \in Seq(S) /\ p \in S
      BY <1>1
    <3> HIDE DEF S, p
    <3>2. <<p>> \o z # <<>> /\ Head(<<p>> \o z) = p /\ Tail(<<p>> \o z) = z
      BY <3>1
    <3>3. QED
      BY <2>1, <3>2 DEF p
  <2>3. Tail(st) # <<>>
    BY <1>1, <2>2, WrittenOut
  <2>4. Wrote(st[2], Q[1], Q[2])
    BY <1>8, <2>3
  <2>5. Head(Q[1]).t = "pathof" /\ Head(Q[1]).x = v.x
    BY <2>2 DEF PathMark
  <2>6. v.x \in made /\ st[2] = PathOf(v.x) /\ Q[2] = z
    BY <2>2, <2>4, <2>5 DEF Wrote, Plain, Containers
  <2>7. QED
    BY <1>1, <1>6, <1>7, <1>8, <1>9, <2>3, <2>6, Zenon DEF RemoteIs, u, v, z
<1>10. CASE v.t = "elsewhere"
  <2>1. v = Value("elsewhere")
    BY <1>6, <1>10, ValueKinds
  <2>2. ASSUME Len(st) > 1 PROVE st[2].t # "path"
    <3>1. Wrote(st[2], z, Q[2])
      BY <1>5, <1>7, <1>8, <1>10, <2>2
    <3>2. z # <<>>
      BY <3>1 DEF Wrote
    <3>3. Head(z) \in Items(vs)
      BY <1>1, <3>2
    <3>4. Head(z).t # "pathof"
      BY <1>2, <3>3, ItemKinds
    <3>5. QED
      BY <3>1, <3>4 DEF Wrote, Tag, Plain
  <2>3. QED
    BY <1>1, <1>6, <2>1, <2>2, Zenon DEF RemoteIs, u, v
<1>11. QED
  BY <1>5, <1>9, <1>10

\* read_variable of a helper: read_index looks up its path.
LEMMA IndexRead == BodyInv /\ Ledger /\ ReadIndex => Ledger'
<1> SUFFICES ASSUME BodyInv, Ledger, ReadIndex PROVE Ledger'
  OBVIOUS
<1>1. /\ Reading /\ stream # <<>> /\ Head(stream).t = "remote"
      /\ Len(stream) > 1 /\ stream[2].t = "path"
      /\ open' = Push(open, [t |-> "at", names |-> NamesOf(stream[2])])
      /\ stream' = SubSeq(stream, 3, Len(stream))
      /\ UNCHANGED <<graph, kind, phase, sent, todo, count>>
  BY DEF ReadIndex, PathFollows, pathVars
<1>2. PICK R, W, X, G : Reader(stream, sent, open, R, W, X, G)
  BY <1>1, ReaderIs
<1> DEFINE u == Unread(W, open)
           v == Head(u)
           w == [t |-> "at", names |-> NamesOf(stream[2])]
<1>3. u # <<>> /\ v \in Within(sent) /\ RemoteIs(stream, v, sent, u)
  BY <1>1, <1>2, RemoteNext
<1>4. sent \in Seq(Values) /\ Stacked(W, X, G, open, sent)
  BY <1>2 DEF Reader
<1> HIDE DEF u, v
<1>5. /\ v.t = "helper" /\ v.x \in made /\ stream[2] = PathOf(v.x)
      /\ \E Q : Written(stream', 0, Q, sent, <<>>) /\ Q[1] = Tail(u)
  BY <1>1, <1>3 DEF RemoteIs
<1>6. v \in Values /\ v \notin EndMarks /\ v.t # "table"
  BY <1>3, <1>4, <1>5, WithinIs DEF EndMarks, Value
<1>7. w = [t |-> "at", names |-> Reached(v.x)]
  BY <1>5, NamesOfPath DEF BodyInv, ReplayInv
<1>8. Crossed(v, w, X)
  BY <1>5, <1>6, <1>7, Zenon DEF Crossed, Becomes
<1>9. PICK Q, st : st = stream' /\ Written(st, 0, Q, sent, <<>>) /\ Q[1] = Tail(u)
  BY <1>5
<1> HIDE DEF w
<1>10. Taken(st, sent, Push(open, w))
  BY <1>3, <1>4, <1>6, <1>8, <1>9, ValueTaken DEF u, v
<1>11. Taken(stream', sent, open')
  BY <1>1, <1>9, <1>10 DEF w
<1>12. QED
  BY <1>1, <1>11, StillReading

\* A reader is off, for a reason.
LEMMA LedgerMisreads ==
  ASSUME Ledger, phase # "program", phase' = "misread", Off,
         UNCHANGED <<graph, kind, target, sent, todo>>
  PROVE  Ledger'
<1>1. Off'
  BY LedgerStays DEF Off
<1>2. QED
  BY <1>1 DEF Ledger, KindsOK, ListsOK, ArgsOK, ReplyOK, ReadOK, MisreadOK, ValuesArrive

\* read_variable of a helper whose path is no path, or leads nowhere.
LEMMA IndexNotRead == Ledger /\ ReadIndexFails => Ledger'
<1> SUFFICES ASSUME Ledger, ReadIndexFails PROVE Ledger'
  OBVIOUS
<1>1. /\ Reading /\ stream # <<>> /\ Head(stream).t = "remote" /\ phase # "program"
      /\ UNCHANGED <<graph, kind, target, sent, todo>>
      /\ \/ phase' = "misread" /\ ~PathFollows
         \/ phase' \in {"crashed", "raised"}
  BY DEF ReadIndexFails, Stops, pathVars, Reading
<1>2. CASE phase' \in {"crashed", "raised"}
  BY <1>1, <1>2, LedgerEnds
<1>3. CASE phase' = "misread" /\ ~PathFollows
  <2>1. PICK R, W, X, G : Reader(stream, sent, open, R, W, X, G)
    BY <1>1, ReaderIs
  <2> DEFINE u == Unread(W, open)
             v == Head(u)
  <2>2. v \in Within(sent) /\ RemoteIs(stream, v, sent, u)
    BY <1>1, <2>1, RemoteNext
  <2>3. sent \in Seq(Values)
    BY <2>1 DEF Reader
  <2> HIDE DEF u, v
  <2>4. CASE v = Value("elsewhere")
    <3>1. v.t # "table"
      BY <2>4 DEF Value
    <3>2. \E m \in 1..Len(sent) : v \in Leaves(sent[m])
      BY <2>2, <2>3, <3>1, WithinIs
    <3>3. Off
      BY <2>4, <3>2 DEF Off
    <3>4. QED
      BY <1>1, <1>3, <3>3, LedgerMisreads
  <2>5. CASE v # Value("elsewhere")
    <3>1. /\ v.t = "helper" /\ Len(stream) > 1 /\ stream[2] = PathOf(v.x)
      BY <2>2, <2>5 DEF RemoteIs
    <3>2. OffByEnds(v.x)
      <4>1. stream[2].t = "path" /\ (stream[2].fits <=> ~OffByEnds(v.x))
        BY <3>1, FitsOf
      <4>2. QED
        BY <1>3, <3>1, <4>1, Zenon DEF PathFollows
    <3>3. v.t # "table"
      BY <3>1
    <3>4. PICK m \in 1..Len(sent) : v \in Leaves(sent[m])
      BY <2>2, <2>3, <3>3, WithinIs
    <3>5. v.x \in HelpersIn(sent)
      BY <3>1, <3>4 DEF HelpersIn
    <3>6. Off
      BY <3>2, <3>5 DEF Off
    <3>7. QED
      BY <1>1, <1>3, <3>6, LedgerMisreads
  <2>6. QED
    BY <2>4, <2>5
<1>4. QED
  BY <1>1, <1>2, <1>3

\* The path of the request is no path, or leads nowhere.
LEMMA PathNotRead == BodyInv /\ Ledger /\ ReadPathFails => Ledger'
<1> SUFFICES ASSUME BodyInv, Ledger, ReadPathFails PROVE Ledger'
  OBVIOUS
<1>1. /\ phase = "walk" /\ UNCHANGED <<graph, kind, target, sent, todo>>
      /\ \/ phase' = "misread" /\ ~Head(stream).fits
         \/ phase' \in {"crashed", "raised"}
  BY DEF ReadPathFails, Stops, pathVars
<1>2. CASE phase' \in {"crashed", "raised"}
  BY <1>1, <1>2, LedgerEnds
<1>3. CASE phase' = "misread" /\ ~Head(stream).fits
  <2>1. OffByEnds(target)
    BY <1>1, <1>3, TargetFits, Zenon
  <2>2. Off
    BY <2>1 DEF Off
  <2>3. QED
    BY <1>1, <1>3, <2>2, LedgerMisreads
<1>4. QED
  BY <1>1, <1>2, <1>3

\* The list of values is full: there is nothing left in the stream, and all of
\* it is the same.
LEMMA AllTaken ==
  ASSUME NEW st, NEW vs, NEW stack, NEW R, NEW W, NEW X, NEW G,
         Reader(st, vs, stack, R, W, X, G),
         Len(stack) = 1, Len(stack[1].got) = Len(vs)
  PROVE  st = <<>> /\ \A m \in 1..Len(vs) : Same(vs[m], stack[1].got[m])
<1>1. /\ vs \in Seq(Values) /\ Written(st, 0, R, vs, <<>>) /\ R[1] = Unread(W, stack)
      /\ Stacked(W, X, G, stack, vs)
  BY DEF Reader
<1>2. /\ W[1] = vs
      /\ \A m \in 1..Len(stack[1].got) : <<W[1][m], stack[1].got[m]>> \in X
      /\ \A u, y : <<u, y>> \in X => Crossed(u, y, X)
  <2>1. 1 \in 1..Len(stack)
    OBVIOUS
  <2>2. QED
    BY <1>1, <2>1, Zenon DEF Stacked
<1>3. Unread(W, stack) = Rest(vs, Len(vs))
  BY <1>2 DEF Unread, Read
<1>4. Rest(vs, Len(vs)) = <<>>
  <2>1. Len(vs) \in 0..Len(vs)
    BY <1>1, LenProperties
  <2>2. QED
    BY <1>1, <2>1, RestIs
<1>5. st = <<>>
  BY <1>1, <1>3, <1>4, WrittenOut
<1>6. ASSUME NEW m \in 1..Len(vs) PROVE Same(vs[m], stack[1].got[m])
  <2>1. vs[m] \in Values
    BY <1>1
  <2>2. <<vs[m], stack[1].got[m]>> \in X
    BY <1>2
  <2>3. QED
    BY <1>2, <2>1, <2>2, SameIs
<1>7. QED
  BY <1>5, <1>6

\* The reader is done with the list.
LEMMA AllRead == Ledger /\ ReadAll => Ledger'
<1> SUFFICES ASSUME Ledger, ReadAll PROVE Ledger'
  OBVIOUS
<1>1. /\ phase \in {"values", "reply"} /\ open # <<>> /\ phase' \in {"ran", "done"}
      /\ Len(open) = 1 /\ Len(open[1].got) = count
      /\ UNCHANGED <<graph, kind, sent, todo, stream, open>>
  BY DEF ReadAll, pathVars
<1>2. count = Len(sent) /\ Taken(stream, sent, open) /\ sent \in Seq(Values)
  BY <1>1 DEF Ledger, ReadOK, ListsOK
<1>3. PICK R, W, X, G : Reader(stream, sent, open, R, W, X, G)
  BY <1>2, Zenon DEF Taken, Reader
<1>4. stream = <<>> /\ \A m \in 1..Len(sent) : Same(sent[m], open[1].got[m])
  BY <1>1, <1>2, <1>3, AllTaken
<1>5. \A v, w : Same(v, w)' <=> Same(v, w)
  <2>1. \A v, w : Becomes(v, w)' <=> Becomes(v, w)
    BY <1>1, LedgerStays, Zenon DEF Becomes
  <2>2. QED
    BY <2>1, Zenon DEF Same
<1>6. ValuesArrive'
  BY <1>1, <1>2, <1>4, <1>5 DEF ValuesArrive
<1>7. QED
  BY <1>1, <1>6 DEF Ledger, KindsOK, ListsOK, ArgsOK, ReplyOK, ReadOK, MisreadOK

\* There is something in the stream as long as something is to be read.
LEMMA StreamFeeds ==
  ASSUME Ledger, Reading
  PROVE  stream # <<>>
<1>1. PICK R, W, X, G : Reader(stream, sent, open, R, W, X, G)
  BY ReaderIs
<1>2. /\ sent \in Seq(Values) /\ Written(stream, 0, R, sent, <<>>)
      /\ R[1] = Unread(W, open) /\ Stacked(W, X, G, open, sent)
  BY <1>1 DEF Reader
<1> DEFINE n == Len(open)
           g == Read(open)
<1>3. /\ n \in Nat \ {0}
      /\ \A k \in 1..n : /\ W[k] \in Seq(Items(sent)) /\ Len(W[k]) \in Nat
                         /\ Len(open[k].got) \in 0..Len(W[k])
  BY <1>2, StackTypes
<1>4. g = Len(open[n].got)
  BY DEF Read
<1>5. W[1] = sent /\ \A k \in 2..n : Entered(W[k - 1], open[k - 1], W[k], open[k])
  BY <1>2 DEF Stacked
<1>6. g # Len(W[n])
  <2>1. CASE n = 1
    <3>1. count = Len(sent) /\ Len(open[1].got) < count
      BY <2>1, ReaderIs DEF Reading
    <3>2. g < Len(W[n]) /\ g \in Nat /\ Len(W[n]) \in Nat
      BY <1>3, <1>4, <1>5, <2>1, <3>1
    <3> HIDE DEF g, n
    <3>3. QED
      BY <3>2
  <2>2. CASE n # 1
    <3>1. n \in 2..n /\ n - 1 \in 1..n /\ n \in 1..n
      <4> HIDE DEF n
      <4>1. QED
        BY <1>3, <2>2
    <3> DEFINE V == W[n - 1]
               h == Len(open[n - 1].got)
    <3>2. Inner(sent, V, h, W[n], Len(open[n].got))
      BY <1>2, <1>3, <1>5, <3>1, EnteredFacts
    <3> HIDE DEF V, h
    <3> DEFINE P == Pieces(V[h + 1])
               z == Rest(V, h + 1)
    <3>3. /\ P \in Seq(Items(sent)) /\ z \in Seq(Items(sent)) /\ W[n] = P \o z
          /\ g \in Nat /\ g + 1 \in 1..Len(P) /\ Len(P) \in Nat
      BY <1>4, <3>2, Zenon DEF Inner
    <3> HIDE DEF P, z, g, n
    <3>4. Len(W[n]) = Len(P) + Len(z) /\ Len(z) \in Nat
      BY <3>3, RestOfConcat
    <3>5. QED
      BY <3>3, <3>4
  <2>3. QED
    BY <2>1, <2>2
<1>7. Unread(W, open) # <<>>
  <2>1. n \in 1..n
    BY <1>3
  <2> DEFINE L == W[n]
  <2>2. L \in Seq(Items(sent)) /\ g \in 0..Len(L) /\ g # Len(L)
    BY <1>3, <1>4, <1>6, <2>1
  <2>3. Unread(W, open) = Rest(L, g)
    BY DEF Unread
  <2> HIDE DEF L, g, n
  <2>4. QED
    BY <2>2, <2>3, RestIs
<1>8. QED
  BY <1>2, <1>7, WrittenOut

-----------------------------------------------------------------------------
\* The theorems.

\* Every step keeps the ledger.
LEMMA LedgerStepKeeps == BodyInv /\ Ledger /\ [BodyNext]_allVars => Ledger'
<1> SUFFICES ASSUME BodyInv, Ledger, [BodyNext]_allVars PROVE Ledger'
  OBVIOUS
<1>1. CASE UNCHANGED allVars
  BY <1>1, LedgerStutters DEF allVars, pathVars, loop
<1>2. CASE Index
  <2>1. phase' = "program" /\ UNCHANGED <<sent, todo>>
    BY <1>2 DEF Index, bodyVars
  <2>2. QED
    BY <2>1
       DEF Ledger, KindsOK, ListsOK, ArgsOK, ReplyOK, ReadOK, MisreadOK, ValuesArrive
<1>3. ASSUME NEW k \in Kinds, NEW x \in Helpers, Request(k, x) PROVE Ledger'
  <2>1. phase' = "path" /\ kind' = k /\ UNCHANGED <<sent, todo>>
    BY <1>3 DEF Request
  <2>2. k \in {"call", "get", "newindex"}
    BY BodyAssumption
  <2>3. QED
    BY <2>1, <2>2
       DEF Ledger, KindsOK, ListsOK, ArgsOK, ReplyOK, ReadOK, MisreadOK, ValuesArrive
<1>4. CASE Replay
  <2>1. UNCHANGED bodyVars /\ UNCHANGED graph /\ of' = of /\ (at' = "idle" => at = "idle")
    BY <1>4 DEF Replay, AddLength, WriteLength, WriteName, WriteLast
  <2>2. QED
    BY <2>1, LedgerStutters
<1>5. CASE EndPath \/ Flush \/ Reply
  BY <1>5, ArgumentsStart, BodyFlushed, HandlerReplies
<1>6. CASE WriteVariable \/ WriteElsewhere \/ WriteHelper \/ EndHelper
  BY <1>6, VariableWritten, ElsewhereWritten, HelperStarted, HelperWritten
<1>7. CASE Unsendable \/ PairRaises \/ SetRaises
  <2>1. /\ phase # "program" /\ phase' \in {"unsent", "raised"}
        /\ UNCHANGED <<kind, sent, todo>>
    BY <1>7 DEF Unsendable, PairRaises, SetRaises, Stops, Writing, Reading
  <2>2. QED
    BY <2>1, LedgerEnds
<1>8. CASE ReadPath \/ ReadPathFails \/ ReadReply
  BY <1>8, ArgumentsRead, PathNotRead, ResultsRead
<1>9. CASE ReadVariable \/ ReadIndex \/ ReadIndexFails \/ ReadAll
  BY <1>9, VariableRead, IndexRead, IndexNotRead, AllRead
<1>10. QED
  BY <1>1, <1>2, <1>3, <1>4, <1>5, <1>6, <1>7, <1>8, <1>9 DEF BodyNext

\* The ledger is kept: between any two bytes write_variable writes or
\* read_variable reads, for any nesting and any paths, what is in the stream and
\* what the two ends hold are the values of the request.
THEOREM LedgerInvariant == BodySpec => []Ledger
<1>1. BodyInit => BodyInv /\ Ledger
  BY BodyStart, LedgerStart
<1>2. BodyInv /\ Ledger /\ [BodyNext]_allVars => BodyInv' /\ Ledger'
  BY BodyStepKeeps, LedgerStepKeeps
<1>3. QED
  BY <1>1, <1>2, PTL DEF BodySpec

\* write_variable and read_variable agree on where each value ends, for every list
\* of values and any nesting of tables: what helper_call, helper_newindex and the
\* handlers read is what the other end sent, but for tables that are copied and
\* functions that come without their upvalues.
THEOREM ValuesCross == BodySpec => []ValuesArrive
<1>1. Ledger => ValuesArrive
  BY DEF Ledger
<1>2. QED
  BY <1>1, LedgerInvariant, PTL

\* A reader looks for a byte that is not there, or takes bytes for what they are
\* not, only after a path whose length helper_remote_index got wrong or after a
\* helper of another handle, which write_variable sends without a path.
THEOREM MisreadsExplained == BodySpec => []MisreadExplained
<1>1. Ledger => MisreadExplained
  <2> SUFFICES ASSUME Ledger, phase = "misread" \/ (Reading /\ stream = <<>>)
               PROVE  Off
    BY DEF MisreadExplained, Off
  <2>1. ~(Reading /\ stream = <<>>)
    BY StreamFeeds
  <2>2. QED
    BY <2>1 DEF Ledger, MisreadOK
<1>2. QED
  BY <1>1, LedgerInvariant, PTL
=============================================================================
