----------------------------- MODULE RemotePath -----------------------------
(***************************************************************************)
(* The name of what a request is about.  Indexing a handle makes a helper, *)
(* indexing a helper makes one that points to it, and helper_remote_index  *)
(* sends what the last one stands for: the length of a string, and the     *)
(* string, its names joined by dots.  The length is summed up in one loop  *)
(* over the chain of parents, backwards, and the names are written in a    *)
(* second one, forwards, so that an action is one round of a loop.         *)
(*                                                                         *)
(* A name is any string: it may be empty, and it may contain dots.         *)
(***************************************************************************)
EXTENDS Naturals, Sequences

CONSTANTS
  Helpers,     \* the helpers the program will ever make
  Names,       \* the names it indexes with
  NoHelper,    \* a null pointer
  Wrap         \* one more than a uint8_t holds: 256 in the code

ASSUME PathAssumption ==
  /\ NoHelper \notin Helpers
  /\ \A name \in Names : Len(name) \in Nat
  /\ Wrap \in Nat \ {0}

VARIABLES
  made,        \* the helpers made
  parent, nparents, funcname,  \* the fields of struct Helper
  said,        \* history: the names with which each helper was indexed
  extent,      \* history: the characters of these, joined by dots
  at,          \* where helper_remote_index is
  of,          \* its argument
  hstack, i, len,              \* its variables
  claimed,     \* the length it has written
  names,       \* the names it has written
  written      \* the characters it has written

graph == <<made, parent, nparents, funcname, said, extent>>
loop == <<at, of, hstack, i, len, claimed, names, written>>
pathVars == <<graph, loop>>

PathInit ==
  /\ made = {}
  /\ parent = [x \in Helpers |-> NoHelper]
  /\ nparents = [x \in Helpers |-> 0]
  /\ funcname = [x \in Helpers |-> NoHelper]
  /\ said = [x \in Helpers |-> <<>>]
  /\ extent = [x \in Helpers |-> 0]
  /\ at = "idle"
  /\ of = NoHelper
  /\ hstack = [k \in 0..Wrap-1 |-> NoHelper]
  /\ i = 0 /\ len = 0 /\ claimed = 0
  /\ names = <<>>
  /\ written = 0

\* handle.name: client_index and helper_create.
Create(x, name) ==
  /\ at = "idle"
  /\ x \notin made
  /\ made' = made \union {x}
  /\ parent' = [parent EXCEPT ![x] = NoHelper]
  /\ nparents' = [nparents EXCEPT ![x] = 0]
  /\ funcname' = [funcname EXCEPT ![x] = name]
  /\ said' = [said EXCEPT ![x] = <<name>>]
  /\ extent' = [extent EXCEPT ![x] = Len(name)]
  /\ UNCHANGED loop

\* nparents is a uint8_t.
NextCount(n) == IF n + 1 = Wrap THEN 0 ELSE n + 1

\* helper.name: helper_index and helper_append.
IndexHelper(y, x, name) ==
  /\ at = "idle"
  /\ y \in made /\ x \notin made
  /\ made' = made \union {x}
  /\ parent' = [parent EXCEPT ![x] = y]
  /\ nparents' = [nparents EXCEPT ![x] = NextCount(nparents[y])]
  /\ funcname' = [funcname EXCEPT ![x] = name]
  /\ said' = [said EXCEPT ![x] = Append(said[y], name)]
  /\ extent' = [extent EXCEPT ![x] = extent[y] + 1 + Len(name)]
  /\ UNCHANGED loop

-----------------------------------------------------------------------------
(* helper_remote_index.                                                    *)

\* Line 804, and line 827 when the helper has no parents.
StartAlone(x) ==
  /\ at = "idle"
  /\ x \in made
  /\ nparents[x] = 0
  /\ of' = x
  /\ claimed' = Len(funcname[x])
  /\ at' = "names"
  /\ UNCHANGED <<graph, hstack, i, len, names, written>>

\* Lines 807 to 809.
StartNested(x) ==
  /\ at = "idle"
  /\ x \in made
  /\ nparents[x] > 0
  /\ of' = x
  /\ hstack' = [hstack EXCEPT ![nparents[x] - 1] = parent[x]]
  /\ len' = Len(funcname[x]) + Len(funcname[parent[x]]) + 1
  /\ i' = nparents[x] - 1
  /\ at' = "lengths"
  /\ UNCHANGED <<graph, claimed, names, written>>

\* The length added in a round: of the helper whose parent was just found.
RoundLength == Len(funcname[hstack[i]])

\* Lines 811 to 815, a round.
AddLength ==
  /\ at = "lengths"
  /\ i > 0
  /\ hstack' = [hstack EXCEPT ![i - 1] = parent[hstack[i]]]
  /\ len' = len + RoundLength + 1
  /\ i' = i - 1
  /\ UNCHANGED <<graph, at, of, claimed, names, written>>

\* Line 817.
WriteLength ==
  /\ at = "lengths"
  /\ i = 0
  /\ claimed' = len
  /\ at' = "names"
  /\ UNCHANGED <<graph, of, hstack, i, len, names, written>>

\* Mutant: the stack is replayed from its last entry.
NextNameLast == hstack[nparents[of] - 1 - i]

NextName == hstack[i]

\* Lines 820 to 824, a round.
WriteName ==
  /\ at = "names"
  /\ i < nparents[of]
  /\ names' = Append(names, funcname[NextName])
  /\ written' = written + Len(funcname[NextName]) + 1
  /\ i' = i + 1
  /\ UNCHANGED <<graph, at, of, hstack, len, claimed>>

\* Line 829.
WriteLast ==
  /\ at = "names"
  /\ i = nparents[of]
  /\ names' = Append(names, funcname[of])
  /\ written' = written + Len(funcname[of])
  /\ at' = "sent"
  /\ UNCHANGED <<graph, of, hstack, i, len, claimed>>

\* helper_remote_index returns, and its variables are gone.
PathDone ==
  /\ at = "sent"
  /\ at' = "idle"
  /\ of' = NoHelper
  /\ hstack' = [k \in 0..Wrap-1 |-> NoHelper]
  /\ i' = 0 /\ len' = 0 /\ claimed' = 0
  /\ names' = <<>>
  /\ written' = 0
  /\ UNCHANGED graph

\* The program indexes and helper_remote_index runs, up to its last line.
PathStep ==
  \/ \E x \in Helpers, name \in Names : Create(x, name)
  \/ \E x, y \in Helpers, name \in Names : IndexHelper(y, x, name)
  \/ \E x \in Helpers : StartAlone(x) \/ StartNested(x)
  \/ AddLength \/ WriteLength \/ WriteName \/ WriteLast

PathNext == PathStep \/ PathDone

PathSpec == PathInit /\ [][PathNext]_pathVars

-----------------------------------------------------------------------------
PathTypeOK ==
  /\ made \subseteq Helpers
  /\ parent \in [Helpers -> Helpers \union {NoHelper}]
  /\ nparents \in [Helpers -> 0..Wrap-1]
  /\ funcname \in [Helpers -> Names \union {NoHelper}]
  /\ said \in [Helpers -> Seq(Names)]
  /\ extent \in [Helpers -> Nat]
  /\ at \in {"idle", "lengths", "names", "sent"}
  /\ of \in Helpers \union {NoHelper}
  /\ hstack \in [0..Wrap-1 -> Helpers \union {NoHelper}]
  /\ i \in 0..Wrap-1
  /\ len \in Nat /\ claimed \in Nat /\ written \in Nat
  /\ names \in Seq(Names)

\* Each round of the first loop adds the length of the helper it starts from,
\* not of the parent it finds: the last parent counts twice and the first not
\* at all.  The length a reader of the path is told is that of the string
\* exactly when these two are equally long, or there is but one.
LengthOffByEnds ==
  at = "sent" =>
    IF nparents[of] = 0 THEN claimed = written
    ELSE claimed + Len(funcname[hstack[0]]) = written + Len(funcname[parent[of]])

\* With fewer parents than nparents can count, the names written are those the
\* program indexed with, in their order, and none is lost: the loops walk a
\* chain of pointers backwards and replay it forwards.
WholePathWritten ==
  at = "sent" /\ Len(said[of]) <= Wrap =>
    /\ names = said[of]
    /\ written = extent[of]

\* PROTOCOL: "string: u32 -- length, u8,u8,u8... -- string bytes".
PathFramed == at = "sent" => claimed = written
=============================================================================
