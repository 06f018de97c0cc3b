--------------------------- MODULE MCRequestBody ---------------------------
(***************************************************************************)
(* Values for RequestBody: every type, functions and tables in tables, two *)
(* levels deep, and lists of up to two arguments.  The helpers are alike.  *)
(* The names: one is empty, one is a word, and one as long contains a dot. *)
(***************************************************************************)
EXTENDS RequestBody, TLC

Alike == Permutations(Helpers)

MCNames == {"", "abc", "d.e"}
MCWords ==
  [name \in MCNames |->
     CASE name = ""    -> <<>>
       [] name = "abc" -> <<"abc">>
       [] name = "d.e" -> <<"d", "e">>]

AnyHelper == {HelperValue(x) : x \in Helpers}
Num == Value("num")
Empty == Table(<<>>)
Inner == Table(<< <<Key, Value("fun")>>, <<Num, Value("bool")>> >>)
Outer == Table(<< <<Num, Inner>>, <<Key, Empty>>, <<Value("bool"), Num>> >>)
WithHelper(h) == Table(<< <<Key, h>>, <<h, Value("cfun")>> >>)

MCValues ==
  {Value(t) : t \in Plain \union {"fun", "cfun", "elsewhere", "userdata"}}
  \union AnyHelper \union {WithHelper(h) : h \in AnyHelper}
  \union {Empty, Inner, Outer}
MCNewValues ==
  {Value("nil"), Outer, Value("userdata")} \union AnyHelper
MCCallArgs ==
  {<<>>} \union {<<WithHelper(h)>> : h \in AnyHelper}
  \union {<<v, w>> : v \in {Value("fun"), Outer, Value("elsewhere")} \union AnyHelper,
                     w \in {Value("bool"), Inner}}
MCResults ==
  {<<>>, <<Outer>>, <<Value("nil"), Value("userdata")>>, <<Value("elsewhere")>>,
   <<Value("cfun"), Inner>>}
=============================================================================
