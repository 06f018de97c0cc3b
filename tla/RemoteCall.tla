----------------------------- MODULE RemoteCall -----------------------------
(***************************************************************************)
(* What one connection promises the Lua program that holds its handle: a   *)
(* remote request is executed at most once, never after it was refused to  *)
(* the caller, a caller is told "done" only when the server executed what  *)
(* it asked, and nothing is asked of a connection that has failed.         *)
(* RpcSession, run with a caller that gives a handle up at its first link  *)
(* error, implements this specification.                                   *)
(***************************************************************************)
EXTENDS Naturals, Sequences

CONSTANT MaxReq      \* requests the program makes on the connection

VARIABLES
  n,          \* number of requests made so far
  outcome,    \* what the caller of each request has been told
  ran         \* the executions of each request at the server

vars == <<n, outcome, ran>>

Reqs == 1..MaxReq

Settled == {"ok", "raised", "error", "unsent"}
Outcomes == {"none", "pending"} \union Settled

Init ==
  /\ n = 0
  /\ outcome = [r \in Reqs |-> "none"]
  /\ ran = [r \in Reqs |-> <<>>]

\* A request is made once every earlier one has been answered.  It may fail
\* on the spot.
Issue ==
  /\ n < MaxReq
  /\ \A r \in 1..n : outcome[r] \in {"ok", "raised"}
  /\ n' = n + 1
  /\ \E o \in {"pending", "error"} : outcome' = [outcome EXCEPT ![n + 1] = o]
  /\ UNCHANGED ran

\* The server executes the last request made, as it was asked, and once.
Execute ==
  /\ n > 0
  /\ ran[n] = <<>>
  /\ outcome[n] \in {"pending", "error"}
  /\ ran' = [ran EXCEPT ![n] = <<"asked">>]
  /\ UNCHANGED <<n, outcome>>

\* The caller gets the answer of the request it waits for.
Answer ==
  /\ n > 0
  /\ outcome[n] = "pending"
  /\ ran[n] = <<"asked">>
  /\ \E o \in {"ok", "raised"} : outcome' = [outcome EXCEPT ![n] = o]
  /\ UNCHANGED <<n, ran>>

\* The caller is told of a failure and knows nothing of the execution.
Fail ==
  /\ n > 0
  /\ outcome[n] = "pending"
  /\ outcome' = [outcome EXCEPT ![n] = "error"]
  /\ UNCHANGED <<n, ran>>

\* The arguments cannot be sent: the request is never executed.
Refuse ==
  /\ n > 0
  /\ outcome[n] = "pending"
  /\ ran[n] = <<>>
  /\ outcome' = [outcome EXCEPT ![n] = "unsent"]
  /\ UNCHANGED <<n, ran>>

Next == Issue \/ Execute \/ Answer \/ Fail \/ Refuse

Spec == Init /\ [][Next]_vars
=============================================================================
