---------------------------- MODULE TimeoutBudget ----------------------------
(***************************************************************************)
(* The time that one Transport lets its peer take.  A read or a write that *)
(* would block waits in select for at most tpt->timeout, and select leaves *)
(* there (on Linux) what it has not used.  helper_call sets the field anew *)
(* for each of its stages; helper_get, helper_newindex and the worker do   *)
(* not, and go on with what earlier waits have left.                       *)
(*                                                                         *)
(* Time is counted in units; any negative number stands for a struct       *)
(* timeval that select refuses.  The wait of transport_select in the loop  *)
(* of rpc_server has no limit and is not counted.                          *)
(***************************************************************************)
EXTENDS Integers

CONSTANTS
  Times,      \* what a program gives as a timeout
  Default,    \* com_timeout of transport_create
  MaxPieces   \* bound: how often one stage finds the stream empty (or full)

ASSUME TimesAssumption ==
  /\ Times \subseteq Int /\ Times # {}
  /\ Default \in Nat
  /\ MaxPieces \in Nat

VARIABLES
  role,       \* a handle of rpc.client, or a worker of rpc.server
  stage,      \* what it is doing
  com, wait,  \* com_timeout, wait_timeout
  left,       \* timeout
  granted,    \* what the last call, rpc.client or accept has set it to
  spent,      \* waited since
  here,       \* waited in this stage
  pieces      \* the peer has so many pieces to send or to take in this stage

vars == <<role, stage, com, wait, left, granted, spent, here, pieces>>

\* helper_call sends, waits for the answer and reads its body; helper_get and
\* helper_newindex are one stage, as is a command of rpc_dispatch_worker.
Busy == {"connect", "negotiate", "send", "answer", "body", "get", "command"}
Stages == Busy \union {"new", "idle", "gone"}

Init ==
  /\ role \in {"client", "worker"}
  /\ stage = "new"
  /\ com = Default /\ wait = Default
  /\ left = Default
  /\ granted = Default
  /\ spent = 0 /\ here = 0 /\ pieces = 0

Begin(s) ==
  /\ stage' = s
  /\ here' = 0
  /\ pieces' \in 0..MaxPieces

\* An assignment to tpt->timeout.
Grant(t) ==
  /\ left' = t
  /\ granted' = t
  /\ spent' = 0

Rest == UNCHANGED <<left, granted, spent>>

-----------------------------------------------------------------------------
(* Connections.                                                            *)

\* rpc.client; transport_open_connection sets timeout again.
Client ==
  /\ stage = "new" /\ role = "client"
  /\ com' \in Times /\ wait' \in Times
  /\ Grant(com')
  /\ Begin("connect")
  /\ UNCHANGED role

\* A pending connect is waited for once, and a select that fails is taken for
\* a timeout.
Connect ==
  /\ stage = "connect"
  /\ \/ pieces = 0 /\ Rest
     \/ /\ pieces > 0
        /\ \E t \in 0..left : left' = left - t /\ spent' = spent + t
        /\ UNCHANGED granted
  /\ Begin("negotiate")
  /\ UNCHANGED <<role, com, wait>>

\* rpc_dispatch_accept.
Accept ==
  /\ stage = "new" /\ role = "worker"
  /\ Grant(com)
  /\ Begin("negotiate")
  /\ UNCHANGED <<role, com, wait>>

Negotiated ==
  /\ stage = "negotiate" /\ pieces = 0
  /\ stage' = "idle"
  /\ Rest
  /\ UNCHANGED <<role, com, wait, here, pieces>>

\* rpc.com_timeout, rpc.wait_timeout.
SetTimes ==
  /\ stage = "idle" /\ role = "client"
  /\ \/ com' \in Times /\ UNCHANGED wait
     \/ wait' \in Times /\ UNCHANGED com
  /\ Rest
  /\ UNCHANGED <<role, stage, here, pieces>>

-----------------------------------------------------------------------------
(* Requests.                                                               *)

\* helper_call.
Call ==
  /\ stage = "idle" /\ role = "client"
  /\ Grant(com)
  /\ Begin("send")
  /\ UNCHANGED <<role, com, wait>>

Sent ==
  /\ stage = "send" /\ pieces = 0
  /\ Grant(wait)
  /\ Begin("answer")
  /\ UNCHANGED <<role, com, wait>>

\* Mutant: the return values are read with what is left of wait_timeout.
AnsweredLeft ==
  /\ stage = "answer" /\ pieces = 0
  /\ Rest
  /\ Begin("body")
  /\ UNCHANGED <<role, com, wait>>

Answered ==
  /\ stage = "answer" /\ pieces = 0
  /\ Grant(com)
  /\ Begin("body")
  /\ UNCHANGED <<role, com, wait>>

\* helper_get, helper_newindex.
Get ==
  /\ stage = "idle" /\ role = "client"
  /\ Rest
  /\ Begin("get")
  /\ UNCHANGED <<role, com, wait>>

\* rpc_dispatch_worker.
Dispatch ==
  /\ stage = "idle" /\ role = "worker"
  /\ Rest
  /\ Begin("command")
  /\ UNCHANGED <<role, com, wait>>

\* The last byte has come; or the request ends before: a Lua error, an
\* unexpected byte.
Finish ==
  /\ \/ stage \in {"body", "get", "command"} /\ pieces = 0
     \/ role = "client" /\ stage \in {"send", "answer", "body", "get"}
  /\ stage' = "idle"
  /\ Rest
  /\ UNCHANGED <<role, com, wait, here, pieces>>

-----------------------------------------------------------------------------
(* transport_read_buffer and transport_write_buffer.                       *)

\* Something comes within the time that is left.
Piece ==
  /\ stage \in Busy \ {"connect"}
  /\ pieces > 0
  /\ pieces' = pieces - 1
  /\ \E t \in 0..left :
       left' = left - t /\ spent' = spent + t /\ here' = here + t
  /\ UNCHANGED <<role, stage, com, wait, granted>>

\* select refuses a negative time, and the loop goes round until something
\* comes.
SpunPiece ==
  /\ stage \in Busy \ {"connect"}
  /\ pieces > 0 /\ left < 0
  /\ pieces' = pieces - 1
  /\ UNCHANGED <<role, stage, com, wait, left, granted, spent, here>>

\* What fails in a request of a client leaves the connection as it is, what
\* fails elsewhere ends it.
Survives == role = "client" /\ stage \notin {"connect", "negotiate"}

\* Mutant: select waits a little longer than it was asked to.
TimeoutOverruns ==
  /\ stage \in Busy /\ pieces > 0 /\ left >= 0
  /\ left' = -1 /\ spent' = spent + left + 1 /\ here' = here + left + 1
  /\ stage' = IF Survives THEN "idle" ELSE "gone"
  /\ UNCHANGED <<role, com, wait, granted, pieces>>

\* Mutant: with no time left it tries again.
TimeoutRetries ==
  /\ stage \in Busy /\ pieces > 0 /\ left >= 0
  /\ left' = 0 /\ spent' = spent + left /\ here' = here + left
  /\ UNCHANGED <<role, stage, com, wait, granted, pieces>>

\* Nothing comes (select returns 0).
Timeout ==
  /\ stage \in Busy /\ pieces > 0 /\ left >= 0
  /\ left' = 0 /\ spent' = spent + left /\ here' = here + left
  /\ stage' = IF Survives THEN "idle" ELSE "gone"
  /\ UNCHANGED <<role, com, wait, granted, pieces>>

\* The peer closes, or the connect is refused (a pending one also by a negative
\* time).  Whether later requests on such a handle can succeed is not kept.
HangUp ==
  /\ stage \in Busy
  /\ stage' = IF Survives THEN "idle" ELSE "gone"
  /\ Rest
  /\ UNCHANGED <<role, com, wait, here, pieces>>

Next ==
  \/ Client \/ Connect \/ Accept \/ Negotiated \/ SetTimes
  \/ Call \/ Sent \/ Answered \/ Get \/ Dispatch \/ Finish
  \/ Piece \/ SpunPiece \/ Timeout \/ HangUp

Spec == Init /\ [][Next]_vars

\* Once the bytes of a stage are there the process goes on; and time passes.  No
\* peer has to send anything.
Goes == pieces = 0 /\ (Connect \/ Negotiated \/ Sent \/ Answered \/ Finish)

FairSpec == Spec /\ WF_vars(Goes) /\ WF_vars(Timeout)

-----------------------------------------------------------------------------
\* Only a program makes a time negative.
TypeOK ==
  /\ role \in {"client", "worker"} /\ stage \in Stages
  /\ com \in Times \union {Default} /\ wait \in Times \union {Default}
  /\ granted \in Times \union {Default}
  /\ left \in Int /\ (left < 0 => left = granted)
  /\ spent \in Nat /\ here \in Nat /\ pieces \in 0..MaxPieces

\* A call gives up no stage before the whole of its time has gone by, whatever
\* earlier requests have left: com_timeout to send, wait_timeout for the answer,
\* com_timeout for the values; and connecting has com_timeout.
CallHasItsTime ==
  /\ stage \in {"connect", "send", "body"} => left + here = com
  /\ stage = "answer" => left + here = wait

\* A connect, a request and a command all end, whatever the peer sends or does
\* not send, unless the program has set a negative time.
EveryRequestEnds == stage \in Busy ~> stage \notin Busy \/ left < 0
=============================================================================
