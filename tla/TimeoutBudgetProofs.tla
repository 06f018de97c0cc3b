------------------------- MODULE TimeoutBudgetProofs -------------------------
(***************************************************************************)
(* For any timeouts a program may give, and however the bytes of the peer  *)
(* are spread in time: who has how long.                                   *)
(***************************************************************************)
EXTENDS TimeoutBudget, TLAPS

\* A worker keeps the com_timeout it has been created with, and makes no calls.
WorkerPlain ==
  role = "worker" => com = Default /\ stage \in {"new", "negotiate", "idle", "command", "gone"}

\* What has gone by since a time was granted has come out of it; a worker is
\* granted one time only.
Ledger ==
  /\ left + spent = granted
  /\ role = "worker" => granted = Default

BudgetInv == TypeOK /\ CallHasItsTime /\ Ledger /\ WorkerPlain

USE TimesAssumption

LEMMA FreshTime ==
  ASSUME NEW t \in Times
  PROVE  t \in Int /\ t + 0 = t
OBVIOUS

LEMMA InitInv == Init => BudgetInv
BY DEF Init, BudgetInv, TypeOK, CallHasItsTime, Ledger, WorkerPlain, Stages, Busy

LEMMA GrantsKeep ==
  BudgetInv /\ (Client \/ Accept \/ Call \/ Sent \/ Answered) => BudgetInv'
<1> SUFFICES ASSUME BudgetInv, Client \/ Accept \/ Call \/ Sent \/ Answered
             PROVE  BudgetInv'
  OBVIOUS
<1> USE DEF BudgetInv, TypeOK, CallHasItsTime, Ledger, WorkerPlain, Stages, Busy,
            Begin, Grant
<1>1. CASE Client
  <2>1. /\ role = "client" /\ role' = role /\ stage' = "connect"
        /\ com' \in Times /\ wait' \in Times /\ left' = com' /\ granted' = com'
        /\ spent' = 0 /\ here' = 0 /\ pieces' \in 0..MaxPieces
    BY <1>1, Zenon DEF Client
  <2>2. com' \in Int /\ com' + 0 = com'
    BY <2>1, FreshTime, Zenon
  <2>3. TypeOK'
    BY <2>1, <2>2, Zenon
  <2>4. CallHasItsTime' /\ Ledger' /\ WorkerPlain'
    BY <2>1, <2>2, Zenon
  <2>5. QED
    BY <2>3, <2>4, Zenon
<1>2. CASE Accept
  BY <1>2 DEF Accept
<1>3. CASE Call
  BY <1>3 DEF Call
<1>4. CASE Sent
  BY <1>4 DEF Sent
<1>5. CASE Answered
  BY <1>5 DEF Answered
<1>6. QED
  BY <1>1, <1>2, <1>3, <1>4, <1>5

LEMMA RestsKeep ==
  BudgetInv /\ (Negotiated \/ SetTimes \/ Get \/ Dispatch \/ Finish \/ HangUp) => BudgetInv'
<1> SUFFICES ASSUME BudgetInv,
                    Negotiated \/ SetTimes \/ Get \/ Dispatch \/ Finish \/ HangUp
             PROVE  BudgetInv'
  OBVIOUS
<1> USE DEF BudgetInv, TypeOK, CallHasItsTime, Ledger, WorkerPlain, Stages, Busy,
            Begin, Rest
<1>1. CASE Negotiated
  BY <1>1 DEF Negotiated
<1>2. CASE SetTimes
  BY <1>2 DEF SetTimes
<1>3. CASE Get
  BY <1>3 DEF Get
<1>4. CASE Dispatch
  BY <1>4 DEF Dispatch
<1>5. CASE Finish
  BY <1>5 DEF Finish
<1>6. CASE HangUp
  BY <1>6 DEF HangUp, Survives
<1>7. QED
  BY <1>1, <1>2, <1>3, <1>4, <1>5, <1>6

LEMMA WaitsKeep ==
  BudgetInv /\ (Connect \/ Piece \/ SpunPiece \/ Timeout) => BudgetInv'
<1> SUFFICES ASSUME BudgetInv, Connect \/ Piece \/ SpunPiece \/ Timeout
             PROVE  BudgetInv'
  OBVIOUS
<1> USE DEF BudgetInv, TypeOK, CallHasItsTime, Ledger, WorkerPlain, Stages, Busy
<1>1. CASE Connect
  BY <1>1 DEF Connect, Begin, Rest
<1>2. CASE Piece
  BY <1>2 DEF Piece
<1>3. CASE SpunPiece
  BY <1>3 DEF SpunPiece
<1>4. CASE Timeout
  BY <1>4 DEF Timeout, Survives
<1>5. QED
  BY <1>1, <1>2, <1>3, <1>4

LEMMA Inductive == BudgetInv /\ [Next]_vars => BudgetInv'
<1> SUFFICES ASSUME BudgetInv, [Next]_vars PROVE BudgetInv'
  OBVIOUS
<1>1. CASE Next
  BY <1>1, GrantsKeep, RestsKeep, WaitsKeep DEF Next
<1>2. CASE UNCHANGED vars
  BY <1>2 DEF vars, BudgetInv, TypeOK, CallHasItsTime, Ledger, WorkerPlain
<1>3. QED
  BY <1>1, <1>2

\* The types, and that waiting never makes a time negative.
THEOREM BudgetTypes == Spec => []TypeOK
<1>1. BudgetInv => TypeOK
  BY DEF BudgetInv
<1>2. QED
  BY <1>1, InitInv, Inductive, PTL DEF Spec

\* No stage of a call gives up early, whatever was waited for before it.
THEOREM CallTimes == Spec => []CallHasItsTime
<1>1. BudgetInv => CallHasItsTime
  BY DEF BudgetInv
<1>2. QED
  BY <1>1, InitInv, Inductive, PTL DEF Spec

\* All that a worker ever waits for its client's bytes is one com_timeout,
\* since rpc_dispatch_worker never sets tpt->timeout again.
THEOREM WorkerPatience ==
  Spec => [](role = "worker" => spent <= Default)
<1>1. BudgetInv => (role = "worker" => spent <= Default)
  BY DEF BudgetInv, Ledger, TypeOK
<1>2. QED
  BY <1>1, InitInv, Inductive, PTL DEF Spec
=============================================================================
