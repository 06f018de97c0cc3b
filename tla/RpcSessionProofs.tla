-------------------------- MODULE RpcSessionProofs --------------------------
(***************************************************************************)
(* RpcSession keeps its types, and, when the program gives a handle up at  *)
(* its first link error, or nothing ever goes wrong, the two ends stay in  *)
(* step: what each stream and each direction of the connection holds is    *)
(* determined by where the client is.  From that follow, for any number of *)
(* requests and both behaviours of the C library, that "ok" means          *)
(* executed, that no stream is written over unread input, that a refused   *)
(* request never runs, that no request ends the server, and that the       *)
(* session implements RemoteCall.                                          *)
(*                                                                         *)
(* The second part is about programs that go on using a handle that        *)
(* failed.                                                                 *)
(***************************************************************************)
EXTENDS RpcSession, SequenceTheorems, TLAPS

\* A request is under way only when one was made.
Asking == cpc \in {"ready", "body", "reply"} => n > 0

TypeInv == TypeOK /\ Asking

\* What was asked so far, and what became of it.  A request follows only
\* requests that were answered, and "unsent" and executed exclude each other.
History ==
  /\ \A r \in Reqs : r > n => outcome[r] = "none" /\ ran[r] = <<>>
  /\ \A r \in Reqs : r < n => outcome[r] \in {"ok", "raised"}
  /\ \A r \in Reqs : ran[r] \in {<<>>, <<"asked">>}
  /\ \A r \in Reqs : outcome[r] \in {"ok", "raised"} =>
                     ran[r] = <<"asked">> /\ answer[r] = r
  /\ \A r \in Reqs : outcome[r] = "unsent" => ran[r] = <<>>
  /\ n > 0 => outcome[n] # "none"
  /\ cpc \in {"ready", "body", "reply"} => n > 0 /\ outcome[n] = "pending"
  /\ cpc = "idle" /\ n > 0 => outcome[n] \in {"ok", "raised"}

\* Where the worker is with the last request; Serving says it has read that
\* request's command, or has gone.
Serving == spc # "idle" /\ (spc = "body" => scmd = Cmd[kind[n]])
CmdSent == n > 0 /\ c2s = <<CmdToken(n)>> /\ sin = <<>> /\ spc # "body"
Waiting == n > 0 /\ c2s = <<>> /\ sin = <<>> /\ Serving
BodySent(b) == n > 0 /\ c2s = <<b>> /\ sin = <<>> /\ Serving
BodyRead(b) == n > 0 /\ c2s = <<>> /\ sin = <<b>> /\ Serving /\ spc = "body"
Done == c2s = <<>> /\ sin = <<>> /\ spc # "body"

\* The whole of the bodies the client may have sent for request n.
Sent(b) ==
  \/ b = Body(n) /\ outcome[n] # "unsent"
  \/ b = CutBody(n) /\ outcome[n] = "unsent" /\ kind[n] # "get"

\* What may be left when the client has lost interest in request n.
Abandoned ==
  \/ Done
  \/ /\ ran[n] = <<>>
     /\ \/ CmdSent /\ outcome[n] # "unsent"
        \/ Waiting
        \/ \E b \in {Body(n), CutBody(n)} :
             Sent(b) /\ (BodySent(b) \/ BodyRead(b))

Lockstep ==
  /\ cin = <<>> /\ ~cjam /\ ~sjam
  /\ spc \in {"idle", "body"} => sopen
  /\ cout # <<>> => /\ cpc \in {"failed", "dead"}
                    /\ cout = <<CutBody(n)>> /\ outcome[n] = "unsent"
                    /\ kind[n] # "get" /\ Waiting
  /\ cpc = "idle" => Done /\ s2c = <<>>
  /\ cpc = "ready" =>
       /\ ran[n] = <<>>
       /\ \/ CmdSent /\ s2c = <<>>
          \/ Waiting /\ s2c \in {<<>>, <<Ready(n)>>}
  /\ cpc = "body" => ran[n] = <<>> /\ Waiting /\ s2c = <<>>
  /\ cpc = "reply" =>
       \/ /\ ran[n] = <<>> /\ s2c = <<>>
          /\ BodySent(Body(n)) \/ BodyRead(Body(n)) \/ Waiting
       \/ /\ ran[n] = <<"asked">> /\ Done
          /\ s2c = <<>> \/ \E rep \in Replies(Cmd[kind[n]], n) : s2c = <<rep>>
  /\ cpc \in {"failed", "closed", "dead"} => Abandoned

\* Nothing fails but what the bytes themselves make fail.
Undisturbed == ~Timeouts /\ Faults = {}

\* The sessions that stay in step.
Disciplined == ClosesOnError \/ Undisturbed

\* Then the program has no error to get over: both ends are there until the
\* program closes its handle.
Untroubled ==
  /\ cpc \notin {"failed", "dead"}
  /\ cpc # "closed" => copen /\ sopen /\ spc \in {"idle", "body"}

\* What ends the server is a Lua error of the program's own, none of the bytes.
Alive == "lua" \notin Faults => spc # "dead"

IInv == TypeInv /\ History /\ Lockstep /\ Alive /\ (Undisturbed => Untroubled)

-----------------------------------------------------------------------------
(* Types.                                                                  *)

\* Part of a channel is a sequence of tokens.
LEMMA SubSeqTokens ==
  ASSUME NEW s \in Seq(Tokens), NEW i \in Nat \ {0}, NEW j \in 0..Len(s)
  PROVE  SubSeq(s, i, j) \in Seq(Tokens)
<1>1. \A k \in i..j : s[k] \in Tokens
  OBVIOUS
<1> QED
  BY <1>1, SubSeqProperties

\* Every token the two ends make is one, and so is a stream they rebuild.
LEMMA TokenTypes ==
  ASSUME TypeOK, NEW r \in Reqs
  PROVE  /\ CmdToken(r) \in Tokens /\ Body(r) \in Tokens
         /\ CutBody(r) \in Tokens /\ Ready(r) \in Tokens
         /\ \A c : Replies(c, r) \subseteq Tokens
         /\ Token("rest", 0, r) \in Tokens
BY SessionAssumption DEF TypeOK, CmdToken, Body, CutBody, Ready, Replies, Token,
   Tokens, Cmd, AllKinds, CMD_CALL, CMD_GET, CMD_NEWINDEX, READY

\* What the first byte of a token leaves is a sequence of tokens.
LEMMA AfterFirstByteType ==
  ASSUME NEW tok \in Tokens
  PROVE  AfterFirstByte(tok) \in Seq(Tokens)
<1>1. tok.r \in Reqs
  BY DEF Tokens
<1>2. Token("rest", 0, tok.r) \in Tokens
  BY <1>1 DEF Token, Tokens
<1> QED
  BY <1>2 DEF AfterFirstByte

\* The types hold at the start.
LEMMA TypeInit == Init => TypeInv
<1> SUFFICES ASSUME Init PROVE TypeInv
  OBVIOUS
<1>1. <<>> \in Seq(Tokens) /\ <<>> \in Seq({"asked", "garbled"})
  OBVIOUS
<1>2. 0 \in 0..MaxReq
  BY SessionAssumption
<1> QED
  BY <1>1, <1>2 DEF Init, TypeOK, TypeInv, Asking

\* What is written to the connection is a sequence of tokens.
LEMMA SendType ==
  ASSUME c2s \in Seq(Tokens), NEW toks \in Seq(Tokens), Send(toks)
  PROVE  c2s' \in Seq(Tokens)
BY ConcatProperties DEF Send

\* The client keeps the types.
LEMMA TypeClient == TypeInv /\ ClientStep => TypeInv'
<1> SUFFICES ASSUME TypeInv, ClientStep PROVE TypeInv'
  OBVIOUS
<1>0. <<>> \in Seq(Tokens) /\ <<>> \in Seq({"asked", "garbled"})
  OBVIOUS
<1> USE <1>0 DEF TypeInv, TypeOK, Asking, clientVars, serverVars
<1>1. CASE StartRequest
  <2>1. n + 1 \in Reqs /\ n + 1 \in 0..MaxReq
    BY <1>1, SessionAssumption DEF StartRequest, Reqs
  <2>2. cout \o <<CmdToken(n + 1)>> \in Seq(Tokens)
    BY <2>1, TokenTypes, ConcatProperties
  <2>3. c2s' \in Seq(Tokens) /\ cout' \in Seq(Tokens) /\ cjam' \in BOOLEAN
    BY <1>1, <2>2, SendType DEF StartRequest
  <2>4. outcome' \in [Reqs -> {"none", "pending", "ok", "raised", "error", "unsent"}]
    BY <1>1, <2>1 DEF StartRequest, Settle
  <2>5. cpc' \in {"ready", "failed", "idle"} /\ n' = n + 1 /\ cin' = <<>>
    BY <1>1 DEF StartRequest, Settle
  <2> QED
    BY <1>1, <2>1, <2>3, <2>4, <2>5 DEF StartRequest
<1>2. CASE ReadReady
  <2>1. PICK m \in 1..Len(s2c) :
          /\ s2c' = SubSeq(s2c, m + 1, Len(s2c))
          /\ cin' = AfterFirstByte(s2c[1]) \o SubSeq(s2c, 2, m)
    BY <1>2 DEF ReadReady
  <2>2. s2c[1] \in Tokens
    BY <2>1
  <2>3. SubSeq(s2c, m + 1, Len(s2c)) \in Seq(Tokens) /\ SubSeq(s2c, 2, m) \in Seq(Tokens)
    BY <2>1, SubSeqTokens
  <2>4. AfterFirstByte(s2c[1]) \in Seq(Tokens)
    BY <2>2, AfterFirstByteType
  <2>5. cin' \in Seq(Tokens)
    BY <2>1, <2>3, <2>4
  <2> QED
    BY <1>2, <2>1, <2>3, <2>5 DEF ReadReady, Settle
<1>3. CASE SendBody
  <2>1. n \in Reqs
    BY <1>3 DEF SendBody, Reqs
  <2>2. <<Body(n)>> \in Seq(Tokens)
    BY <2>1, TokenTypes
  <2>3. c2s' \in Seq(Tokens) /\ cjam' \in BOOLEAN
    BY <1>3, <2>2, SendType DEF SendBody
  <2> QED
    BY <1>3, <2>1, <2>3 DEF SendBody, Settle
<1>4. CASE MarshalFails
  <2>1. n \in Reqs
    BY <1>4 DEF MarshalFails, Reqs
  <2>2. <<CutBody(n)>> \in Seq(Tokens)
    BY <2>1, TokenTypes
  <2> QED
    BY <1>4, <2>1, <2>2 DEF MarshalFails, Settle
<1>5. CASE ReadReply
  <2>1. PICK m \in 1..Len(s2c) :
          /\ s2c' = SubSeq(s2c, m + 1, Len(s2c))
          /\ cin' = Unread(kind[n], s2c[1]) \o SubSeq(s2c, 2, m)
    BY <1>5 DEF ReadReply
  <2>2. s2c[1] \in Tokens /\ s2c[1].r \in 0..MaxReq
    BY <2>1 DEF Tokens, Reqs
  <2>3. SubSeq(s2c, m + 1, Len(s2c)) \in Seq(Tokens) /\ SubSeq(s2c, 2, m) \in Seq(Tokens)
    BY <2>1, SubSeqTokens, SMTT(20)
  <2>4. Unread(kind[n], s2c[1]) \in Seq(Tokens)
    BY <2>2, AfterFirstByteType DEF Unread
  <2>5. cin' \in Seq(Tokens)
    BY <2>1, <2>3, <2>4
  <2>6. answer' \in [Reqs -> 0..MaxReq]
    BY <1>5, <2>2 DEF ReadReply
  <2> QED
    BY <1>5, <2>1, <2>3, <2>5, <2>6 DEF ReadReply, Settle
<1>6. CASE MisreadReply
  BY <1>6 DEF MisreadReply, Settle
<1>7. CASE ClientTimeout
  BY <1>7 DEF ClientTimeout, Settle
<1>8. CASE ClientEof
  BY <1>8 DEF ClientEof, Settle
<1>9. CASE Close
  <2>1. c2s' \in Seq(Tokens)
    BY <1>9, SendType DEF Close
  <2> QED
    BY <1>9, <2>1 DEF Close
<1>10. CASE ClientCrash
  BY <1>10 DEF ClientCrash
<1> QED
  BY <1>1, <1>2, <1>3, <1>4, <1>5, <1>6, <1>7, <1>8, <1>9, <1>10 DEF ClientStep

\* An execution and its reply keep the types.
LEMMA ExecuteType ==
  ASSUME TypeOK, NEW r \in Reqs, NEW how \in {"asked", "garbled"}, Execute(r, how)
  PROVE  ran' \in [Reqs -> Seq({"asked", "garbled"})]
<1>1. Append(ran[r], how) \in Seq({"asked", "garbled"})
  BY AppendProperties DEF TypeOK
<1>2. ran' = [ran EXCEPT ![r] = Append(ran[r], how)]
  BY DEF Execute
<1> QED
  BY <1>1, <1>2 DEF TypeOK

LEMMA ReplyType ==
  ASSUME TypeOK, NEW r \in Reqs, NEW left, Reply(r, left)
  PROVE  s2c' \in Seq(Tokens) /\ sjam' \in BOOLEAN
<1>1. Replies(scmd, r) \subseteq Tokens
  BY TokenTypes
<1>2. \A rep \in Tokens : Append(s2c, rep) \in Seq(Tokens)
  BY AppendProperties DEF TypeOK
<1>3. s2c' = s2c \/ \E rep \in Replies(scmd, r) : s2c' = Append(s2c, rep)
  BY DEF Reply
<1>4. s2c' \in Seq(Tokens)
  BY <1>1, <1>2, <1>3 DEF TypeOK
<1>5. sjam' \in BOOLEAN
  BY DEF Reply, TypeOK
<1> QED
  BY <1>4, <1>5

\* The worker keeps the types.
LEMMA TypeServer == TypeInv /\ ServerStep => TypeInv'
<1> SUFFICES ASSUME TypeInv, ServerStep PROVE TypeInv'
  OBVIOUS
<1>0. <<>> \in Seq(Tokens) /\ <<>> \in Seq({"asked", "garbled"})
  OBVIOUS
<1> USE <1>0 DEF TypeInv, TypeOK, Asking, clientVars, serverVars
<1>1. CASE DispatchJammed
  BY <1>1 DEF DispatchJammed, Reap
<1>2. CASE Dispatch
  <2>1. PICK m \in 1..Len(c2s) : c2s' = SubSeq(c2s, m + 1, Len(c2s))
    BY <1>2 DEF Dispatch
  <2>2. c2s[1] \in Tokens /\ c2s' \in Seq(Tokens)
    BY <2>1, SubSeqTokens
  <2>3. c2s[1].r \in Reqs /\ scmd' \in {0, CMD_CALL, CMD_GET, CMD_NEWINDEX}
    BY <1>2, <2>2 DEF Dispatch, Tokens
  <2>4. Ready(c2s[1].r) \in Tokens
    BY <2>3, TokenTypes
  <2>5. Append(s2c, Ready(c2s[1].r)) \in Seq(Tokens)
    BY <2>4, AppendProperties
  <2>6. s2c' \in Seq(Tokens) /\ sjam' \in BOOLEAN /\ sopen' \in BOOLEAN
        /\ spc' \in {"idle", "body", "closed", "dead"} /\ sin' = <<>>
    BY <1>2, <2>5 DEF Dispatch, Reap
  <2> QED
    BY <1>2, <2>2, <2>3, <2>6 DEF Dispatch
<1>3. CASE ServerReads
  <2>1. PICK m \in 1..Len(c2s) : /\ c2s' = SubSeq(c2s, m + 1, Len(c2s))
                                 /\ sin' = sin \o SubSeq(c2s, 1, m)
    BY <1>3 DEF ServerReads
  <2>2. c2s' \in Seq(Tokens) /\ SubSeq(c2s, 1, m) \in Seq(Tokens)
    BY <2>1, SubSeqTokens
  <2>3. sin' \in Seq(Tokens)
    BY <2>1, <2>2
  <2> QED
    BY <1>3, <2>2, <2>3 DEF ServerReads
<1>4. CASE Run
  <2>1. sin[1].r \in Reqs
    BY <1>4 DEF Run, CanRun, Tokens
  <2>2. HowRun(scmd, sin[1]) \in {"asked", "garbled"}
    BY DEF HowRun
  <2>3. ran' \in [Reqs -> Seq({"asked", "garbled"})]
    BY <1>4, <2>1, <2>2, ExecuteType DEF Run
  <2>4. s2c' \in Seq(Tokens) /\ sjam' \in BOOLEAN
    BY <1>4, <2>1, ReplyType DEF Run
  <2> QED
    BY <1>4, <2>3, <2>4 DEF Run, EndCommand
<1>5. CASE RunRaises
  <2>1. \A i \in 1..Len(sin) : sin[i].r \in Reqs
    BY DEF Tokens
  <2>2. HowRun(scmd, sin[1]) \in {"asked", "garbled"}
    BY DEF HowRun
  <2>3. CanRun(scmd, sin) => 1 \in 1..Len(sin)
    BY DEF CanRun
  <2>4. \/ ran' = ran
        \/ \E r \in Reqs, how \in {"asked", "garbled"} : Execute(r, how)
    BY <1>5, <2>1, <2>2, <2>3 DEF RunRaises
  <2>5. ran' \in [Reqs -> Seq({"asked", "garbled"})]
    BY <2>4, ExecuteType
  <2> QED
    BY <1>5, <2>5 DEF RunRaises, Die
<1>10. CASE RunGarbled
  <2>1. PICK i \in 1..Len(sin) : \E left : /\ Execute(sin[i].r, "garbled")
                                          /\ Reply(sin[i].r, left)
    BY <1>10 DEF RunGarbled
  <2>2. sin[i].r \in Reqs
    BY DEF Tokens
  <2>3. ran' \in [Reqs -> Seq({"asked", "garbled"})]
    BY <2>1, <2>2, ExecuteType
  <2>4. s2c' \in Seq(Tokens) /\ sjam' \in BOOLEAN
    BY <2>1, <2>2, ReplyType
  <2> QED
    BY <1>10, <2>3, <2>4 DEF RunGarbled, EndCommand
<1>6. CASE ServerCrashes
  BY <1>6 DEF ServerCrashes, Die
<1>7. CASE ServerFatal
  BY <1>7 DEF ServerFatal, Reap, Die
<1>8. CASE ServerTimeout
  BY <1>8 DEF ServerTimeout, Reap
<1>9. CASE ServerEof
  BY <1>9 DEF ServerEof, Reap
<1> QED
  BY <1>1, <1>2, <1>3, <1>4, <1>5, <1>6, <1>7, <1>8, <1>9, <1>10 DEF ServerStep

\* Every step keeps the types.
LEMMA TypeNext == TypeInv /\ [Next]_vars => TypeInv'
<1>1. TypeInv /\ UNCHANGED vars => TypeInv'
  BY DEF TypeInv, TypeOK, Asking, vars, clientVars, serverVars
<1> QED
  BY <1>1, TypeClient, TypeServer DEF Next

\* Every variable keeps its type: a step of either end leaves streams and
\* channels made of tokens the two ends know.
THEOREM TypeCorrect == Spec => []TypeOK
<1>1. TypeInv => TypeOK
  BY DEF TypeInv
<1> QED
  BY TypeInit, TypeNext, <1>1, PTL DEF Spec

-----------------------------------------------------------------------------
(* The two ends stay in step.                                              *)

\* Reading a channel that holds one flush empties it.
LEMMA SingleFlush ==
  ASSUME NEW t
  PROVE  /\ <<t>> # <<>> /\ <<t>>[1] = t /\ Len(<<t>>) = 1
         /\ \A m \in 1..Len(<<t>>) :
              /\ SubSeq(<<t>>, m + 1, Len(<<t>>)) = <<>>
              /\ SubSeq(<<t>>, 2, m) = <<>>
              /\ SubSeq(<<t>>, 1, m) = <<t>>
         /\ Tail(<<t>>) = <<>>
         /\ <<>> \o <<t>> = <<t>>
         /\ Append(<<>>, t) = <<t>>
<1>1. \A m \in 1..Len(<<t>>) : m = 1
  OBVIOUS
<1>2. SubSeq(<<t>>, 2, 1) = <<>>
  OBVIOUS
<1>3. SubSeq(<<t>>, 1, 1) = <<t>>
  <2>1. <<t>> \in Seq({t}) /\ Len(<<t>>) = 1
    OBVIOUS
  <2> QED
    BY <2>1, SubSeqFull
<1> QED
  BY <1>1, <1>2, <1>3

\* There is nothing to read in an empty one.
LEMMA NothingToRead == \A m \in 1..Len(<<>>) : FALSE
OBVIOUS

\* Nothing has been asked and nothing is under way at the start.
LEMMA LockstepInit == Init => History /\ Lockstep
BY SessionAssumption DEF Init, History, Lockstep, Done, Reqs

\* The reply is always the one the reader expects.
LEMMA NeverMisread ==
  ASSUME TypeInv, History, Lockstep
  PROVE  ~MisreadReply
<1> SUFFICES ASSUME MisreadReply PROVE FALSE
  OBVIOUS
<1>1. cpc = "reply" /\ s2c # <<>>
  BY DEF MisreadReply
<1>2. n \in Reqs
  BY <1>1 DEF History, TypeInv, TypeOK, Reqs
<1>3. kind[n] \in AllKinds
  BY <1>2, SessionAssumption DEF TypeInv, TypeOK
<1>4. \E rep \in Replies(Cmd[kind[n]], n) : s2c = <<rep>>
  BY <1>1 DEF Lockstep
<1>5. PICK rep \in Replies(Cmd[kind[n]], n) : s2c[1] = rep
  BY <1>4
<1>6. TakesAsOk(kind[n], rep) \/ TakesAsError(kind[n], rep)
  BY <1>3, <1>5 DEF Replies, Cmd, CMD_CALL, CMD_GET, CMD_NEWINDEX,
     AllKinds, Token, TakesAsOk, TakesAsError
<1> QED BY <1>5, <1>6 DEF MisreadReply

\* The steps of the client; one that fails is followed by no request.
LEMMA LockstepClient ==
  ASSUME TypeInv, History, Lockstep, ClientStep,
         MarshalFails \/ ClientTimeout \/ ClientEof => ClosesOnError
  PROVE  History' /\ Lockstep'
<1> USE DEF clientVars, serverVars
<1>1. CASE StartRequest
  <2>1. /\ Done /\ s2c = <<>> /\ cout = <<>> /\ cin = <<>> /\ ~cjam /\ ~sjam
        /\ spc \in {"idle", "body"} => sopen
    BY <1>1 DEF StartRequest, Lockstep
  <2>2. ~WriteJams(cjam, cin)
    BY <2>1 DEF WriteJams
  <2>3. /\ Send(<<>> \o <<CmdToken(n + 1)>>) /\ cout' = <<>> /\ cpc' = "ready"
        /\ outcome' = [outcome EXCEPT ![n + 1] = "pending"]
        /\ cjam' = cjam /\ n' = n + 1 /\ cin' = <<>>
        /\ UNCHANGED <<kind, answer, s2c, spc, scmd, sin, sjam, sopen, ran>>
    BY <1>1, <2>1, <2>2 DEF StartRequest
  <2>4. n + 1 \in Reqs /\ n \in Nat
    BY <1>1, SessionAssumption DEF StartRequest, Reqs, TypeInv, TypeOK
  <2>5. ran[n + 1] = <<>>
    BY <2>4 DEF History
  <2>6. n > 0 => outcome[n] \in {"ok", "raised"}
    BY <1>1 DEF History, StartRequest
  <2>7. History'
    BY <2>3, <2>4, <2>5, <2>6 DEF History, TypeInv, TypeOK, Reqs
  <2>8. c2s' = <<CmdToken(n + 1)>> \/ (c2s' = <<>> /\ ~sopen)
    BY <2>1, <2>3, SingleFlush DEF Send, Done
  <2>9. CmdSent' \/ Waiting'
    BY <2>1, <2>3, <2>4, <2>8 DEF CmdSent, Waiting, Serving, Done, CmdToken,
       TypeInv, TypeOK
  <2> QED
    BY <2>1, <2>3, <2>5, <2>7, <2>9 DEF Lockstep
<1>2. CASE ReadReady
  <2>1. /\ n > 0 /\ outcome[n] = "pending" /\ ran[n] = <<>>
        /\ Waiting /\ s2c = <<Ready(n)>>
    BY <1>2, NothingToRead DEF ReadReady, Lockstep, History
  <2>2. /\ s2c[1] = Ready(n) /\ s2c' = <<>>
        /\ cin' = AfterFirstByte(Ready(n)) \o <<>>
    BY <1>2, <2>1, SingleFlush DEF ReadReady
  <2>3. cin' = <<>>
    BY <2>2 DEF AfterFirstByte, Ready, Token
  <2>4. /\ cpc' = "body" /\ outcome' = outcome
        /\ UNCHANGED <<kind, n, answer, cout, cjam, c2s, spc, scmd, sin, sjam,
                       sopen, ran>>
    BY <1>2, <2>2 DEF ReadReady, Ready, Token
  <2>5. History'
    BY <2>1, <2>4 DEF History, Reqs
  <2>6. cout = <<>>
    BY <1>2 DEF Lockstep, ReadReady
  <2> QED
    BY <2>1, <2>2, <2>3, <2>4, <2>5, <2>6 DEF Lockstep, Waiting, Serving
<1>3. CASE SendBody
  <2>1. /\ n > 0 /\ outcome[n] = "pending" /\ ran[n] = <<>>
        /\ Waiting /\ s2c = <<>> /\ cin = <<>> /\ ~cjam /\ ~sjam /\ cout = <<>>
    BY <1>3 DEF SendBody, Lockstep, History
  <2>2. ~WriteJams(cjam, cin)
    BY <2>1 DEF WriteJams
  <2>3. /\ Send(<<Body(n)>>) /\ cpc' = "reply" /\ cin' = <<>>
        /\ UNCHANGED <<kind, n, outcome, answer, cout, cjam, s2c, spc, scmd, sin,
                       sjam, sopen, ran>>
    BY <1>3, <2>2 DEF SendBody
  <2>4. c2s' \in {<<>>, <<Body(n)>>}
    BY <2>1, <2>3, SingleFlush DEF Send, Waiting
  <2>5. History'
    BY <2>1, <2>3 DEF History, Reqs
  <2>6. Waiting' \/ BodySent(Body(n))'
    BY <2>1, <2>3, <2>4 DEF Waiting, BodySent, Serving, Body, Token
  <2> QED
    BY <2>1, <2>3, <2>5, <2>6 DEF Lockstep
<1>4. CASE MarshalFails
  <2>1. /\ n > 0 /\ outcome[n] = "pending" /\ ran[n] = <<>>
        /\ Waiting /\ s2c = <<>> /\ cin = <<>> /\ ~cjam /\ ~sjam
    BY <1>4 DEF MarshalFails, Lockstep, History
  <2>2. ~WriteJams(cjam, cin)
    BY <2>1 DEF WriteJams
  <2>3. /\ cout' = <<CutBody(n)>> /\ cpc' = "failed" /\ cin' = <<>>
        /\ outcome' = [outcome EXCEPT ![n] = "unsent"] /\ kind[n] # "get"
        /\ UNCHANGED <<kind, n, answer, cjam, c2s, s2c, spc, scmd, sin,
                       sjam, sopen, ran>>
    BY <1>4, <2>2 DEF MarshalFails, Settle
  <2>4. n \in Reqs /\ n \in Nat
    BY <2>1 DEF TypeInv, TypeOK, Reqs
  <2>5. History'
    BY <2>1, <2>3, <2>4 DEF History, Reqs, TypeInv, TypeOK
  <2>6. Waiting' /\ outcome'[n] = "unsent"
    BY <2>1, <2>3, <2>4 DEF Waiting, Serving, TypeInv, TypeOK
  <2> QED
    BY <2>1, <2>3, <2>5, <2>6 DEF Lockstep, Abandoned, CutBody, Token
<1>5. CASE ReadReply
  <2>1. /\ n > 0 /\ outcome[n] = "pending" /\ ran[n] = <<"asked">> /\ Done
        /\ cout = <<>> /\ n \in Reqs
    BY <1>5, NothingToRead
       DEF ReadReply, Lockstep, History, TypeInv, TypeOK, Reqs
  <2>2. PICK rep \in Replies(Cmd[kind[n]], n) : s2c = <<rep>>
    BY <1>5, NothingToRead, <2>1 DEF ReadReply, Lockstep
  <2>3. /\ s2c[1] = rep /\ s2c' = <<>> /\ cin' = Unread(kind[n], rep) \o <<>>
    BY <1>5, <2>2, SingleFlush DEF ReadReply
  <2>4. kind[n] \in AllKinds
    BY <2>1, SessionAssumption DEF TypeInv, TypeOK
  <2>5. rep.r = n
    BY <2>2 DEF Replies, Token
  <2>6. Unread(kind[n], rep) = <<>>
    BY <2>2, <2>4 DEF Unread, AfterFirstByte, Replies, Token, Cmd, AllKinds,
       CMD_CALL, CMD_GET, CMD_NEWINDEX
  <2> DEFINE settled == \/ outcome' = [outcome EXCEPT ![n] = "ok"]
                        \/ outcome' = [outcome EXCEPT ![n] = "raised"]
  <2>7. /\ Settle(n, "ok") => cpc' = "idle" /\ settled
        /\ Settle(n, "raised") => cpc' = "idle" /\ settled
    BY DEF Settle
  <2>8. /\ cin' = <<>> /\ cpc' = "idle" /\ answer' = [answer EXCEPT ![n] = n]
        /\ \/ outcome' = [outcome EXCEPT ![n] = "ok"]
           \/ outcome' = [outcome EXCEPT ![n] = "raised"]
        /\ UNCHANGED <<kind, n, cout, cjam, c2s, spc, scmd, sin, sjam, sopen, ran>>
    BY <1>5, <2>3, <2>5, <2>6, <2>7 DEF ReadReply
  <2>9. History'
    BY <2>1, <2>8, ZenonT(30) DEF History, Reqs, TypeInv, TypeOK
  <2> QED
    BY <2>1, <2>3, <2>8, <2>9 DEF Lockstep, Done
<1>6. ASSUME \/ MisreadReply
             \/ ClientTimeout
             \/ ClientEof
      PROVE  History' /\ Lockstep'
  <2>0. ~MisreadReply
    BY NeverMisread
  <2>1. /\ n > 0 /\ outcome[n] = "pending" /\ cpc \in {"ready", "reply"}
        /\ cout = <<>> /\ n \in Reqs
    BY <1>6 DEF MisreadReply, ClientTimeout, ClientEof, Lockstep, History,
       TypeInv, TypeOK, Reqs
  <2>2. /\ cpc' = "failed" /\ outcome' = [outcome EXCEPT ![n] = "error"]
        /\ UNCHANGED <<kind, n, answer, cin, cout, cjam, c2s, spc, scmd, sin,
                       sjam, sopen, ran>>
    BY <1>6, <2>0 DEF ClientTimeout, ClientEof, Settle
  <2>3. History'
    BY <2>1, <2>2 DEF History, Reqs, TypeInv, TypeOK
  <2>4. /\ outcome'[n] = "error"
        /\ \/ Done
           \/ ran[n] = <<>> /\ (CmdSent \/ Waiting \/ BodySent(Body(n)) \/ BodyRead(Body(n)))
    BY <2>1, <2>2 DEF Lockstep, TypeInv, TypeOK
  <2>5. \/ Done'
        \/ ran'[n] = <<>> /\ (CmdSent' \/ Waiting' \/ BodySent(Body(n))' \/ BodyRead(Body(n))')
    BY <2>2, <2>4 DEF Done, CmdSent, Waiting, BodySent, BodyRead, Serving,
       CmdToken, Body, Token
  <2> QED
    BY <2>1, <2>2, <2>3, <2>4, <2>5 DEF Lockstep, Abandoned, Sent
<1>7. CASE Close
  <2>1. /\ cpc \in {"idle", "failed"} /\ cpc' = "closed" /\ cout' = <<>>
        /\ UNCHANGED <<kind, n, outcome, answer, cin, cjam, s2c, spc, scmd, sin,
                       sjam, sopen, ran>>
        /\ Send(cout)
    BY <1>7 DEF Close, Lockstep
  <2>2. History'
    BY <2>1 DEF History, Reqs
  <2>3. CASE cout = <<>>
    <3>1. c2s' = c2s
      BY <2>1, <2>3, ConcatEmptySeq DEF Send, TypeInv, TypeOK
    <3>2. Abandoned
      BY <2>1 DEF Lockstep, Abandoned
    <3>3. Abandoned'
      BY <2>1, <3>1, <3>2 DEF Abandoned, Done, CmdSent, Waiting, BodySent,
         BodyRead, Serving, CmdToken, Body, CutBody, Token, Sent
    <3> QED
      BY <2>1, <2>2, <3>3 DEF Lockstep
  <2>4. CASE cout # <<>>
    <3>1. /\ cout = <<CutBody(n)>> /\ outcome[n] = "unsent" /\ kind[n] # "get"
          /\ Waiting /\ n \in Reqs
      BY <2>1, <2>4 DEF Lockstep, Waiting, TypeInv, TypeOK, Reqs
    <3>2. c2s' \in {<<>>, <<CutBody(n)>>}
      BY <2>1, <3>1, SingleFlush DEF Send, Waiting
    <3>3. Waiting' \/ (BodySent(CutBody(n))' /\ Sent(CutBody(n))')
      BY <2>1, <3>1, <3>2 DEF Waiting, BodySent, Serving, Sent, CutBody, Token
    <3>4. ran'[n] = <<>>
      BY <2>1, <3>1 DEF History
    <3> QED
      BY <2>1, <2>2, <3>3, <3>4 DEF Lockstep, Abandoned, CutBody, Token
  <2> QED
    BY <2>3, <2>4
<1>8. CASE ClientCrash
  <2>1. /\ cpc' = "dead"
        /\ UNCHANGED <<kind, n, outcome, answer, cin, cout, cjam, c2s, s2c, spc,
                       scmd, sin, sjam, sopen, ran>>
    BY <1>8 DEF ClientCrash
  <2>2. History'
    BY <2>1 DEF History, Reqs
  <2>3. CASE cpc \in {"idle", "ready", "body", "reply"}
    <3>1. Abandoned /\ cout = <<>>
      BY <2>3 DEF Lockstep, Abandoned, History, Sent
    <3>2. Abandoned'
      BY <2>1, <3>1 DEF Abandoned, Done, CmdSent, Waiting, BodySent,
         BodyRead, Serving, CmdToken, Body, CutBody, Token, Sent
    <3> QED
      BY <2>1, <2>2, <3>1, <3>2 DEF Lockstep
  <2>4. CASE cpc \in {"failed", "closed", "dead"}
    <3>1. Abandoned
      BY <2>4 DEF Lockstep
    <3>2. Abandoned' /\ (Waiting => Waiting') /\ CutBody(n)' = CutBody(n)
      BY <2>1, <3>1 DEF Abandoned, Done, CmdSent, Waiting, BodySent,
         BodyRead, Serving, CmdToken, Body, CutBody, Token, Sent
    <3> QED
      BY <2>1, <2>2, <3>2 DEF Lockstep
  <2> QED
    BY <2>3, <2>4 DEF TypeInv, TypeOK
<1> QED
  BY <1>1, <1>2, <1>3, <1>4, <1>5, <1>6, <1>7, <1>8 DEF ClientStep

\* A worker that is reaped or dies leaves the channels as they are.
LEMMA LockstepGone ==
  ASSUME TypeInv, History, Lockstep, Reap \/ Die,
         UNCHANGED <<kind, clientVars, c2s, s2c, sjam>>,
         ran' = ran
  PROVE  History' /\ Lockstep'
<1>1. /\ spc' \in {"closed", "dead"} /\ sin' = <<>>
      /\ UNCHANGED <<kind, n, outcome, answer, cpc, cin, cout, cjam, c2s, s2c,
                     sjam, ran>>
  BY DEF Reap, Die, clientVars
<1>2. History'
  BY <1>1 DEF History, Reqs
<1>3. /\ Done => Done'
      /\ CmdSent => CmdSent'
      /\ Waiting => Waiting'
      /\ BodySent(Body(n)) => BodySent(Body(n))'
      /\ BodySent(CutBody(n)) => BodySent(CutBody(n))'
      /\ BodyRead(Body(n)) => Waiting'
      /\ BodyRead(CutBody(n)) => Waiting'
  BY <1>1 DEF Done, CmdSent, Waiting, BodySent, BodyRead, Serving, CmdToken,
     Body, CutBody, Token
<1>4. /\ Sent(Body(n)) => Sent(Body(n))'
      /\ Sent(CutBody(n)) => Sent(CutBody(n))'
  BY <1>1 DEF Sent, Body, CutBody, Token
<1>5. Abandoned => Abandoned'
  BY <1>1, <1>3, <1>4 DEF Abandoned
<1>6. CutBody(n)' = CutBody(n) /\ Ready(n)' = Ready(n)
      /\ Replies(Cmd[kind[n]], n)' = Replies(Cmd[kind[n]], n)
  BY <1>1 DEF CutBody, Ready, Token, Replies, Cmd
<1> QED
  BY <1>1, <1>2, <1>3, <1>5, <1>6 DEF Lockstep

\* The body a handler executes is the one of the last request, whole, and
\* nothing is behind it.
LEMMA RunsTheBody ==
  ASSUME TypeInv, History, Lockstep, spc = "body", CanRun(scmd, sin)
  PROVE  /\ n \in Reqs /\ sin = <<Body(n)>> /\ c2s = <<>> /\ ran[n] = <<>>
         /\ outcome[n] # "unsent" /\ cout = <<>>
         /\ cpc \in {"reply", "failed", "closed", "dead"}
         /\ cpc = "reply" => s2c = <<>>
         /\ scmd = Cmd[kind[n]]
         /\ LeftOver(scmd, sin) = <<>> /\ HowRun(scmd, sin[1]) = "asked"
<1>1. sin # <<>>
  BY DEF CanRun
<1>2. PICK b \in {Body(n), CutBody(n)} :
        /\ sin = <<b>> /\ c2s = <<>> /\ ran[n] = <<>> /\ Serving /\ n > 0
        /\ cpc # "reply" => Sent(b)
        /\ cpc = "reply" => b = Body(n) /\ s2c = <<>>
  BY <1>1 DEF Lockstep, Abandoned, Done, CmdSent, Waiting, BodySent, BodyRead,
     TypeInv, TypeOK
<1>3. scmd = Cmd[kind[n]] /\ n \in Reqs /\ kind[n] \in AllKinds
  BY <1>2, SessionAssumption DEF Serving, TypeInv, TypeOK, Reqs
<1>4. b # CutBody(n)
  <2> SUFFICES ASSUME b = CutBody(n) PROVE FALSE
    OBVIOUS
  <2>1. kind[n] # "get"
    BY <1>2 DEF Sent, Body, CutBody, Token
  <2>2. scmd # CMD_GET
    BY <1>3, <2>1 DEF Cmd, AllKinds, CMD_CALL, CMD_GET, CMD_NEWINDEX
  <2>3. sin[1].t = "cut" /\ Len(sin) = 1
    BY <1>2, SingleFlush DEF CutBody, Token
  <2> QED
    BY <2>2, <2>3 DEF CanRun
<1>5. b = Body(n)
  BY <1>4
<1>6. outcome[n] # "unsent"
  BY <1>2, <1>5 DEF Sent, History, Body, CutBody, Token
<1>7. cpc \in {"reply", "failed", "closed", "dead"} /\ cout = <<>>
  BY <1>1, <1>2, <1>6 DEF Lockstep, Done, CmdSent, Waiting, TypeInv, TypeOK
<1>8. sin[1] = Body(n) /\ Tail(sin) = <<>>
  BY <1>2, <1>5, SingleFlush
<1>9. LeftOver(scmd, sin) = <<>> /\ HowRun(scmd, sin[1]) = "asked"
  BY <1>3, <1>8 DEF LeftOver, HowRun, Asked, Body, Token
<1> QED
  BY <1>2, <1>3, <1>5, <1>6, <1>7, <1>9

\* A worker in step has its own command's body: the bytes it waits for are
\* never a path that is none, an argument of another command, or a command.
LEMMA BytesAreHarmless ==
  ASSUME TypeInv, History, Lockstep, spc = "body"
  PROVE  /\ ~Crashes(scmd, sin) /\ ~Unreadable(scmd, sin)
         /\ ~CanGarble(scmd, sin)
<1>1. CASE sin = <<>>
  <2>1. ~\E i \in 1..Len(sin) : TRUE
    BY <1>1, NothingToRead
  <2> QED
    BY <1>1, <2>1 DEF Crashes, Unreadable, CanGarble
<1>2. CASE sin # <<>>
  <2>1. PICK b \in {Body(n), CutBody(n)} : sin = <<b>> /\ Serving /\ n > 0
    BY <1>2 DEF Lockstep, Abandoned, Done, CmdSent, Waiting, BodySent, BodyRead,
       TypeInv, TypeOK
  <2>2. scmd = Cmd[kind[n]] /\ kind[n] \in AllKinds
    BY <2>1, SessionAssumption DEF Serving, TypeInv, TypeOK, Reqs
  <2>3. sin[1] = b /\ Len(sin) = 1 /\ b.t # "cmd" /\ b.r = n
    BY <2>1, SingleFlush DEF Body, CutBody, Token
  <2>4. \A i \in 1..Len(sin) : i = 1
    BY <2>3
  <2>5. ~Misread(scmd, sin, 1)
    BY <2>2, <2>3 DEF Misread, Asked
  <2>6. Garbled(scmd, sin, 1) = {}
    <3>1. (2..Len(sin)) = {}
      BY <2>3
    <3> QED
      BY <2>5, <3>1 DEF Garbled
  <2>7. ~NoName(scmd, sin) /\ ~LongPath(sin)
    BY <2>2, <2>3 DEF NoName, LongPath, EmptyPath, Cmd, AllKinds, CMD_CALL, CMD_GET,
       CMD_NEWINDEX
  <2> QED
    BY <2>4, <2>5, <2>6, <2>7 DEF Crashes, Unreadable, CanGarble
<1> QED
  BY <1>1, <1>2

\* The steps of the worker.
LEMMA LockstepServer ==
  ASSUME TypeInv, History, Lockstep, ServerStep
  PROVE  History' /\ Lockstep'
<1>1. CASE DispatchJammed
  BY <1>1 DEF DispatchJammed, Lockstep
<1>2. CASE Dispatch
  <2>1. /\ CmdSent /\ ran[n] = <<>> /\ cpc \in {"ready", "failed", "closed", "dead"}
        /\ cpc = "ready" => s2c = <<>>
        /\ cout = <<>> /\ outcome[n] # "unsent" /\ spc = "idle" /\ sopen /\ ~sjam
    BY <1>2, NothingToRead
       DEF Dispatch, Lockstep, Abandoned, Done, Waiting, BodySent, BodyRead,
           Serving, TypeInv, TypeOK, History
  <2>2. c2s[1] = CmdToken(n) /\ c2s' = <<>> /\ ~WriteJams(sjam, <<>>)
        /\ \A m \in 1..Len(c2s) : SubSeq(c2s, 2, m) = <<>>
    BY <1>2, <2>1, SingleFlush DEF Dispatch, CmdSent, WriteJams
  <2>3. /\ s2c' = Append(s2c, Ready(n)) /\ spc' = "body" /\ sin' = <<>>
        /\ scmd' = Cmd[kind[n]]
        /\ UNCHANGED <<kind, n, outcome, answer, cpc, cin, cout, cjam, sjam,
                       sopen, ran>>
    <3>1. c2s[1].r = n /\ c2s[1].b = Cmd[kind[n]]
      BY <2>2 DEF CmdToken, Token
    <3>2. PICK m \in 1..Len(c2s) :
            \/ WriteJams(sjam, SubSeq(c2s, 2, m))
            \/ /\ s2c' = Append(s2c, Ready(c2s[1].r))
               /\ spc' = "body"
               /\ sin' = <<>>
               /\ UNCHANGED <<sjam, sopen>>
      BY <1>2 DEF Dispatch
    <3>3. SubSeq(c2s, 2, m) = <<>>
      BY <2>2
    <3>4. /\ s2c' = Append(s2c, Ready(n)) /\ spc' = "body" /\ sin' = <<>>
          /\ UNCHANGED <<sjam, sopen>>
      BY <2>2, <3>1, <3>2, <3>3
    <3> QED
      BY <1>2, <3>1, <3>4 DEF Dispatch, clientVars
  <2>4. Waiting'
    BY <2>1, <2>2, <2>3 DEF Waiting, Serving, CmdSent
  <2>5. History'
    BY <2>3 DEF History, Reqs
  <2>6. cpc = "ready" => s2c' = <<Ready(n)>>
    BY <2>1, <2>3, SingleFlush
  <2> QED
    BY <2>1, <2>2, <2>3, <2>4, <2>5, <2>6
       DEF Lockstep, Abandoned, Ready, Token
<1>3. CASE ServerReads
  <2>1. PICK b \in {Body(n), CutBody(n)} :
          /\ BodySent(b) /\ ran[n] = <<>> /\ cout = <<>>
          /\ cpc \in {"reply", "failed", "closed", "dead"}
          /\ cpc # "reply" => Sent(b)
          /\ cpc = "reply" => b = Body(n) /\ s2c = <<>>
    BY <1>3, NothingToRead
       DEF ServerReads, Lockstep, Abandoned, Done, Waiting, CmdSent, BodyRead,
           TypeInv, TypeOK
  <2>2. sin' = <<b>> /\ c2s' = <<>>
    BY <1>3, <2>1, SingleFlush DEF ServerReads, BodySent
  <2>3. /\ spc = "body" /\ spc' = "body" /\ scmd' = scmd
        /\ UNCHANGED <<kind, n, outcome, answer, cpc, cin, cout, cjam, s2c, sjam,
                       sopen, ran>>
    BY <1>3 DEF ServerReads, clientVars
  <2>4. BodyRead(b)'
    BY <2>1, <2>2, <2>3 DEF BodyRead, BodySent, Serving
  <2>5. History'
    BY <2>3 DEF History, Reqs
  <2>6. /\ Body(n)' = Body(n) /\ CutBody(n)' = CutBody(n)
        /\ Sent(b) => Sent(b)'
    BY <2>3 DEF Body, CutBody, Token, Sent
  <2> QED
    BY <2>1, <2>2, <2>3, <2>4, <2>5, <2>6 DEF Lockstep, Abandoned
<1>4. CASE Run
  <2>1. /\ n \in Reqs /\ sin = <<Body(n)>> /\ c2s = <<>> /\ ran[n] = <<>>
        /\ outcome[n] # "unsent" /\ cout = <<>> /\ ~sjam
        /\ cpc \in {"reply", "failed", "closed", "dead"}
        /\ cpc = "reply" => s2c = <<>>
        /\ scmd = Cmd[kind[n]]
        /\ LeftOver(scmd, sin) = <<>> /\ HowRun(scmd, sin[1]) = "asked"
    BY <1>4, RunsTheBody DEF Run, Lockstep
  <2>2. sin[1].r = n /\ ~WriteJams(sjam, LeftOver(scmd, sin))
    BY <2>1, SingleFlush DEF Body, Token, WriteJams
  <2>3. /\ ran' = [ran EXCEPT ![n] = Append(@, "asked")]
        /\ \E rep \in Replies(Cmd[kind[n]], n) : s2c' = Append(s2c, rep)
        /\ spc' = "idle" /\ sin' = <<>>
        /\ UNCHANGED <<kind, n, outcome, answer, cpc, cin, cout, cjam, c2s, sjam,
                       scmd, sopen>>
    BY <1>4, <2>1, <2>2 DEF Run, Execute, Reply, EndCommand, clientVars
  <2>4. ran' = [ran EXCEPT ![n] = <<"asked">>]
    BY <2>1, <2>3, SingleFlush DEF TypeInv, TypeOK
  <2>5. History' /\ ran'[n] = <<"asked">>
    BY <2>1, <2>3, <2>4 DEF History, Reqs, TypeInv, TypeOK
  <2>6. Done' /\ sopen'
    BY <1>4, <2>1, <2>3 DEF Done, Run, Lockstep
  <2>7. cpc = "reply" => \E rep \in Replies(Cmd[kind[n]], n)' : s2c' = <<rep>>
    <3>1. Replies(Cmd[kind[n]], n)' = Replies(Cmd[kind[n]], n)
      BY <2>3 DEF Replies, Cmd
    <3>2. \A t : Append(<<>>, t) = <<t>>
      BY SingleFlush
    <3> QED
      BY <2>1, <2>3, <3>1, <3>2
  <2> QED
    BY <2>1, <2>3, <2>5, <2>6, <2>7 DEF Lockstep, Abandoned
<1>5. CASE RunRaises
  <2>1. CASE ran' = ran
    BY <1>5, <2>1, LockstepGone DEF RunRaises
  <2>2. CASE ran' # ran
    <3>1. /\ n \in Reqs /\ sin = <<Body(n)>> /\ c2s = <<>> /\ ran[n] = <<>>
          /\ outcome[n] # "unsent" /\ cout = <<>>
          /\ cpc \in {"reply", "failed", "closed", "dead"}
          /\ cpc = "reply" => s2c = <<>>
          /\ HowRun(scmd, sin[1]) = "asked" /\ sin[1].r = n
      BY <1>5, <2>2, BytesAreHarmless, RunsTheBody, SingleFlush
         DEF RunRaises, CanGarble, Body, Token
    <3>2. ran' = [ran EXCEPT ![n] = Append(@, "asked")]
      BY <1>5, <2>2, <3>1, BytesAreHarmless DEF RunRaises, CanGarble, Execute
    <3>3. ran' = [ran EXCEPT ![n] = <<"asked">>]
      BY <3>1, <3>2, SingleFlush DEF TypeInv, TypeOK
    <3>4. /\ spc' = "dead" /\ sin' = <<>>
          /\ UNCHANGED <<kind, n, outcome, answer, cpc, cin, cout, cjam, c2s, s2c,
                         sjam, scmd>>
      BY <1>5 DEF RunRaises, Die, clientVars
    <3>5. History' /\ ran'[n] = <<"asked">>
      BY <3>1, <3>3, <3>4 DEF History, Reqs, TypeInv, TypeOK
    <3>6. Done'
      BY <3>1, <3>4 DEF Done
    <3> QED
      BY <3>1, <3>4, <3>5, <3>6 DEF Lockstep, Abandoned
  <2> QED
    BY <2>1, <2>2
<1>6. CASE ServerCrashes
  BY <1>6, LockstepGone DEF ServerCrashes
<1>7. CASE ServerFatal
  BY <1>7, LockstepGone DEF ServerFatal
<1>8. CASE ServerTimeout
  BY <1>8, LockstepGone DEF ServerTimeout
<1>9. CASE ServerEof
  BY <1>9, LockstepGone DEF ServerEof
<1>10. CASE RunGarbled
  BY <1>10, BytesAreHarmless DEF RunGarbled, CanGarble
<1> QED
  BY <1>1, <1>2, <1>3, <1>4, <1>5, <1>6, <1>7, <1>8, <1>9, <1>10 DEF ServerStep

-----------------------------------------------------------------------------
(* The theorems.                                                           *)

\* The server dies of nothing else.
LEMMA AliveNext ==
  ASSUME TypeInv, History, Lockstep, Alive, Next
  PROVE  Alive'
<1> SUFFICES ASSUME "lua" \notin Faults, spc' = "dead" PROVE FALSE
  BY DEF Alive
<1>1. spc # "dead" /\ (spc = "body" => ~Crashes(scmd, sin) /\ ~Unreadable(scmd, sin))
  BY BytesAreHarmless DEF Alive
<1>2. CASE ClientStep
  BY <1>1, <1>2 DEF ClientStep, StartRequest, ReadReady, SendBody, MarshalFails,
     ReadReply, MisreadReply, ClientTimeout, ClientEof, Close, ClientCrash,
     serverVars
<1>3. CASE ServerStep
  BY <1>1, <1>3 DEF ServerStep, DispatchJammed, Dispatch, ServerReads, Run,
     RunGarbled, RunRaises, ServerCrashes, ServerFatal, ServerTimeout, ServerEof,
     Reap, EndCommand
<1> QED
  BY <1>2, <1>3 DEF Next

\* Both ends wait for each other, and for nothing else.
LEMMA UntroubledNext ==
  ASSUME Undisturbed, TypeInv, History, Lockstep, Untroubled, Next
  PROVE  Untroubled'
<1> USE DEF clientVars, serverVars
<1>1. /\ cin = <<>> /\ ~cjam /\ ~WriteJams(cjam, cin) /\ ~sjam
      /\ ~WriteJams(sjam, <<>>)
      /\ cpc # "closed" => copen /\ sopen /\ spc \in {"idle", "body"}
      /\ ~Timeouts /\ Faults = {}
  BY DEF Lockstep, WriteJams, Undisturbed, Untroubled
<1>2. ASSUME cpc \notin {"idle", "closed"}, cpc' \notin {"failed", "dead", "closed"},
             UNCHANGED <<copen, sopen, spc>>
      PROVE  Untroubled'
  BY <1>1, <1>2 DEF Untroubled
<1>3. \A r : Settle(r, "ok") \/ Settle(r, "raised") => cpc' = "idle"
  BY DEF Settle
<1>4. CASE StartRequest
  BY <1>1, <1>4 DEF StartRequest, Untroubled
<1>5. CASE ReadReady
  <2>1. s2c = <<Ready(n)>>
    BY <1>5, NothingToRead DEF ReadReady, Lockstep
  <2>2. s2c[1].b = READY
    BY <2>1 DEF Ready, Token
  <2> QED
    BY <1>2, <1>5, <2>2 DEF ReadReady
<1>6. CASE SendBody
  BY <1>1, <1>2, <1>6 DEF SendBody
<1>7. CASE ReadReply
  BY <1>2, <1>3, <1>7 DEF ReadReply
<1>8. CASE MisreadReply
  BY <1>8, NeverMisread
<1>9. CASE Close
  BY <1>9 DEF Close, Untroubled
<1>10. CASE MarshalFails \/ ClientTimeout \/ ClientEof \/ ClientCrash
  BY <1>1, <1>10 DEF MarshalFails, ClientTimeout, ClientEof, ClientCrash
<1>11. CASE Dispatch
  <2>1. c2s = <<CmdToken(n)>>
    BY <1>11, NothingToRead
       DEF Dispatch, Lockstep, Abandoned, Done, CmdSent, Waiting, BodySent,
           BodyRead, Serving, TypeInv, TypeOK
  <2>2. \A m \in 1..Len(c2s) : ~WriteJams(sjam, SubSeq(c2s, 2, m))
    BY <1>1, <2>1, SingleFlush
  <2>3. spc' = "body" /\ UNCHANGED <<cpc, copen, sopen>>
    BY <1>11, <2>2 DEF Dispatch
  <2> QED
    BY <1>1, <2>3 DEF Untroubled
<1>12. CASE ServerReads
  BY <1>12 DEF ServerReads, Untroubled
<1>13. CASE Run
  BY <1>1, <1>13, RunsTheBody DEF Run, Reply, WriteJams, EndCommand, Untroubled
<1>14. CASE ServerEof
  BY <1>1, <1>14 DEF ServerEof, Untroubled
<1>15. CASE \/ DispatchJammed \/ RunGarbled \/ RunRaises \/ ServerCrashes
            \/ ServerFatal \/ ServerTimeout
  BY <1>1, <1>15, BytesAreHarmless
     DEF DispatchJammed, RunGarbled, CanGarble, RunRaises, ServerCrashes,
         ServerFatal, ServerTimeout
<1> QED
  BY <1>4, <1>5, <1>6, <1>7, <1>8, <1>9, <1>10, <1>11, <1>12, <1>13, <1>14,
     <1>15 DEF Next, ClientStep, ServerStep

\* The inductive invariant.
LEMMA Inductive ==
  ASSUME Disciplined
  PROVE  Spec => []IInv
<1>1. Init => IInv
  BY TypeInit, LockstepInit DEF IInv, Init, Alive, Untroubled
<1>2. IInv /\ [Next]_vars => IInv'
  <2> SUFFICES ASSUME IInv, [Next]_vars PROVE IInv'
    OBVIOUS
  <2> USE DEF IInv
  <2>1. TypeInv'
    BY TypeNext
  <2>2. CASE Next
    <3>1. MarshalFails \/ ClientTimeout \/ ClientEof => ClosesOnError
      BY DEF Disciplined, Undisturbed, Untroubled, MarshalFails, ClientTimeout,
         ClientEof
    <3>2. History' /\ Lockstep'
      BY <2>2, <3>1, LockstepClient, LockstepServer DEF Next
    <3>3. Alive'
      BY <2>2, AliveNext
    <3>4. Undisturbed => Untroubled'
      BY <2>2, UntroubledNext
    <3> QED
      BY <2>1, <3>2, <3>3, <3>4 DEF Undisturbed
  <2>3. CASE UNCHANGED vars
    <3>1. History' /\ Alive' /\ (Untroubled => Untroubled')
      BY <2>3 DEF History, Alive, Untroubled, vars, clientVars, serverVars, Reqs
    <3>2. Lockstep'
      BY <2>3 DEF Lockstep, Abandoned, Done, CmdSent, Waiting, BodySent,
         BodyRead, Serving, Sent, CmdToken, Body, CutBody, Ready, Token,
         Replies, Cmd, vars, clientVars, serverVars
    <3> QED
      BY <2>1, <3>1, <3>2 DEF Undisturbed
  <2> QED
    BY <2>2, <2>3
<1> QED
  BY <1>1, <1>2, PTL DEF Spec

\* A request that returned without an error was executed as asked, and once:
\* helper_call, helper_get and helper_newindex never take another reply for
\* theirs, on any C library, if a failed handle is given up or nothing fails.
THEOREM DisciplinedOkMeansExecuted ==
  ASSUME Disciplined PROVE Spec => []OkMeansExecuted
<1>1. History => OkMeansExecuted
  BY DEF History, OkMeansExecuted
<1> QED
  BY <1>1, Inductive, PTL DEF IInv

\* The read/write switches of both "r+" streams stay defined.
THEOREM DisciplinedNeverSwitchesUnread ==
  ASSUME Disciplined PROVE Spec => []NeverSwitchesUnread
<1>1. TypeInv /\ History /\ Lockstep => NeverSwitchesUnread
  BY RunsTheBody DEF Lockstep, NeverSwitchesUnread
<1> QED
  BY <1>1, Inductive, PTL DEF IInv

\* A request whose arguments could not be sent is never executed.
THEOREM DisciplinedUnsentNeverRuns ==
  ASSUME Disciplined PROVE Spec => []UnsentNeverRuns
<1>1. History => UnsentNeverRuns
  BY DEF History, UnsentNeverRuns
<1> QED
  BY <1>1, Inductive, PTL DEF IInv

\* No request ends the server: rpc_server is left only by a Lua error of the
\* function called or of the tables assigned to, never by a path, an argument
\* or a length the handlers misread.
THEOREM DisciplinedServerSurvives ==
  ASSUME Disciplined, "lua" \notin Faults PROVE Spec => []ServerSurvives
<1>1. Alive => ServerSurvives
  BY DEF Alive, ServerSurvives
<1> QED
  BY <1>1, Inductive, PTL DEF IInv

\* A step of a session in step is a step of the remote call, or none.
LEMMA RefinesNext ==
  ASSUME TypeInv, History, Lockstep, [Next]_vars
  PROVE  [RC!Next]_(RC!vars)
<1> USE DEF clientVars, serverVars
<1>1. CASE StartRequest
  <2>1. \A r \in 1..n : outcome[r] \in {"ok", "raised"}
    <3> SUFFICES ASSUME NEW r \in 1..n PROVE outcome[r] \in {"ok", "raised"}
      OBVIOUS
    <3>1. r \in Reqs /\ (r < n \/ r = n) /\ n > 0
      BY SessionAssumption DEF TypeInv, TypeOK, Reqs
    <3> QED
      BY <1>1, <3>1 DEF StartRequest, History
  <2>2. /\ n < MaxReq /\ n' = n + 1 /\ ran' = ran
        /\ \E o \in {"pending", "error"} : outcome' = [outcome EXCEPT ![n + 1] = o]
    BY <1>1 DEF StartRequest, Settle
  <2> QED
    BY <2>1, <2>2 DEF RC!Next, RC!Issue
<1>2. CASE MarshalFails
  <2>1. /\ n > 0 /\ outcome[n] = "pending" /\ ran[n] = <<>>
        /\ outcome' = [outcome EXCEPT ![n] = "unsent"] /\ UNCHANGED <<n, ran>>
    BY <1>2 DEF MarshalFails, Settle, History, Lockstep
  <2> QED
    BY <2>1 DEF RC!Next, RC!Refuse
<1>3. CASE ReadReply
  <2>1. /\ n > 0 /\ outcome[n] = "pending" /\ ran[n] = <<"asked">>
    BY <1>3, NothingToRead DEF ReadReply, History, Lockstep
  <2>2. /\ \E o \in {"ok", "raised"} : outcome' = [outcome EXCEPT ![n] = o]
        /\ UNCHANGED <<n, ran>>
    BY <1>3 DEF ReadReply, Settle
  <2> QED
    BY <2>1, <2>2 DEF RC!Next, RC!Answer
<1>4. ASSUME ReadReady \/ SendBody \/ MisreadReply \/ ClientTimeout \/ ClientEof
      PROVE  [RC!Next]_(RC!vars)
  <2>1. n > 0 /\ outcome[n] = "pending"
    BY <1>4 DEF ReadReady, SendBody, MisreadReply, ClientTimeout, ClientEof,
       History
  <2>2. /\ outcome' = outcome \/ outcome' = [outcome EXCEPT ![n] = "error"]
        /\ UNCHANGED <<n, ran>>
    BY <1>4 DEF ReadReady, SendBody, MisreadReply, ClientTimeout, ClientEof,
       Settle
  <2> QED
    BY <2>1, <2>2 DEF RC!Next, RC!Fail, RC!vars
<1>5. ASSUME Run \/ RunRaises
      PROVE  [RC!Next]_(RC!vars)
  <2>1. CASE ran' = ran
    BY <1>5, <2>1 DEF Run, RunRaises, RC!vars
  <2>2. CASE ran' # ran
    <3>1. /\ n \in Reqs /\ sin = <<Body(n)>> /\ ran[n] = <<>>
          /\ cpc \in {"reply", "failed", "closed", "dead"}
          /\ outcome[n] # "unsent" /\ HowRun(scmd, sin[1]) = "asked"
          /\ sin[1].r = n
      BY <1>5, <2>2, BytesAreHarmless, RunsTheBody, SingleFlush
         DEF Run, RunRaises, CanGarble, Body, Token
    <3>2. ran' = [ran EXCEPT ![n] = Append(@, "asked")]
      BY <1>5, <2>2, <3>1, BytesAreHarmless DEF Run, RunRaises, CanGarble, Execute
    <3>3. ran' = [ran EXCEPT ![n] = <<"asked">>]
      BY <3>1, <3>2, SingleFlush DEF TypeInv, TypeOK
    <3>4. outcome[n] \in {"pending", "error"} /\ n > 0
      <4>1. n > 0 /\ outcome[n] # "none"
        BY <3>1, SessionAssumption DEF History, Reqs
      <4>2. outcome[n] \notin {"ok", "raised"}
        BY <3>1 DEF History
      <4> QED
        BY <3>1, <4>1, <4>2 DEF TypeInv, TypeOK
    <3>5. UNCHANGED <<n, outcome>>
      BY <1>5 DEF Run, RunRaises
    <3> QED
      BY <3>1, <3>3, <3>4, <3>5 DEF RC!Next, RC!Execute
  <2> QED
    BY <2>1, <2>2
<1>6. ASSUME \/ Close \/ ClientCrash \/ DispatchJammed \/ Dispatch
             \/ ServerReads \/ ServerCrashes \/ ServerFatal \/ ServerTimeout
             \/ ServerEof \/ UNCHANGED vars
      PROVE  [RC!Next]_(RC!vars)
  BY <1>6 DEF Close, ClientCrash, DispatchJammed, Dispatch, ServerReads,
     ServerCrashes, ServerFatal, ServerTimeout, ServerEof, vars, RC!vars
<1>7. ~RunGarbled
  BY BytesAreHarmless DEF RunGarbled, CanGarble
<1> QED
  BY <1>1, <1>2, <1>3, <1>4, <1>5, <1>6, <1>7 DEF Next, ClientStep, ServerStep

\* A session whose failed handle is given up implements the remote call: at
\* most one execution of each request, none after a refusal, no request after
\* a failure.
THEOREM DisciplinedRefinesRemoteCall ==
  ASSUME Disciplined PROVE Spec => RCSpec
<1>1. Init => RC!Init
  BY DEF Init, RC!Init, Reqs, RC!Reqs
<1>2. TypeInv /\ History /\ Lockstep /\ [Next]_vars => [RC!Next]_(RC!vars)
  BY RefinesNext
<1> QED
  BY <1>1, <1>2, Inductive, PTL DEF IInv, RCSpec, RC!Spec, Spec

-----------------------------------------------------------------------------
(***************************************************************************)
(* What is left of the promises of RpcSession when the program goes on     *)
(* using a handle after a link error, timeouts and all.  The two ends are  *)
(* then out of step, but RPC_READY still is a permit: the worker writes    *)
(* one for each command byte it takes, the client sends one body for each  *)
(* it reads, and the worker is back at a command boundary only when it has *)
(* consumed a body.  So never more than one body is under way, and the     *)
(* worker that looks for a command byte never meets one.                   *)
(*                                                                         *)
(* Where a write over unread input fails, as in glibc, no command byte is  *)
(* ever dropped, and the body the worker reads belongs to the command it   *)
(* executes: an ok means executed.                                         *)
(***************************************************************************)

\* What the client has written and the worker has not consumed.
Wire == sin \o c2s \o cout

Serves == spc \in {"idle", "body"}
Asks == cpc \in {"ready", "body", "reply"}

BodyIn(s) == \E i \in 1..Len(s) : IsBody(s[i])
PermitIn(s) == \E i \in 1..Len(s) : s[i].b = READY
PermitLast(s) == \A i \in 1..Len(s) : s[i].b = READY => i = Len(s)

\* The requests as the program sees them: the last one alone is open, nothing
\* later was executed, and an answer is the request's own.
Requests ==
  /\ Asks => n > 0 /\ outcome[n] = "pending"
  /\ cpc \in {"ready", "body"} => ran[n] = <<>>
  /\ \A r \in Reqs : r > n => ran[r] = <<>>
  /\ \A r \in Reqs : ran[r] \in {<<>>, <<"asked">>, <<"garbled">>}
  /\ \A r \in Reqs : outcome[r] \in {"ok", "raised"} => ran[r] # <<>> /\ answer[r] = r

\* What the client may find in its direction: RPC_READY is the last thing
\* sent, nothing is left when it was read, and then the reply comes.
Inbound ==
  /\ PermitLast(s2c)
  /\ cpc = "body" => s2c = <<>>
  /\ cpc = "reply" => \A i \in 1..Len(s2c) :
                        s2c[i].r = n /\ s2c[i].b # READY /\ ran[n] # <<>>
  /\ Asks => cout = <<>>

\* What a worker that still serves may find in its own: commands and at most
\* one body, that of a request not executed yet; the body and RPC_READY
\* exclude each other, and an idle worker waits for neither; and what the
\* client waits for is the answer to the last bytes it wrote.
OneBody(s) ==
  /\ \A i \in 1..Len(s) : s[i].t = "cmd" \/ IsBody(s[i])
  /\ \A i, j \in 1..Len(s) : IsBody(s[i]) /\ IsBody(s[j]) => i = j
BodyFresh ==
  \A i \in 1..Len(Wire) : IsBody(Wire[i]) =>
    /\ ran[Wire[i].r] = <<>>
    /\ Wire[i].r <= n
    /\ Wire[i].r = n => cpc \notin {"ready", "body"}
Permits ==
  /\ BodyIn(Wire) => ~PermitIn(s2c) /\ cpc # "body"
  /\ spc = "idle" => /\ sin = <<>> /\ cpc # "body"
                     /\ ~BodyIn(Wire) /\ ~PermitIn(s2c)
LastSent ==
  Wire # <<>> => /\ cpc = "ready" => Wire[Len(Wire)] = CmdToken(n)
                 /\ cpc = "reply" => Wire[Len(Wire)] = Body(n)
Outbound == sopen /\ OneBody(Wire) /\ BodyFresh /\ Permits /\ LastSent

RetryInv == TypeInv /\ Requests /\ Inbound /\ (Serves => Outbound)

-----------------------------------------------------------------------------
(* What the steps do to the bytes under way.                               *)

\* Tokens the two ends write, told apart.
LEMMA TokenShapes ==
  ASSUME NEW r
  PROVE  /\ CmdToken(r).t = "cmd" /\ ~IsBody(CmdToken(r)) /\ CmdToken(r).r = r
         /\ IsBody(Body(r)) /\ Body(r).r = r /\ Body(r).t = "body"
         /\ IsBody(CutBody(r)) /\ CutBody(r).r = r /\ CutBody(r).t = "cut"
         /\ Ready(r).b = READY /\ Ready(r).r = r
         /\ \A c : \A rep \in Replies(c, r) : rep.b # READY /\ rep.r = r
BY DEF CmdToken, Body, CutBody, Ready, Replies, Token, IsBody, READY

\* The end of a channel, once a part of it was read.
LEMMA DropFront ==
  ASSUME NEW s \in Seq(Tokens), NEW m \in 0..Len(s)
  PROVE  /\ SubSeq(s, m + 1, Len(s)) \in Seq(Tokens)
         /\ Len(SubSeq(s, m + 1, Len(s))) = Len(s) - m
         /\ \A i \in 1..(Len(s) - m) : SubSeq(s, m + 1, Len(s))[i] = s[i + m]
<1>1. SubSeq(s, m + 1, Len(s)) \in Seq(Tokens)
  BY SubSeqTokens
<1> QED
  BY <1>1, SubSeqProperties

\* A reader that takes the first part leaves RPC_READY last, if it leaves it.
LEMMA ReadPart ==
  ASSUME NEW s \in Seq(Tokens), NEW m \in 1..Len(s), PermitLast(s)
  PROVE  LET u == SubSeq(s, m + 1, Len(s)) IN
         /\ PermitIn(u) => PermitIn(s)
         /\ PermitLast(u)
         /\ s[1].b = READY => u = <<>> /\ PermitIn(s)
         /\ 1 \in 1..Len(s)
<1> DEFINE u == SubSeq(s, m + 1, Len(s))
<1>1. /\ u \in Seq(Tokens) /\ Len(u) = Len(s) - m
      /\ \A i \in 1..Len(u) : i + m \in 1..Len(s) /\ u[i] = s[i + m]
  BY DropFront
<1> HIDE DEF u
<1>2. PermitIn(u) => PermitIn(s)
  BY <1>1 DEF PermitIn
<1>3. PermitLast(u)
  <2> SUFFICES ASSUME NEW i \in 1..Len(u), u[i].b = READY PROVE i = Len(u)
    BY DEF PermitLast
  <2>1. i + m \in 1..Len(s) /\ s[i + m].b = READY
    BY <1>1
  <2>2. i + m = Len(s)
    BY <2>1 DEF PermitLast
  <2> DEFINE l == Len(s)
             q == Len(u)
  <2>3. q = l - m
    BY <1>1
  <2>4. l \in Nat /\ m \in 1..l /\ i \in 1..q
    OBVIOUS
  <2>5. i + m = l
    BY <2>2
  <2> HIDE DEF l, q
  <2>6. i = q
    BY <2>3, <2>4, <2>5
  <2>7. QED
    BY <2>6 DEF q
<1>4. 1 \in 1..Len(s)
  OBVIOUS
<1>5. ASSUME s[1].b = READY PROVE u = <<>> /\ PermitIn(s)
  BY <1>1, <1>4, <1>5 DEF PermitLast, PermitIn
<1> QED
  BY <1>2, <1>3, <1>4, <1>5 DEF u

\* Bytes that move from a stream to the connection, or from there to the
\* worker, are the same bytes in the same order.
LEMMA WireMoves ==
  ASSUME NEW a \in Seq(Tokens), NEW b \in Seq(Tokens), NEW c \in Seq(Tokens)
  PROVE  /\ a \o b \o c \in Seq(Tokens)
         /\ a \o (b \o c) \o <<>> = a \o b \o c
<1>1. a \o b \o c \in Seq(Tokens)
  OBVIOUS
<1>2. a \o (b \o c) \o <<>> = a \o b \o c
  OBVIOUS
<1> QED
  BY <1>1, <1>2

LEMMA TokensAssociate ==
  \A a, b, c \in Seq(Tokens) : (a \o b) \o c = a \o (b \o c)
<1> TAKE a, b, c \in Seq(Tokens)
<1> QED
  BY ConcatAssociative

\* And the worker's stream gets what the connection loses.
LEMMA WireRead ==
  ASSUME NEW a \in Seq(Tokens), NEW b \in Seq(Tokens), NEW c, NEW m \in 1..Len(b)
  PROVE  (a \o SubSeq(b, 1, m)) \o SubSeq(b, m + 1, Len(b)) \o c = a \o b \o c
<1> DEFINE p == SubSeq(b, 1, m)
           q == SubSeq(b, m + 1, Len(b))
<1>1. p \in Seq(Tokens) /\ q \in Seq(Tokens)
  BY SubSeqTokens, DropFront
<1>2. p \o q = b
  BY ConcatAdjacentSubSeq, SubSeqFull
<1> HIDE DEF p, q
<1>3. (a \o p) \o q = a \o (p \o q)
  BY <1>1, TokensAssociate, Zenon
<1>4. (a \o p) \o q \o c = a \o b \o c
  BY <1>2, <1>3
<1> QED
  BY <1>4 DEF p, q

\* A byte sent, now or with what was left in the stream, comes last.
LEMMA WireGrows ==
  ASSUME NEW a \in Seq(Tokens), NEW b \in Seq(Tokens), NEW c \in Seq(Tokens),
         NEW t \in Tokens
  PROVE  /\ a \o (b \o (c \o <<t>>)) \o <<>> = Append(a \o b \o c, t)
         /\ a \o (b \o <<t>>) \o <<>> = Append(a \o b \o <<>>, t)
         /\ a \o b \o <<t>> = Append(a \o b \o <<>>, t)
<1>1. a \o b \o c \in Seq(Tokens) /\ a \o b \in Seq(Tokens)
      /\ b \o c \in Seq(Tokens) /\ <<t>> \in Seq(Tokens)
  OBVIOUS
<1>2. b \o (c \o <<t>>) = (b \o c) \o <<t>>
  BY <1>1, ConcatAssociative
<1>3. a \o ((b \o c) \o <<t>>) = (a \o (b \o c)) \o <<t>>
  BY <1>1, ConcatAssociative
<1>4. a \o (b \o c) = a \o b \o c
  BY ConcatAssociative
<1>5. a \o (b \o <<t>>) = (a \o b) \o <<t>>
  BY <1>1, ConcatAssociative
<1>6. (a \o b \o c) \o <<t>> = Append(a \o b \o c, t)
  BY <1>1, AppendIsConcat
<1>7. (a \o b) \o <<t>> = Append(a \o b, t)
  BY <1>1, AppendIsConcat
<1>8. a \o (b \o (c \o <<t>>)) \in Seq(Tokens) /\ a \o (b \o <<t>>) \in Seq(Tokens)
  BY <1>1, ConcatProperties
<1> QED
  BY <1>1, <1>2, <1>3, <1>4, <1>5, <1>6, <1>7, <1>8, ConcatEmptySeq

\* U is what remains of W when its first k bytes, and perhaps some of its
\* last, are gone.
Part(U, W, k) ==
  /\ Len(U) + k <= Len(W)
  /\ \A i \in 1..Len(U) : U[i] = W[i + k]

\* The bytes behind the first one.
LEMMA WireDrops ==
  ASSUME NEW a \in Seq(Tokens), NEW b \in Seq(Tokens), NEW c \in Seq(Tokens)
  PROVE  /\ Part(<<>> \o b \o c, a \o b \o c, Len(a))
         /\ Part(a \o b \o <<>>, a \o b \o c, 0)
         /\ \A m \in 1..Len(b) :
              LET U == <<>> \o SubSeq(b, m + 1, Len(b)) \o c
              IN  /\ Part(U, <<>> \o b \o c, m)
                  /\ m + Len(U) = Len(<<>> \o b \o c)
                  /\ U \in Seq(Tokens)
<1>1. Part(<<>> \o b \o c, a \o b \o c, Len(a))
  BY DEF Part
<1>2. Part(a \o b \o <<>>, a \o b \o c, 0)
  BY DEF Part
<1>3. ASSUME NEW m \in 1..Len(b)
      PROVE  LET U == <<>> \o SubSeq(b, m + 1, Len(b)) \o c
             IN  /\ Part(U, <<>> \o b \o c, m)
                 /\ m + Len(U) = Len(<<>> \o b \o c)
                 /\ U \in Seq(Tokens)
  <2> DEFINE q == SubSeq(b, m + 1, Len(b))
  <2>1. q \in Seq(Tokens) /\ Len(q) = Len(b) - m /\ \A i \in 1..(Len(b) - m) : q[i] = b[i + m]
    BY DropFront
  <2> HIDE DEF q
  <2>2. Part(q \o c, b \o c, m)
    BY <2>1, SMTT(20) DEF Part
  <2>3. <<>> \o q \o c = q \o c /\ <<>> \o b \o c = b \o c
    BY <2>1
  <2>4. q \o c \in Seq(Tokens) /\ m + Len(q \o c) = Len(b \o c)
    <3>1. Len(q \o c) = Len(q) + Len(c) /\ Len(b \o c) = Len(b) + Len(c)
      BY <2>1, ConcatProperties
    <3> QED
      BY <2>1, <3>1
  <2> QED
    BY <2>2, <2>3, <2>4 DEF q
<1> QED
  BY <1>1, <1>2, <1>3

\* A command byte, and what else came with it, leaves the wire when the
\* worker takes it.
LEMMA DispatchTakes ==
  ASSUME TypeOK, NEW m \in 1..Len(c2s), c2s' = SubSeq(c2s, m + 1, Len(c2s)),
         sin = <<>>, sin' = <<>>, cout' = cout
  PROVE  /\ Part(Wire', Wire, m) /\ m + Len(Wire') = Len(Wire)
         /\ Wire \in Seq(Tokens) /\ Wire' \in Seq(Tokens)
<1>1. Wire = <<>> \o c2s \o cout /\ Wire' = <<>> \o c2s' \o cout
  BY DEF Wire
<1>2. /\ Part(<<>> \o c2s' \o cout, <<>> \o c2s \o cout, m)
      /\ m + Len(<<>> \o c2s' \o cout) = Len(<<>> \o c2s \o cout)
      /\ <<>> \o c2s' \o cout \in Seq(Tokens)
  BY WireDrops DEF TypeOK
<1>3. Wire \in Seq(Tokens)
  BY WireMoves DEF TypeOK, Wire
<1> QED
  BY <1>1, <1>2, <1>3

\* The bytes the handler reads stay there until it has what it needs.
LEMMA ReadsKeep ==
  ASSUME TypeOK, ServerReads
  PROVE  Wire' = Wire
<1>1. PICK m \in 1..Len(c2s) : /\ c2s' = SubSeq(c2s, m + 1, Len(c2s))
                               /\ sin' = sin \o SubSeq(c2s, 1, m)
  BY DEF ServerReads
<1>2. cout' = cout
  BY DEF ServerReads, clientVars
<1>3. sin \in Seq(Tokens) /\ c2s \in Seq(Tokens)
  BY DEF TypeOK
<1>4. (sin \o SubSeq(c2s, 1, m)) \o SubSeq(c2s, m + 1, Len(c2s)) \o cout
        = sin \o c2s \o cout
  BY <1>3, WireRead, Zenon
<1> QED
  BY <1>1, <1>2, <1>4, Zenon DEF Wire

-----------------------------------------------------------------------------
(* The inductive invariant.                                                *)

\* Nothing has been asked at the start.
LEMMA RetryInit == Init => RetryInv
<1> SUFFICES ASSUME Init PROVE RetryInv
  OBVIOUS
<1>1. TypeInv
  BY TypeInit
<1>2. Wire = <<>>
  BY DEF Init, Wire
<1>3. Requests /\ Inbound
  BY SessionAssumption DEF Init, Requests, Inbound, Asks, PermitLast, Reqs
<1>4. Outbound
  BY <1>2 DEF Init, Outbound, OneBody, BodyFresh, Permits, LastSent, BodyIn, PermitIn
<1> QED
  BY <1>1, <1>3, <1>4 DEF RetryInv

\* The bytes under way are tokens.
LEMMA WireType == TypeOK => Wire \in Seq(Tokens)
BY WireMoves DEF TypeOK, Wire

\* A client that stops asking sends nothing.
LEMMA OutboundKept ==
  ASSUME TypeOK, n' \in Nat, Serves => Outbound,
         Wire' = Wire, UNCHANGED <<kind, spc, sin, sopen, ran>>,
         n' >= n, cpc' \notin {"ready", "body", "reply"},
         PermitIn(s2c') => PermitIn(s2c)
  PROVE  Serves' => Outbound'
<1> SUFFICES ASSUME Outbound PROVE Outbound'
  BY DEF Serves
<1>1. \A i \in 1..Len(Wire) : Wire[i].r \in Reqs
  BY WireType DEF Tokens
<1>2. OneBody(Wire')
  BY DEF Outbound
<1>3. BodyFresh'
  BY <1>1 DEF Outbound, BodyFresh, TypeOK, Reqs
<1>4. Permits'
  BY DEF Outbound, Permits
<1>5. LastSent'
  BY DEF LastSent
<1> QED
  BY <1>2, <1>3, <1>4, <1>5 DEF Outbound

\* A byte the client sends comes last; a body is sent when none is under way.
LEMMA OutboundSent ==
  ASSUME TypeOK, n' \in Nat, Serves => Outbound,
         NEW t \in Tokens, Wire' = Append(Wire, t),
         UNCHANGED <<kind, spc, sin, sopen, ran>>,
         PermitIn(s2c') => PermitIn(s2c),
         \/ t = CmdToken(n)' /\ n' = n + 1 /\ cpc' = "ready" /\ cpc # "body"
         \/ /\ IsBody(t) /\ t.r = n /\ n' = n /\ ran[n] = <<>> /\ cpc = "body"
            /\ ~PermitIn(s2c')
            /\ (cpc' = "reply" /\ t = Body(n)) \/ cpc' \in {"idle", "failed"}
  PROVE  Serves' => Outbound'
<1> SUFFICES ASSUME Serves, Outbound PROVE Outbound'
  BY DEF Serves
<1>1. Wire \in Seq(Tokens)
  BY WireType
<1>2. /\ Len(Wire') = Len(Wire) + 1 /\ Wire'[Len(Wire) + 1] = t
      /\ \A i \in 1..Len(Wire) : Wire'[i] = Wire[i]
      /\ Wire' # <<>>
      /\ \A i \in 1..Len(Wire') : i \in 1..Len(Wire) \/ (i = Len(Wire) + 1 /\ Wire'[i] = t)
  BY <1>1, AppendProperties
<1>3. \A i \in 1..Len(Wire) : Wire[i].r \in Reqs
  BY <1>1 DEF Tokens
<1>4. CASE t = CmdToken(n)' /\ n' = n + 1 /\ cpc' = "ready" /\ cpc # "body"
  <2>1. t.t = "cmd" /\ ~IsBody(t)
    BY <1>4 DEF CmdToken, Token, IsBody
  <2>2. OneBody(Wire')
    BY <1>2, <2>1 DEF OneBody, Outbound
  <2>3. BodyFresh'
    BY <1>2, <1>3, <1>4, <2>1 DEF BodyFresh, Outbound, TypeOK, Reqs
  <2>4. BodyIn(Wire') => BodyIn(Wire)
    BY <1>2, <2>1 DEF BodyIn
  <2>5. Permits'
    BY <1>4, <2>4 DEF Permits, Outbound
  <2>6. LastSent'
    BY <1>1, <1>2, <1>4 DEF LastSent
  <2> QED
    BY <2>2, <2>3, <2>5, <2>6 DEF Outbound
<1>5. CASE /\ IsBody(t) /\ t.r = n /\ n' = n /\ ran[n] = <<>> /\ cpc = "body"
           /\ ~PermitIn(s2c')
           /\ (cpc' = "reply" /\ t = Body(n)) \/ cpc' \in {"idle", "failed"}
  <2>1. /\ spc # "idle"
        /\ \A i \in 1..Len(Wire) : ~IsBody(Wire[i])
    BY <1>5 DEF Outbound, Permits, BodyIn
  <2>2. OneBody(Wire')
    BY <1>2, <1>5, <2>1 DEF OneBody, Outbound
  <2>3. BodyFresh'
    BY <1>2, <1>5, <2>1 DEF BodyFresh, TypeOK
  <2>4. Permits'
    BY <1>5, <2>1 DEF Permits
  <2>5. LastSent'
    BY <1>1, <1>2, <1>5 DEF LastSent, Body, Token
  <2> QED
    BY <2>2, <2>3, <2>4, <2>5 DEF Outbound
<1> QED
  BY <1>4, <1>5

\* What is left when the worker, or a close, drops bytes.
LEMMA OutboundDropped ==
  ASSUME TypeOK, Outbound, NEW k \in Nat,
         Wire \in Seq(Tokens), Wire' \in Seq(Tokens), Part(Wire', Wire, k),
         k + Len(Wire') = Len(Wire) \/ cpc' = "closed",
         UNCHANGED <<kind, n>>, cpc' = cpc \/ cpc' = "closed", sopen',
         BodyIn(Wire') => ran' = ran /\ ~PermitIn(s2c'),
         spc' = "idle" => /\ sin' = <<>> /\ cpc' # "body"
                          /\ ~BodyIn(Wire') /\ ~PermitIn(s2c')
  PROVE  Outbound'
<1>1. \A i \in 1..Len(Wire') : i + k \in 1..Len(Wire) /\ Wire'[i] = Wire[i + k]
  BY DEF Part
<1>2. OneBody(Wire')
  <2>1. \A i \in 1..Len(Wire') : Wire'[i].t = "cmd" \/ IsBody(Wire'[i])
    BY <1>1 DEF Outbound, OneBody
  <2>2. ASSUME NEW i \in 1..Len(Wire'), NEW j \in 1..Len(Wire'),
               IsBody(Wire'[i]), IsBody(Wire'[j])
        PROVE  i = j
    <3>1. i + k = j + k
      BY <1>1, <2>2 DEF Outbound, OneBody
    <3> QED
      BY <3>1
  <2> QED
    BY <2>1, <2>2 DEF OneBody
<1>3. BodyIn(Wire') => BodyIn(Wire)
  BY <1>1 DEF BodyIn
<1>4. \A i \in 1..Len(Wire') : IsBody(Wire'[i]) => ran' = ran
  BY DEF BodyIn
<1>5. BodyFresh'
  BY <1>1, <1>4 DEF Outbound, BodyFresh
<1>6. Permits'
  BY <1>3 DEF Outbound, Permits
<1>7. LastSent'
  <2> SUFFICES ASSUME Wire' # <<>>, cpc' # "closed"
               PROVE  /\ cpc' = "ready" => Wire'[Len(Wire')] = CmdToken(n)
                      /\ cpc' = "reply" => Wire'[Len(Wire')] = Body(n)
    BY DEF LastSent, CmdToken, Body, Token
  <2>1. Len(Wire') \in 1..Len(Wire') /\ Len(Wire') + k = Len(Wire) /\ Wire # <<>>
    BY <1>1
  <2> QED
    BY <1>1, <2>1 DEF Outbound, LastSent
<1> QED
  BY <1>2, <1>5, <1>6, <1>7 DEF Outbound

\* The client keeps the invariant.
LEMMA RetryClient == RetryInv /\ ClientStep => RetryInv'
<1> SUFFICES ASSUME RetryInv, ClientStep PROVE RetryInv'
  OBVIOUS
<1>0. /\ TypeOK /\ TypeInv' /\ TypeOK' /\ n \in Nat /\ n' \in Nat
      /\ Requests /\ Inbound /\ (Serves => Outbound)
      /\ sin \in Seq(Tokens) /\ c2s \in Seq(Tokens) /\ cout \in Seq(Tokens)
      /\ s2c \in Seq(Tokens) /\ kind' = kind
  <2>1. TypeInv' /\ kind' = kind
    BY TypeClient DEF RetryInv, ClientStep, StartRequest, ReadReady, SendBody,
       MarshalFails, ReadReply, MisreadReply, ClientTimeout, ClientEof, Close,
       ClientCrash
  <2> QED
    BY <2>1, SessionAssumption, SMTT(20) DEF RetryInv, TypeInv, TypeOK
<1> SUFFICES Requests' /\ Inbound' /\ (Serves' => Outbound')
  BY <1>0 DEF RetryInv
<1> USE DEF clientVars, serverVars
<1>1. CASE StartRequest
  <2>1. n + 1 \in Reqs /\ n' = n + 1 /\ cpc = "idle"
        /\ UNCHANGED <<answer, s2c, spc, scmd, sin, sjam, sopen, ran>>
    BY <1>0, <1>1, SessionAssumption DEF StartRequest, Reqs
  <2>2. CASE cjam' = TRUE /\ Settle(n + 1, "error") /\ UNCHANGED <<cout, c2s>>
    <3>1. outcome' = [outcome EXCEPT ![n + 1] = "error"] /\ cpc' \in {"idle", "failed"}
      BY <2>2 DEF Settle
    <3>2. Requests' /\ Inbound'
      <4>1. ~Asks' /\ cpc' # "body" /\ cpc' # "reply" /\ cpc' # "ready"
        BY <3>1 DEF Asks
      <4>2. Inbound'
        BY <1>0, <2>1, <4>1 DEF Inbound
      <4>3. \A r \in Reqs : outcome'[r] \in {"ok", "raised"} => outcome[r] \in {"ok", "raised"}
        BY <1>0, <3>1 DEF TypeOK
      <4>4. \A r \in Reqs : r > n' => r > n
        BY <1>0, <2>1 DEF Reqs
      <4>5. QED
        BY <1>0, <2>1, <4>1, <4>2, <4>3, <4>4 DEF Requests
    <3>3. Wire' = Wire
      BY <2>1, <2>2 DEF Wire
    <3>4. Serves' => Outbound'
      BY <1>0, <2>1, <3>1, <3>3, OutboundKept
    <3> QED
      BY <3>2, <3>4
  <2>3. CASE /\ Send(cout \o <<CmdToken(n + 1)>>) /\ cout' = <<>>
             /\ cpc' = "ready" /\ outcome' = [outcome EXCEPT ![n + 1] = "pending"]
    <3>1. Requests' /\ Inbound'
      BY <1>0, <2>1, <2>3 DEF Requests, Inbound, Asks, TypeOK, Reqs
    <3>2. CmdToken(n)' = CmdToken(n + 1) /\ CmdToken(n + 1) \in Tokens
      BY <1>0, <2>1, TokenTypes DEF CmdToken, Token
    <3>3. Serves => Wire' = Append(Wire, CmdToken(n + 1))
      BY <1>0, <2>1, <2>3, <3>2, WireGrows, ZenonT(30) DEF Wire, Send, Outbound
    <3>4. Serves' => Outbound'
      BY <1>0, <2>1, <2>3, <3>2, <3>3, OutboundSent DEF Serves
    <3> QED
      BY <3>1, <3>4
  <2> QED
    BY <1>1, <2>2, <2>3 DEF StartRequest
<1>2. CASE ReadReady
  <2>1. /\ cpc = "ready"
        /\ UNCHANGED <<n, answer, cout, cjam, copen, c2s, spc, scmd, sin, sjam, sopen, ran>>
    BY <1>2 DEF ReadReady
  <2>2. PICK m \in 1..Len(s2c) : s2c' = SubSeq(s2c, m + 1, Len(s2c))
    BY <1>2 DEF ReadReady
  <2>3. /\ PermitIn(s2c') => PermitIn(s2c)
        /\ PermitLast(s2c')
        /\ s2c[1].b = READY => s2c' = <<>> /\ PermitIn(s2c)
    <3>1. s2c \in Seq(Tokens) /\ PermitLast(s2c)
      BY <1>0 DEF Inbound
    <3> QED
      BY <2>2, <3>1, ReadPart
  <2>4. Wire' = Wire
    BY <2>1 DEF Wire
  <2>5. CASE s2c[1].b = READY /\ cpc' = "body" /\ UNCHANGED outcome
    <3>1. PermitIn(s2c) /\ s2c' = <<>>
      BY <2>3, <2>5
    <3>2. Requests' /\ Inbound'
      BY <1>0, <2>1, <2>5, <3>1 DEF Requests, Asks, Reqs, Inbound, PermitLast
    <3>3. Serves' => Outbound'
      <4> SUFFICES ASSUME Serves, Outbound PROVE Outbound'
        BY <1>0, <2>1 DEF Serves
      <4>1. ~BodyIn(Wire) /\ spc # "idle"
        BY <3>1 DEF Outbound, Permits
      <4>2. BodyFresh'
        BY <2>4, <4>1 DEF BodyFresh, BodyIn
      <4>3. Permits'
        BY <2>1, <2>4, <4>1 DEF Permits
      <4>4. LastSent'
        BY <2>5 DEF LastSent
      <4> QED
        BY <2>1, <2>4, <4>2, <4>3, <4>4 DEF Outbound
    <3> QED
      BY <3>2, <3>3
  <2>6. CASE s2c[1].b # READY /\ Settle(n, "error")
    <3>1. outcome' = [outcome EXCEPT ![n] = "error"] /\ cpc' \in {"idle", "failed"}
      BY <2>6 DEF Settle
    <3>2. Requests' /\ Inbound'
      BY <1>0, <2>1, <2>3, <3>1 DEF Requests, Inbound, Asks, TypeOK, Reqs
    <3>3. Serves' => Outbound'
      BY <1>0, <2>1, <2>3, <2>4, <3>1, OutboundKept
    <3> QED
      BY <3>2, <3>3
  <2> QED
    BY <1>2, <2>5, <2>6 DEF ReadReady
<1>3. CASE SendBody
  <2>1. /\ cpc = "body" /\ n > 0 /\ outcome[n] = "pending" /\ ran[n] = <<>>
        /\ s2c = <<>> /\ cout = <<>>
        /\ UNCHANGED <<n, answer, cout, copen, s2c, spc, scmd, sin, sjam, sopen, ran>>
    BY <1>0, <1>3 DEF SendBody, Requests, Inbound, Asks
  <2>2. CASE Settle(n, "error") /\ UNCHANGED c2s
    <3>1. outcome' = [outcome EXCEPT ![n] = "error"] /\ cpc' \in {"idle", "failed"}
      BY <2>2 DEF Settle
    <3>2. Requests' /\ Inbound'
      BY <1>0, <2>1, <3>1 DEF Requests, Inbound, Asks, TypeOK, Reqs
    <3>3. Wire' = Wire
      BY <2>1, <2>2 DEF Wire
    <3>4. Serves' => Outbound'
      BY <1>0, <2>1, <3>1, <3>3, OutboundKept
    <3> QED
      BY <3>2, <3>4
  <2>3. CASE Send(<<Body(n)>>) /\ cpc' = "reply" /\ UNCHANGED outcome
    <3>1. Requests' /\ Inbound'
      BY <1>0, <2>1, <2>3 DEF Requests, Inbound, Asks, Reqs
    <3>2. Body(n) \in Tokens /\ IsBody(Body(n)) /\ Body(n).r = n
      BY <1>0, <2>1, TokenTypes, TokenShapes DEF TypeOK, Reqs
    <3>3. Serves => Wire' = Append(Wire, Body(n))
      BY <1>0, <2>1, <2>3, <3>2, WireGrows DEF Wire, Send, Outbound
    <3>4. ~PermitIn(s2c')
      BY <2>1 DEF PermitIn
    <3>5. Serves' => Outbound'
      BY <1>0, <2>1, <2>3, <3>2, <3>3, <3>4, OutboundSent DEF Serves
    <3> QED
      BY <3>1, <3>5
  <2> QED
    BY <1>3, <2>2, <2>3 DEF SendBody
<1>4. CASE MarshalFails
  <2>1. /\ cpc = "body" /\ n > 0 /\ outcome[n] = "pending" /\ ran[n] = <<>>
        /\ s2c = <<>> /\ cout = <<>>
        /\ UNCHANGED <<n, answer, copen, c2s, s2c, spc, scmd, sin, sjam, sopen, ran>>
        /\ outcome' = [outcome EXCEPT ![n] = "unsent"] /\ cpc' \in {"idle", "failed"}
    BY <1>0, <1>4 DEF MarshalFails, Requests, Inbound, Asks, Settle
  <2>2. Requests' /\ Inbound'
    BY <1>0, <2>1 DEF Requests, Inbound, Asks, TypeOK, Reqs
  <2>3. CASE UNCHANGED cout
    <3>1. Wire' = Wire
      BY <2>1, <2>3 DEF Wire
    <3>2. Serves' => Outbound'
      BY <1>0, <2>1, <3>1, OutboundKept
    <3> QED
      BY <2>2, <3>2
  <2>4. CASE cout' = <<CutBody(n)>>
    <3>1. CutBody(n) \in Tokens /\ IsBody(CutBody(n)) /\ CutBody(n).r = n
      BY <1>0, <2>1, TokenTypes, TokenShapes DEF TypeOK, Reqs
    <3>2. Wire' = Append(Wire, CutBody(n))
      BY <1>0, <2>1, <2>4, <3>1, WireGrows DEF Wire
    <3>3. ~PermitIn(s2c')
      BY <2>1 DEF PermitIn
    <3>4. Serves' => Outbound'
      BY <1>0, <2>1, <3>1, <3>2, <3>3, OutboundSent
    <3> QED
      BY <2>2, <3>4
  <2> QED
    BY <1>4, <2>3, <2>4 DEF MarshalFails
<1>5. CASE ReadReply
  <2>1. /\ cpc = "reply" /\ n > 0
        /\ UNCHANGED <<n, cout, cjam, copen, c2s, spc, scmd, sin, sjam, sopen, ran>>
        /\ answer' = [answer EXCEPT ![n] = s2c[1].r]
    BY <1>0, <1>5 DEF ReadReply, Requests, Asks
  <2>2. PICK m \in 1..Len(s2c) : s2c' = SubSeq(s2c, m + 1, Len(s2c))
    BY <1>5 DEF ReadReply
  <2>3. /\ PermitIn(s2c') => PermitIn(s2c)
        /\ PermitLast(s2c')
        /\ 1 \in 1..Len(s2c)
    <3>1. s2c \in Seq(Tokens) /\ PermitLast(s2c)
      BY <1>0 DEF Inbound
    <3> QED
      BY <2>2, <3>1, ReadPart
  <2>4. s2c[1].r = n /\ ran[n] # <<>>
    BY <1>0, <2>1, <2>3 DEF Inbound
  <2>5. /\ \E o \in {"ok", "raised"} : outcome' = [outcome EXCEPT ![n] = o]
        /\ cpc' = "idle"
    BY <1>5 DEF ReadReply, Settle
  <2>6. Requests' /\ Inbound'
    BY <1>0, <2>1, <2>3, <2>4, <2>5 DEF Requests, Inbound, Asks, TypeOK, Reqs
  <2>7. Wire' = Wire
    BY <2>1 DEF Wire
  <2>8. Serves' => Outbound'
    BY <1>0, <2>1, <2>3, <2>5, <2>7, OutboundKept
  <2> QED
    BY <2>6, <2>8
<1>6. ASSUME MisreadReply \/ ClientTimeout \/ ClientEof \/ ClientCrash
      PROVE  Requests' /\ Inbound' /\ (Serves' => Outbound')
  <2>1. /\ UNCHANGED <<n, answer, cout, cjam, c2s, spc, scmd, sin, sjam, sopen, ran>>
        /\ outcome' = outcome \/ outcome' = [outcome EXCEPT ![n] = "error"]
        /\ cpc' \in {"idle", "failed", "dead"}
        /\ s2c' = s2c \/ s2c' = <<>>
    BY <1>6 DEF MisreadReply, ClientTimeout, ClientEof, ClientCrash, Settle
  <2>2. Requests'
    BY <1>0, <2>1 DEF Requests, Asks, TypeOK, Reqs
  <2>3. Inbound' /\ (PermitIn(s2c') => PermitIn(s2c))
    <3>1. PermitLast(s2c)
      BY <1>0 DEF Inbound
    <3>2. PermitLast(s2c') /\ (PermitIn(s2c') => PermitIn(s2c))
      <4>1. CASE s2c' = s2c
        BY <3>1, <4>1
      <4>2. CASE s2c' = <<>>
        BY <4>2 DEF PermitIn, PermitLast
      <4> QED
        BY <2>1, <4>1, <4>2
    <3> QED
      BY <2>1, <3>2 DEF Inbound, Asks
  <2>4. Wire' = Wire
    BY <2>1 DEF Wire
  <2>5. Serves' => Outbound'
    BY <1>0, <2>1, <2>3, <2>4, OutboundKept
  <2> QED
    BY <2>2, <2>3, <2>5
<1>7. CASE Close
  <2>1. /\ UNCHANGED <<n, outcome, answer, cin, cjam, s2c, spc, scmd, sin, sjam, sopen, ran>>
        /\ cpc' = "closed" /\ cout' = <<>> /\ cpc # "body"
        /\ Send(IF cjam THEN <<>> ELSE cout)
    BY <1>7 DEF Close
  <2>2. Requests' /\ Inbound'
    BY <1>0, <2>1 DEF Requests, Inbound, Asks
  <2>3. Serves' => Outbound'
    <3> SUFFICES ASSUME Serves, Outbound PROVE Outbound'
      BY <1>0, <2>1 DEF Serves
    <3>1. CASE cjam
      <4>1. c2s' = c2s
        BY <1>0, <2>1, <3>1 DEF Send
      <4>2. Part(Wire', Wire, 0) /\ Wire \in Seq(Tokens) /\ Wire' \in Seq(Tokens)
        BY <1>0, <2>1, <4>1, WireDrops, WireType DEF Wire
      <4>3. BodyIn(Wire') => BodyIn(Wire)
        BY <4>2 DEF Part, BodyIn
      <4> QED
        BY <1>0, <2>1, <4>2, <4>3, OutboundDropped DEF Outbound, Permits
    <3>2. CASE ~cjam
      <4>1. c2s' = c2s \o cout
        BY <2>1, <3>2 DEF Send, Outbound
      <4>2. Wire' = Wire
        BY <1>0, <2>1, <4>1, WireMoves, SMTT(20) DEF Wire
      <4> QED
        BY <1>0, <2>1, <4>2, OutboundKept DEF Serves
    <3> QED
      BY <3>1, <3>2
  <2> QED
    BY <2>2, <2>3
<1> QED
  BY <1>1, <1>2, <1>3, <1>4, <1>5, <1>6, <1>7 DEF ClientStep

\* What a handler executes is the one body under way, of a request that was
\* not executed before, and nobody else has the permit.
LEMMA RunsFreshBody ==
  ASSUME TypeOK, Requests, Outbound, NEW b \in 1..Len(sin), IsBody(sin[b])
  PROVE  LET r == sin[b].r IN
         /\ sin # <<>> /\ sin[b] \in Tokens /\ r \in Reqs
         /\ b \in 1..Len(Wire) /\ Wire[b] = sin[b]
         /\ ran[r] = <<>> /\ r <= n
         /\ r = n => cpc \notin {"ready", "body"}
         /\ ~PermitIn(s2c) /\ cpc # "body"
         /\ cpc = "reply" => r = n
         /\ \A i \in 1..Len(Wire) : IsBody(Wire[i]) => i = b
<1>1. sin \in Seq(Tokens) /\ c2s \in Seq(Tokens) /\ cout \in Seq(Tokens)
  BY DEF TypeOK
<1>2. sin # <<>> /\ sin[b] \in Tokens /\ sin[b].r \in Reqs
  BY <1>1 DEF Tokens
<1>3. Wire[b] = sin[b] /\ b \in 1..Len(Wire) /\ Len(Wire) \in 1..Len(Wire)
      /\ Wire # <<>>
  BY <1>1 DEF Wire
<1>4. BodyIn(Wire)
  BY <1>1, <1>3 DEF BodyIn
<1>5. \A i \in 1..Len(Wire) : IsBody(Wire[i]) => i = b
  BY <1>1, <1>3 DEF Outbound, OneBody
<1>6. cpc = "reply" => sin[b].r = n
  <2> SUFFICES ASSUME cpc = "reply" PROVE sin[b].r = n
    OBVIOUS
  <2>1. Wire[Len(Wire)] = Body(n)
    BY <1>3 DEF Outbound, LastSent
  <2>2. IsBody(Body(n)) /\ Body(n).r = n
    BY TokenShapes
  <2> QED
    BY <1>3, <1>5, <2>1, <2>2
<1>7. ran[sin[b].r] = <<>> /\ sin[b].r <= n
      /\ (sin[b].r = n => cpc \notin {"ready", "body"})
  BY <1>1, <1>3 DEF Outbound, BodyFresh
<1>8. ~PermitIn(s2c) /\ cpc # "body"
  BY <1>4 DEF Outbound, Permits
<1> QED
  BY <1>1, <1>2, <1>3, <1>5, <1>6, <1>7, <1>8

\* The record of an execution.
LEMMA RanRecorded ==
  ASSUME TypeOK, Requests, Outbound, NEW b \in 1..Len(sin), IsBody(sin[b]),
         UNCHANGED <<n, outcome, answer, cpc>>,
         NEW h \in {"asked", "garbled"}, Execute(sin[b].r, h)
  PROVE  /\ Requests'
         /\ ran'[sin[b].r] = <<h>> /\ ran'[sin[b].r] # <<>>
         /\ \A q \in Reqs : q # sin[b].r => ran'[q] = ran[q]
         /\ \A q \in Reqs : ran[q] # <<>> => ran'[q] # <<>>
<1> DEFINE r == sin[b].r
<1>2. /\ r \in Reqs /\ r <= n /\ ran[r] = <<>>
      /\ r = n => cpc \notin {"ready", "body"}
  BY RunsFreshBody
<1>3. ran' = [ran EXCEPT ![r] = Append(@, h)]
  BY DEF Execute
<1>4. Append(<<>>, h) = <<h>>
  BY SingleFlush
<1> HIDE DEF r
<1>5. ran'[r] = <<h>> /\ \A q \in Reqs : q # r => ran'[q] = ran[q]
  BY <1>2, <1>3, <1>4 DEF TypeOK
<1>6. <<h>> \in {<<>>, <<"asked">>, <<"garbled">>} /\ <<h>> # <<>>
  OBVIOUS
<1>7. \A q \in Reqs : ran[q] # <<>> => ran'[q] # <<>>
  BY <1>2, <1>5, <1>6
<1>8. cpc \in {"ready", "body"} => n \in Reqs
  BY SessionAssumption DEF Requests, Asks, TypeOK, Reqs
<1>9. cpc' \in {"ready", "body"} => ran'[n'] = <<>>
  BY <1>2, <1>5, <1>8 DEF Requests
<1>10. \A q \in Reqs : q > n' => ran'[q] = <<>>
  BY <1>2, <1>5 DEF Requests, TypeOK, Reqs
<1>11. \A q \in Reqs : ran'[q] \in {<<>>, <<"asked">>, <<"garbled">>}
  BY <1>2, <1>5, <1>6 DEF Requests
<1>12. \A q \in Reqs : outcome'[q] \in {"ok", "raised"} => ran'[q] # <<>> /\ answer'[q] = q
  BY <1>7 DEF Requests
<1>13. Requests'
  BY <1>9, <1>10, <1>11, <1>12 DEF Requests, Asks
<1> QED
  BY <1>5, <1>6, <1>7, <1>13 DEF r

\* What a handler executes is a body it has read.
LEMMA RunsABody ==
  ASSUME NEW c, NEW in \in Seq(Tokens)
  PROVE  /\ CanRun(c, in) => 1 \in 1..Len(in) /\ IsBody(in[1])
         /\ \A i : Garbled(c, in, i) # {} => IsBody(in[i])
<1>1. CanRun(c, in) => 1 \in 1..Len(in) /\ IsBody(in[1])
  BY DEF CanRun
<1>2. ASSUME NEW i, Garbled(c, in, i) # {} PROVE IsBody(in[i])
  BY <1>2 DEF Garbled, Misread
<1> QED
  BY <1>1, <1>2

\* The worker keeps the invariant.
LEMMA RetryServer == RetryInv /\ ServerStep => RetryInv'
<1> SUFFICES ASSUME RetryInv, ServerStep PROVE RetryInv'
  OBVIOUS
<1>0. /\ TypeOK /\ TypeInv' /\ TypeOK' /\ n \in Nat
      /\ Requests /\ Inbound /\ (Serves => Outbound)
      /\ sin \in Seq(Tokens) /\ c2s \in Seq(Tokens) /\ cout \in Seq(Tokens)
      /\ s2c \in Seq(Tokens)
      /\ UNCHANGED <<kind, n, outcome, answer, cpc, cin, cout, cjam, copen>>
  <2>1. TypeInv' /\ UNCHANGED <<kind, n, outcome, answer, cpc, cin, cout, cjam, copen>>
    BY TypeServer DEF RetryInv, ServerStep, DispatchJammed, Dispatch,
       ServerReads, Run, RunGarbled, RunRaises, ServerCrashes, ServerFatal,
       ServerTimeout, ServerEof, clientVars
  <2> QED
    BY <2>1, SessionAssumption DEF RetryInv, TypeInv, TypeOK
<1> SUFFICES Requests' /\ Inbound' /\ (Serves' => Outbound')
  BY <1>0 DEF RetryInv
<1>1. ASSUME \/ DispatchJammed \/ ServerCrashes \/ ServerFatal \/ ServerTimeout
             \/ ServerEof
      PROVE  Requests' /\ Inbound' /\ (Serves' => Outbound')
  <2>1. UNCHANGED <<s2c, ran>> /\ spc' \in {"closed", "dead"}
    BY <1>1 DEF DispatchJammed, ServerCrashes, ServerFatal, ServerTimeout,
       ServerEof, Reap, Die
  <2> QED
    BY <1>0, <2>1 DEF Requests, Inbound, Asks, Serves
<1>2. CASE RunRaises
  <2>1. UNCHANGED s2c /\ spc' = "dead" /\ Outbound
    BY <1>0, <1>2 DEF RunRaises, Die, Serves
  <2>2. CASE ran' = ran
    BY <1>0, <2>1, <2>2 DEF Requests, Inbound, Asks, Serves
  <2>3. ASSUME NEW b \in 1..Len(sin), IsBody(sin[b]), NEW h \in {"asked", "garbled"},
               Execute(sin[b].r, h)
        PROVE  Requests' /\ Inbound' /\ (Serves' => Outbound')
    <3>1. Requests' /\ \A r \in Reqs : ran[r] # <<>> => ran'[r] # <<>>
      BY <1>0, <2>1, <2>3, RanRecorded
    <3>2. n > 0 /\ cpc = "reply" => n \in Reqs
      BY <1>0 DEF TypeOK, Reqs
    <3>3. Inbound'
      BY <1>0, <2>1, <3>1, <3>2 DEF Inbound, Asks, Requests
    <3> QED
      BY <2>1, <3>1, <3>3 DEF Serves
  <2>4. HowRun(scmd, sin[1]) \in {"asked", "garbled"}
    BY DEF HowRun
  <2>5. \/ ran' = ran
        \/ CanRun(scmd, sin) /\ Execute(sin[1].r, HowRun(scmd, sin[1]))
        \/ \E b \in 1..Len(sin) : /\ Garbled(scmd, sin, b) # {}
                                  /\ Execute(sin[b].r, "garbled")
    BY <1>2 DEF RunRaises
  <2> QED
    BY <1>0, <2>2, <2>3, <2>4, <2>5, RunsABody
<1>3. CASE Dispatch
  <2>1. /\ spc = "idle" /\ Outbound /\ UNCHANGED ran
        /\ sin = <<>> /\ cpc # "body" /\ ~BodyIn(Wire) /\ ~PermitIn(s2c)
    BY <1>0, <1>3 DEF Dispatch, Serves, Outbound, Permits
  <2>2. PICK m \in 1..Len(c2s) :
          /\ c2s' = SubSeq(c2s, m + 1, Len(c2s))
          /\ \/ Reap /\ UNCHANGED s2c
             \/ /\ s2c' = Append(s2c, Ready(c2s[1].r))
                /\ spc' = "body" /\ sin' = <<>> /\ UNCHANGED sopen
    BY <1>3 DEF Dispatch
  <2>3. CASE Reap /\ UNCHANGED s2c
    BY <1>0, <2>1, <2>3 DEF Reap, Requests, Inbound, Asks, Serves
  <2>4. CASE /\ s2c' = Append(s2c, Ready(c2s[1].r))
             /\ spc' = "body" /\ sin' = <<>> /\ UNCHANGED sopen
    <3>1. cpc # "reply"
      <4> SUFFICES ASSUME cpc = "reply" PROVE FALSE
        OBVIOUS
      <4>1. Wire # <<>> /\ Len(Wire) \in 1..Len(Wire)
        BY <1>0, <2>1, <2>2 DEF Wire
      <4>2. Wire[Len(Wire)] = Body(n)
        BY <2>1, <4>1 DEF Outbound, LastSent
      <4> QED
        BY <2>1, <4>1, <4>2, TokenShapes DEF BodyIn
    <3>2. Requests'
      BY <1>0, <2>1 DEF Requests, Asks
    <3>3. PermitLast(s2c')
      <4>1. c2s[1] \in Tokens /\ c2s[1].r \in Reqs
        BY <1>0, <2>2 DEF Tokens
      <4>2. Ready(c2s[1].r) \in Tokens
        BY <1>0, <4>1, TokenTypes
      <4>3. /\ Len(s2c') = Len(s2c) + 1
            /\ \A i \in 1..Len(s2c) : s2c'[i] = s2c[i]
        BY <1>0, <2>4, <4>2, AppendProperties
      <4>4. \A i \in 1..Len(s2c) : s2c[i].b # READY
        BY <2>1 DEF PermitIn
      <4> QED
        BY <1>0, <4>3, <4>4 DEF PermitLast
    <3>4. Inbound'
      BY <1>0, <2>1, <3>1, <3>3 DEF Inbound, Asks
    <3>5. /\ Part(Wire', Wire, m) /\ Wire \in Seq(Tokens) /\ Wire' \in Seq(Tokens)
          /\ m + Len(Wire') = Len(Wire)
      BY <1>0, <2>1, <2>2, <2>4, DispatchTakes
    <3>6. ~BodyIn(Wire')
      BY <2>1, <3>5, SMTT(20) DEF BodyIn, Part
    <3>7. Outbound'
      BY <1>0, <2>1, <2>4, <3>5, <3>6, OutboundDropped DEF Outbound
    <3> QED
      BY <3>2, <3>4, <3>7
  <2> QED
    BY <2>2, <2>3, <2>4
<1>4. CASE ServerReads
  <2>1. spc = "body" /\ UNCHANGED <<s2c, spc, sopen, ran>> /\ Outbound
    BY <1>0, <1>4 DEF ServerReads, Serves
  <2>3. Wire' = Wire
    BY <1>0, <1>4, ReadsKeep
  <2>4. Requests' /\ Inbound'
    BY <1>0, <2>1 DEF Requests, Inbound, Asks
  <2>5. BodyFresh' /\ LastSent' /\ Permits'
    BY <1>0, <2>1, <2>3 DEF Outbound, BodyFresh, LastSent, Permits, CmdToken, Body,
       Token
  <2> QED
    BY <2>1, <2>3, <2>4, <2>5 DEF Outbound
<1>5. ASSUME spc = "body", NEW b \in 1..Len(sin), IsBody(sin[b]),
             NEW h \in {"asked", "garbled"}, Execute(sin[b].r, h),
             NEW left, Reply(sin[b].r, left), EndCommand, UNCHANGED <<c2s, sopen>>
      PROVE  Requests' /\ Inbound' /\ (Serves' => Outbound')
  <2>1. Outbound /\ spc' = "idle" /\ sin' = <<>> /\ UNCHANGED <<c2s, sopen>>
    BY <1>0, <1>5 DEF EndCommand, Serves
  <2> DEFINE r == sin[b].r
  <2>2. /\ Requests' /\ ran'[r] # <<>>
        /\ \A q \in Reqs : ran[q] # <<>> => ran'[q] # <<>>
    BY <1>0, <1>5, <2>1, RanRecorded
  <2>3. /\ sin # <<>> /\ r \in Reqs /\ ~PermitIn(s2c) /\ cpc # "body"
        /\ cpc = "reply" => r = n
        /\ \A i \in 1..Len(Wire) : IsBody(Wire[i]) => i = b
    BY <1>0, <1>5, <2>1, RunsFreshBody
  <2>4. s2c' = s2c \/ \E rep \in Replies(scmd, r) : s2c' = Append(s2c, rep)
    BY <1>5 DEF Reply
  <2>5. ~PermitIn(s2c') /\ Inbound'
    <3>1. \A i \in 1..Len(s2c) : s2c[i].b # READY
      BY <2>3 DEF PermitIn
    <3>2. CASE s2c' = s2c
      <4>1. Inbound'
        BY <1>0, <2>2, <2>3, <3>2 DEF Inbound, Asks
      <4> QED
        BY <2>3, <3>2, <4>1
    <3>3. ASSUME NEW rep \in Replies(scmd, r), s2c' = Append(s2c, rep)
          PROVE  ~PermitIn(s2c') /\ Inbound'
      <4>1. rep \in Tokens /\ rep.b # READY /\ rep.r = r
        BY <1>0, <2>3, <3>3, TokenTypes, TokenShapes
      <4>2. /\ Len(s2c') = Len(s2c) + 1 /\ s2c'[Len(s2c) + 1] = rep
            /\ \A i \in 1..Len(s2c) : s2c'[i] = s2c[i]
        <5>1. s2c \in Seq(Tokens)
          BY <1>0
        <5>2. LET a == Append(s2c, rep) IN
              /\ Len(a) = Len(s2c) + 1 /\ a[Len(s2c) + 1] = rep
              /\ \A i \in 1..Len(s2c) : a[i] = s2c[i]
          BY <4>1, <5>1, AppendProperties
        <5> QED
          BY <3>3, <5>2, Zenon
      <4>3. \A i \in 1..Len(s2c') : s2c'[i].b # READY
        <5>1. Len(s2c) \in Nat
          BY <1>0
        <5>2. \A i \in 1..Len(s2c') : i \in 1..Len(s2c) \/ i = Len(s2c) + 1
          BY <4>2, <5>1
        <5> QED
          BY <3>1, <4>1, <4>2, <5>2
      <4>4. cpc = "reply" => \A i \in 1..Len(s2c') : s2c'[i].r = n /\ ran'[n] # <<>>
        <5> SUFFICES ASSUME cpc = "reply"
                     PROVE  \A i \in 1..Len(s2c') : s2c'[i].r = n /\ ran'[n] # <<>>
          OBVIOUS
        <5>1. \A i \in 1..Len(s2c) : s2c[i].r = n
          BY <1>0 DEF Inbound
        <5>2. rep.r = n /\ ran'[n] # <<>>
          BY <2>2, <2>3, <4>1
        <5>3. Len(s2c) \in Nat
          BY <1>0
        <5>4. \A i \in 1..Len(s2c') : i \in 1..Len(s2c) \/ i = Len(s2c) + 1
          BY <4>2, <5>3
        <5> QED
          BY <4>2, <5>1, <5>2, <5>4
      <4>5. ~PermitIn(s2c') /\ PermitLast(s2c')
        BY <4>3 DEF PermitIn, PermitLast
      <4> QED
        BY <1>0, <2>3, <4>3, <4>4, <4>5 DEF Inbound, Asks
    <3> QED
      BY <2>4, <3>2, <3>3
  <2>6. /\ Part(Wire', Wire, Len(sin)) /\ Wire \in Seq(Tokens) /\ Wire' \in Seq(Tokens)
        /\ Len(sin) + Len(Wire') = Len(Wire) /\ Len(sin) \in Nat \ {0}
    BY <1>0, <2>1, <2>3, WireDrops DEF Wire
  <2>7. ~BodyIn(Wire')
    BY <2>3, <2>6 DEF BodyIn, Part
  <2>8. Outbound'
    BY <1>0, <2>1, <2>3, <2>5, <2>6, <2>7, OutboundDropped DEF Outbound
  <2> QED
    BY <2>2, <2>5, <2>8
<1>6. CASE Run
  <2>1. HowRun(scmd, sin[1]) \in {"asked", "garbled"}
    BY DEF HowRun
  <2> QED
    BY <1>0, <1>5, <1>6, <2>1, RunsABody DEF Run
<1>7. CASE RunGarbled
  BY <1>0, <1>5, <1>7, RunsABody DEF RunGarbled
<1> QED
  BY <1>1, <1>2, <1>3, <1>4, <1>6, <1>7 DEF ServerStep

\* A step of something else changes nothing.
LEMMA RetryStutter == RetryInv /\ UNCHANGED vars => RetryInv'
<1> SUFFICES ASSUME RetryInv, UNCHANGED vars PROVE RetryInv'
  OBVIOUS
<1> USE DEF vars, clientVars, serverVars
<1>1. TypeInv' /\ Wire' = Wire
  BY TypeNext DEF RetryInv, Wire
<1>2. Requests' /\ Inbound'
  BY DEF RetryInv, Requests, Inbound, Asks
<1>3. Serves' => BodyFresh' /\ Permits' /\ LastSent'
  BY <1>1 DEF RetryInv, Serves, Outbound, BodyFresh, Permits, LastSent,
     CmdToken, Body, Token
<1>4. Serves' => sopen' /\ OneBody(Wire')
  BY <1>1 DEF RetryInv, Serves, Outbound
<1> QED
  BY <1>1, <1>2, <1>3, <1>4 DEF RetryInv, Outbound

\* Whatever the program does with its handle, and whatever its C library does
\* with unread input, the permit is never doubled.
LEMMA RetryInductive == Spec => []RetryInv
<1>1. RetryInv /\ [Next]_vars => RetryInv'
  BY RetryStutter, RetryClient, RetryServer DEF Next
<1> QED
  BY <1>1, RetryInit, PTL DEF Spec

-----------------------------------------------------------------------------
(* The theorems.                                                           *)

\* A request is executed at most once, whatever the program retries, whoever
\* times out, and in whichever way the worker reads the bytes of a session
\* that is out of step.
THEOREM RetryRunsAtMostOnce == Spec => []RunsAtMostOnce
<1>1. Requests => RunsAtMostOnce
  <2>1. Len(<<>>) = 0 /\ Len(<<"asked">>) = 1 /\ Len(<<"garbled">>) = 1
    OBVIOUS
  <2> SUFFICES ASSUME Requests, NEW r \in Reqs PROVE Len(ran[r]) <= 1
    BY DEF RunsAtMostOnce
  <2>2. ran[r] \in {<<>>, <<"asked">>, <<"garbled">>}
    BY DEF Requests
  <2> DEFINE l == Len(ran[r])
  <2>3. l = 0 \/ l = 1
    BY <2>1, <2>2, Zenon
  <2> HIDE DEF l
  <2>4. l <= 1
    BY <2>3
  <2> QED
    BY <2>4 DEF l
<1> QED
  BY <1>1, RetryInductive, PTL DEF RetryInv

\* rpc_dispatch_worker looks for a command byte only where a command starts,
\* however far the two ends are out of step.
THEOREM RetryFramingKept == Spec => []FramingKept
<1>1. RetryInv => FramingKept
  <2> SUFFICES ASSUME RetryInv, spc = "idle", c2s # <<>>
               PROVE  c2s[1].t = "cmd"
    BY DEF FramingKept
  <2>1. Outbound /\ sin = <<>> /\ ~BodyIn(Wire)
    BY DEF RetryInv, Serves, Outbound, Permits
  <2>2. c2s \in Seq(Tokens) /\ cout \in Seq(Tokens)
    BY DEF RetryInv, TypeInv, TypeOK
  <2>3. 1 \in 1..Len(Wire) /\ Wire[1] = c2s[1]
    BY <2>1, <2>2 DEF Wire
  <2> QED
    BY <2>1, <2>3 DEF Outbound, OneBody, BodyIn
<1> QED
  BY <1>1, RetryInductive, PTL

\* A reply that ends a request is the reply to that request, which was
\* executed: a reply that comes late, after a timeout, is never taken for the
\* reply to a later request.
AnswersAreOwn ==
  \A r \in Reqs : outcome[r] \in {"ok", "raised"} =>
                  answer[r] = r /\ Len(ran[r]) = 1

THEOREM RetryAnswersAreOwn == Spec => []AnswersAreOwn
<1>1. Requests => AnswersAreOwn
  BY DEF Requests, AnswersAreOwn
<1> QED
  BY <1>1, RetryInductive, PTL DEF RetryInv

\* The steps that execute a request.
Execution(b, h) ==
  /\ IsBody(sin[b])
  /\ Execute(sin[b].r, h)
  /\ \/ b = 1 /\ CanRun(scmd, sin) /\ h = HowRun(scmd, sin[1])
     \/ Garbled(scmd, sin, b) # {} /\ h = "garbled"

LEMMA OnlyBodiesRun ==
  ASSUME TypeOK, ServerStep, ran' # ran
  PROVE  \E b \in 1..Len(sin), h \in {"asked", "garbled"} :
           spc = "body" /\ Execution(b, h)
<1>1. HowRun(scmd, sin[1]) \in {"asked", "garbled"} /\ sin \in Seq(Tokens)
  BY DEF HowRun, TypeOK
<1>2. Run \/ RunGarbled \/ RunRaises
  BY DEF ServerStep, DispatchJammed, Dispatch, ServerReads, ServerCrashes,
     ServerFatal, ServerTimeout, ServerEof
<1>3. /\ spc = "body"
      /\ \/ CanRun(scmd, sin) /\ Execute(sin[1].r, HowRun(scmd, sin[1]))
         \/ \E b \in 1..Len(sin) : /\ Garbled(scmd, sin, b) # {}
                                   /\ Execute(sin[b].r, "garbled")
  BY <1>2 DEF Run, RunGarbled, RunRaises
<1>4. CASE CanRun(scmd, sin) /\ Execute(sin[1].r, HowRun(scmd, sin[1]))
  <2>1. 1 \in 1..Len(sin) /\ IsBody(sin[1])
    BY <1>1, <1>4, RunsABody
  <2> QED
    BY <1>1, <1>3, <1>4, <2>1 DEF Execution
<1>5. ASSUME NEW b \in 1..Len(sin), Garbled(scmd, sin, b) # {},
             Execute(sin[b].r, "garbled")
      PROVE  Execution(b, "garbled")
  BY <1>1, <1>5, RunsABody DEF Execution
<1> QED
  BY <1>3, <1>4, <1>5

\* And nothing is executed after its answer: a body that is still under way
\* when its request ends is one the caller got an error for.
THEOREM RetryNoExecutionAfterAnswer == Spec => NoExecutionAfterAnswer
<1>1. RetryInv /\ [Next]_vars =>
        [\A r \in Reqs : outcome[r] \in {"ok", "raised"} => ran'[r] = ran[r]]_vars
  <2> SUFFICES ASSUME RetryInv, Next, NEW r \in Reqs,
                      outcome[r] \in {"ok", "raised"}
               PROVE  ran'[r] = ran[r]
    OBVIOUS
  <2>1. ran[r] # <<>>
    BY DEF RetryInv, Requests
  <2>2. CASE ran' = ran
    BY <2>2
  <2>3. CASE ran' # ran
    <3>1. ServerStep
      BY <2>3 DEF Next, ClientStep, StartRequest, ReadReady, SendBody,
         MarshalFails, ReadReply, MisreadReply, ClientTimeout, ClientEof, Close,
         ClientCrash, serverVars
    <3>2. TypeOK /\ Requests /\ (spc = "body" => Outbound)
      BY DEF RetryInv, TypeInv, Serves
    <3>3. PICK b \in 1..Len(sin), h \in {"asked", "garbled"} :
            spc = "body" /\ Execution(b, h)
      BY <2>3, <3>1, <3>2, OnlyBodiesRun
    <3>4. ran[sin[b].r] = <<>>
      BY <3>2, <3>3, RunsFreshBody DEF Execution
    <3>5. ran' = [ran EXCEPT ![sin[b].r] = Append(@, h)]
      BY <3>3 DEF Execution, Execute
    <3> QED
      BY <2>1, <3>2, <3>4, <3>5 DEF TypeOK
  <2> QED
    BY <2>2, <2>3
<1> QED
  BY <1>1, RetryInductive, PTL DEF Spec, NoExecutionAfterAnswer

-----------------------------------------------------------------------------
(* Where a write on unread input fails (glibc), a command that was read    *)
(* over is never forgotten: the bytes that follow the command the worker   *)
(* executes are its own body, or another command.  A body behind another   *)
(* command is of a later request, and only read_cmd_newindex completes it. *)

\* Executions that were not what was asked are of requests the program was
\* told could not be sent, or follow a failed assignment.
Excused ==
  \A r \in Reqs : ran[r] = <<"garbled">> =>
    \/ outcome[r] = "unsent"
    \/ Overtaken(r) /\ (outcome[r] = "ok" => Assigns(r))

\* A garbled execution that is answered is answered with a zero alone.
Acked ==
  cpc = "reply" /\ ran[n] = <<"garbled">> =>
    \A i \in 1..Len(s2c) : s2c[i].t = "ack"

\* Only the last request is open, and none between two requests.
Settled ==
  \A r \in Reqs : r < n \/ (r = n /\ cpc = "idle") =>
                  outcome[r] \notin {"none", "pending"}

\* The bytes under way say what they are.
Labelled ==
  \A i \in 1..Len(Wire) :
    /\ Wire[i].t = "cmd" => Wire[i] = CmdToken(Wire[i].r) /\ ran[Wire[i].r] = <<>>
    /\ Wire[i].t = "cut" => outcome[Wire[i].r] = "unsent" /\ kind[Wire[i].r] # "get"

\* And they are in the order of the requests.
Ordered ==
  /\ \A i \in 1..Len(Wire) : Wire[i].r <= n
  /\ \A i, j \in 1..Len(Wire) : i < j =>
       /\ Wire[i].r <= Wire[j].r
       /\ Wire[j].t = "cmd" => Wire[i].r < Wire[j].r

\* The worker executes the command of request q: the body it meets first is
\* that of q, and so is the one the client may send next.
InStepWith(q) ==
  /\ scmd = Cmd[kind[q]]
  /\ q <= n /\ ran[q] = <<>>
  /\ \A i \in 1..Len(Wire) : Wire[i].t = "cmd" => q < Wire[i].r
  /\ Wire # <<>> /\ IsBody(Wire[1]) => Wire[1].r = q
  /\ Wire = <<>> /\ cpc \in {"ready", "body"} => n = q
InStep == spc = "body" => \E q \in Reqs : InStepWith(q)

JamInv ==
  /\ RetryInv /\ Excused /\ Acked /\ Settled
  /\ Serves => Labelled /\ Ordered /\ InStep

\* What the client does to the bytes under way.
LEMMA ClientWire ==
  ASSUME RetryInv, Serves, ClientStep
  PROVE  /\ UNCHANGED <<kind, spc, scmd, sin, ran>> /\ n' \in {n, n + 1}
         /\ \/ Wire' = Wire /\ cpc' \notin {"ready", "body"}
            \/ Wire' = Wire /\ n' = n /\ cpc = "ready"
            \/ /\ Wire' = Append(Wire, CmdToken(n + 1))
               /\ n + 1 \in Reqs /\ n' = n + 1
            \/ /\ cpc = "body" /\ cpc' \notin {"ready", "body"} /\ n' = n
               /\ \/ Wire' = Append(Wire, Body(n))
                  \/ /\ Wire' = Append(Wire, CutBody(n))
                     /\ outcome'[n] = "unsent" /\ kind[n] # "get"
            \/ Part(Wire', Wire, 0) /\ cpc' = "closed"
<1>0. /\ TypeOK /\ n \in Nat /\ sopen
      /\ sin \in Seq(Tokens) /\ c2s \in Seq(Tokens) /\ cout \in Seq(Tokens)
      /\ cpc = "body" => n \in Reqs /\ cout = <<>>
  BY SessionAssumption DEF RetryInv, TypeInv, TypeOK, Serves, Outbound, Requests,
     Inbound, Asks, Reqs
<1> USE DEF clientVars, serverVars
<1>1. CASE StartRequest
  <2>1. n + 1 \in Reqs /\ n' = n + 1 /\ UNCHANGED <<kind, spc, scmd, sin, ran>>
    BY <1>0, <1>1, SessionAssumption DEF StartRequest, Reqs
  <2>2. CASE UNCHANGED <<cout, c2s>> /\ Settle(n + 1, "error")
    BY <2>1, <2>2 DEF Wire, Settle
  <2>3. CASE Send(cout \o <<CmdToken(n + 1)>>) /\ cout' = <<>>
    <3>1. CmdToken(n + 1) \in Tokens
      BY <1>0, <2>1, TokenTypes
    <3>2. Wire' = Append(Wire, CmdToken(n + 1))
      BY <1>0, <2>1, <2>3, <3>1, WireGrows DEF Wire, Send
    <3> QED
      BY <2>1, <3>2
  <2> QED
    BY <1>1, <2>2, <2>3 DEF StartRequest
<1>2. CASE SendBody
  <2>1. cpc = "body" /\ UNCHANGED <<kind, n, cout, spc, scmd, sin, ran>>
    BY <1>2 DEF SendBody
  <2>2. CASE Settle(n, "error") /\ UNCHANGED c2s
    BY <2>1, <2>2 DEF Wire, Settle
  <2>3. CASE Send(<<Body(n)>>) /\ cpc' = "reply"
    <3>1. Body(n) \in Tokens
      BY <1>0, <2>1, TokenTypes
    <3>2. Wire' = Append(Wire, Body(n))
      BY <1>0, <2>1, <2>3, <3>1, WireGrows DEF Wire, Send
    <3> QED
      BY <2>1, <2>3, <3>2
  <2> QED
    BY <1>2, <2>2, <2>3 DEF SendBody
<1>3. CASE MarshalFails
  <2>1. /\ cpc = "body" /\ UNCHANGED <<kind, n, c2s, spc, scmd, sin, ran>>
        /\ outcome'[n] = "unsent" /\ kind[n] # "get" /\ cpc' \in {"idle", "failed"}
    BY <1>0, <1>3 DEF MarshalFails, Settle, TypeOK
  <2>2. CASE UNCHANGED cout
    BY <2>1, <2>2 DEF Wire
  <2>3. CASE cout' = <<CutBody(n)>>
    <3>1. CutBody(n) \in Tokens
      BY <1>0, <2>1, TokenTypes
    <3>2. Wire' = Append(Wire, CutBody(n))
      BY <1>0, <2>1, <2>3, <3>1, WireGrows DEF Wire
    <3> QED
      BY <2>1, <3>2
  <2> QED
    BY <1>3, <2>2, <2>3 DEF MarshalFails
<1>4. CASE Close
  <2>1. /\ UNCHANGED <<kind, n, spc, scmd, sin, ran>> /\ cpc' = "closed" /\ cout' = <<>>
        /\ Send(IF cjam THEN <<>> ELSE cout)
    BY <1>4 DEF Close
  <2>2. CASE cjam
    <3>1. c2s' = c2s
      BY <1>0, <2>1, <2>2 DEF Send
    <3> QED
      BY <1>0, <2>1, <3>1, WireDrops DEF Wire
  <2>3. CASE ~cjam
    <3>1. c2s' = c2s \o cout
      BY <1>0, <2>1, <2>3 DEF Send
    <3>2. Wire' = Wire
      BY <1>0, <2>1, <3>1, WireMoves DEF Wire
    <3> QED
      BY <2>1, <3>2
  <2> QED
    BY <2>2, <2>3
<1>5. ASSUME \/ ReadReady \/ ReadReply \/ MisreadReply \/ ClientTimeout
             \/ ClientEof \/ ClientCrash
      PROVE  /\ UNCHANGED <<kind, n, spc, scmd, sin, ran>>
             /\ \/ Wire' = Wire /\ cpc' \notin {"ready", "body"}
                \/ Wire' = Wire /\ n' = n /\ cpc = "ready"
  BY <1>5 DEF ReadReady, ReadReply, MisreadReply, ClientTimeout, ClientEof,
     ClientCrash, Settle, Wire
<1> QED
  BY <1>1, <1>2, <1>3, <1>4, <1>5 DEF ClientStep

\* What the caller was told of a request stays.
LEMMA OutcomeStays ==
  ASSUME RetryInv, ClientStep, NEW r \in Reqs, r <= n, outcome[r] # "pending"
  PROVE  outcome'[r] = outcome[r]
<1>1. Asks => outcome[n] = "pending"
  BY DEF RetryInv, Requests
<1>2. r # n + 1 /\ ~(r = n /\ Asks)
  BY <1>1, SessionAssumption DEF RetryInv, TypeInv, TypeOK, Reqs
<1>3. CASE StartRequest
  BY <1>2, <1>3 DEF StartRequest, Settle, RetryInv, TypeInv, TypeOK
<1>4. ASSUME \/ ReadReady \/ SendBody \/ MarshalFails \/ ReadReply
             \/ MisreadReply \/ ClientTimeout \/ ClientEof
      PROVE  outcome'[r] = outcome[r]
  <2>1. Asks
    BY <1>4 DEF ReadReady, SendBody, MarshalFails, ReadReply, MisreadReply,
       ClientTimeout, ClientEof, Asks
  <2>2. outcome' = outcome \/ \E o : outcome' = [outcome EXCEPT ![n] = o]
    BY <1>4 DEF ReadReady, SendBody, MarshalFails, ReadReply, MisreadReply,
       ClientTimeout, ClientEof, Settle
  <2> QED
    BY <1>2, <2>1, <2>2 DEF RetryInv, TypeInv, TypeOK
<1>5. CASE Close \/ ClientCrash
  BY <1>5 DEF Close, ClientCrash
<1> QED
  BY <1>3, <1>4, <1>5 DEF ClientStep

\* A request is settled before the next one.
LEMMA SettledClient ==
  ASSUME RetryInv, Settled, ClientStep
  PROVE  Settled'
<1>1. TypeOK /\ TypeOK' /\ n \in Nat /\ n' \in Nat
  BY RetryClient, SessionAssumption DEF RetryInv, TypeInv, TypeOK
<1>2. SUFFICES ASSUME NEW r \in Reqs, r < n' \/ (r = n' /\ cpc' = "idle")
               PROVE  outcome'[r] \notin {"none", "pending"}
  BY DEF Settled
<1>3. ASSUME r < n \/ (r = n /\ cpc = "idle")
      PROVE  outcome'[r] \notin {"none", "pending"}
  <2>1. outcome[r] \notin {"none", "pending"} /\ r <= n
    BY <1>1, <1>3 DEF Settled, Reqs
  <2> QED
    BY <2>1, OutcomeStays
<1>4. CASE StartRequest
  <2>1. n' = n + 1 /\ cpc = "idle"
    BY <1>4 DEF StartRequest
  <2>2. CASE r <= n
    BY <1>1, <1>3, <2>1, <2>2 DEF Reqs
  <2>3. CASE r = n + 1
    <3>1. cpc' = "idle"
      BY <1>1, <1>2, <2>1, <2>3
    <3>2. Settle(n + 1, "error")
      BY <1>4, <3>1 DEF StartRequest
    <3> QED
      BY <1>1, <2>3, <3>2 DEF Settle, TypeOK
  <2> QED
    BY <1>1, <1>2, <2>1, <2>2, <2>3 DEF Reqs
<1>5. ASSUME ~StartRequest, r = n, cpc # "idle", cpc' = "idle"
      PROVE  outcome'[r] \notin {"none", "pending"}
  <2>1. \E o \in {"error", "unsent", "ok", "raised"} : Settle(n, o)
    BY <1>5 DEF ClientStep, ReadReady, SendBody, MarshalFails, ReadReply,
       MisreadReply, ClientTimeout, ClientEof, Close, ClientCrash
  <2> QED
    BY <1>1, <1>5, <2>1 DEF Settle, TypeOK
<1>6. ~StartRequest => n' = n
  BY DEF ClientStep, ReadReady, SendBody, MarshalFails, ReadReply,
     MisreadReply, ClientTimeout, ClientEof, Close, ClientCrash
<1> QED
  BY <1>2, <1>3, <1>4, <1>5, <1>6

\* The client takes no answer to a garbled call or get for its result.
LEMMA ExcusedClient ==
  ASSUME JamInv, ClientStep
  PROVE  Excused' /\ Acked'
<1>1. /\ RetryInv /\ RetryInv' /\ TypeOK /\ TypeOK' /\ Requests /\ Inbound
      /\ n \in Nat /\ Excused /\ Acked
  BY RetryClient, SessionAssumption, SMTT(30)
     DEF JamInv, RetryInv, TypeInv, TypeOK
<1>2. UNCHANGED <<kind, ran>>
  BY DEF ClientStep, StartRequest, ReadReady, SendBody, MarshalFails, ReadReply,
     MisreadReply, ClientTimeout, ClientEof, Close, ClientCrash, serverVars
<1>3. \A r \in Reqs : Assigns(r)' = Assigns(r)
  BY <1>2 DEF Assigns
<1>4. ASSUME NEW r \in Reqs, r <= n, Overtaken(r) PROVE Overtaken(r)'
  <2>1. PICK q \in 1..(r - 1) : Assigns(q) /\ outcome[q] \in {"error", "unsent"}
    BY <1>4 DEF Overtaken
  <2>2. q \in Reqs /\ q <= n
    BY <1>1, <1>4, SessionAssumption DEF Reqs
  <2>3. outcome'[q] = outcome[q] /\ Assigns(q)'
    BY <1>1, <1>3, <2>1, <2>2, OutcomeStays
  <2> QED
    BY <2>1, <2>3 DEF Overtaken
<1>5. ASSUME ReadReply, ran[n] = <<"garbled">>, outcome'[n] = "ok" PROVE Assigns(n)
  <2>1. 1 \in 1..Len(s2c) /\ cpc = "reply" /\ n \in Reqs
    BY <1>1, <1>5, SessionAssumption DEF ReadReply, TypeOK, Requests, Asks, Reqs
  <2>2. s2c[1].t = "ack"
    BY <1>1, <1>5, <2>1 DEF Acked
  <2>3. TakesAsOk(kind[n], s2c[1])
    BY <1>1, <1>5, <2>1 DEF ReadReply, Settle, TypeOK
  <2>4. kind[n] \in {"newindex", "setglobal"}
    BY <2>2, <2>3 DEF TakesAsOk
  <2> QED
    BY <2>4 DEF Assigns, Cmd, AllKinds
<1>6. Excused'
  <2> SUFFICES ASSUME NEW r \in Reqs, ran[r] = <<"garbled">>
               PROVE  \/ outcome'[r] = "unsent"
                      \/ Overtaken(r)' /\ (outcome'[r] = "ok" => Assigns(r)')
    BY <1>2 DEF Excused
  <2>1. /\ r <= n
        /\ \/ outcome[r] = "unsent"
           \/ Overtaken(r) /\ (outcome[r] = "ok" => Assigns(r))
    BY <1>1, SessionAssumption DEF Requests, Reqs, Excused
  <2>2. CASE outcome[r] # "pending"
    <3>1. outcome'[r] = outcome[r]
      BY <1>1, <2>1, <2>2, OutcomeStays
    <3> QED
      BY <1>3, <1>4, <2>1, <3>1
  <2>3. CASE outcome[r] = "pending"
    <3>1. Overtaken(r)'
      BY <1>4, <2>1, <2>3
    <3>2. ASSUME outcome'[r] = "ok" PROVE Assigns(r)'
      <4>1. ReadReply /\ r = n
        BY <1>1, <2>1, <2>3, <3>2
           DEF ClientStep, StartRequest, ReadReady, SendBody, MarshalFails,
               ReadReply, MisreadReply, ClientTimeout, ClientEof, Close,
               ClientCrash, Settle, TypeOK
      <4> QED
        BY <1>3, <1>5, <3>2, <4>1
    <3> QED
      BY <3>1, <3>2
  <2> QED
    BY <2>2, <2>3
<1>7. Acked'
  <2> SUFFICES ASSUME cpc' = "reply", ran'[n'] = <<"garbled">>
               PROVE  \A i \in 1..Len(s2c') : s2c'[i].t = "ack"
    BY DEF Acked
  <2>1. cpc = "body" /\ s2c' = s2c
    BY DEF ClientStep, StartRequest, ReadReady, SendBody, MarshalFails,
       ReadReply, MisreadReply, ClientTimeout, ClientEof, Close, ClientCrash,
       Settle
  <2>2. s2c' = <<>>
    BY <1>1, <2>1 DEF Inbound
  <2> QED
    BY <2>2, NothingToRead
<1> QED
  BY <1>6, <1>7

\* The client keeps the worker in step.
LEMMA InStepClient ==
  ASSUME JamInv, ClientStep, Serves
  PROVE  Labelled' /\ Ordered' /\ InStep'
<1>1. /\ RetryInv /\ RetryInv' /\ TypeOK /\ Requests /\ n \in Nat /\ n' \in {n, n + 1}
      /\ Labelled /\ Ordered /\ InStep /\ Outbound /\ Wire \in Seq(Tokens)
      /\ UNCHANGED <<kind, spc, scmd, sin, ran>>
  BY RetryClient, ClientWire, WireType, SessionAssumption, SMTT(30)
     DEF JamInv, RetryInv, TypeInv, TypeOK
<1>2. Wire' \in Seq(Tokens)
  BY <1>1, WireMoves DEF RetryInv, TypeInv, TypeOK, Wire
<1>3. \A i \in 1..Len(Wire) : Wire[i].r \in Reqs /\ Wire[i].r \in Nat
  BY <1>1, SessionAssumption DEF Tokens, Reqs
<1>4. \A i \in 1..Len(Wire) : Wire[i].t = "cut" => outcome'[Wire[i].r] = "unsent"
  <2> SUFFICES ASSUME NEW i \in 1..Len(Wire), Wire[i].t = "cut"
               PROVE  outcome'[Wire[i].r] = "unsent"
    OBVIOUS
  <2>1. Wire[i].r \in Reqs /\ Wire[i].r <= n /\ outcome[Wire[i].r] = "unsent"
    BY <1>1, <1>3 DEF Labelled, Ordered
  <2> QED
    BY <1>1, <2>1, OutcomeStays
<1>5. \A r : CmdToken(r)' = CmdToken(r)
  BY <1>1 DEF CmdToken, Token
<1>6. ASSUME \A i \in 1..Len(Wire') : i \in 1..Len(Wire) /\ Wire'[i] = Wire[i],
             \/ Wire' = Wire
             \/ cpc' \notin {"ready", "body"},
             \/ cpc' \notin {"ready", "body"}
             \/ n' = n /\ cpc = "ready"
      PROVE  Labelled' /\ Ordered' /\ InStep'
  <2>1. Labelled'
    BY <1>1, <1>4, <1>5, <1>6 DEF Labelled
  <2>2. Ordered'
    BY <1>1, <1>3, <1>6, SMTT(30) DEF Ordered
  <2>3. ASSUME NEW q \in Reqs, InStepWith(q) PROVE InStepWith(q)'
    <3>1. q <= n'
      BY <1>1, <2>3, SessionAssumption DEF InStepWith, Reqs
    <3>2. Wire' # <<>> => 1 \in 1..Len(Wire')
      BY <1>2
    <3>3. Wire' # <<>> => Wire # <<>> /\ Wire'[1] = Wire[1]
      BY <1>1, <1>6, <3>2
    <3> QED
      BY <1>1, <1>6, <2>3, <3>1, <3>3 DEF InStepWith
  <2> QED
    BY <1>1, <2>1, <2>2, <2>3 DEF InStep
<1>7. ASSUME NEW t \in Tokens, Wire' = Append(Wire, t),
             \/ t = CmdToken(n + 1) /\ n' = n + 1
             \/ /\ cpc = "body" /\ cpc' \notin {"ready", "body"} /\ n' = n
                /\ t.r = n
                /\ \/ t.t = "body"
                   \/ t.t = "cut" /\ outcome'[n] = "unsent" /\ kind[n] # "get"
      PROVE  Labelled' /\ Ordered' /\ InStep'
  <2>1. /\ Len(Wire') = Len(Wire) + 1 /\ Wire'[Len(Wire) + 1] = t /\ Wire' # <<>>
        /\ \A i \in 1..Len(Wire) : Wire'[i] = Wire[i]
        /\ \A i \in 1..Len(Wire') : i \in 1..Len(Wire) \/ (i = Len(Wire) + 1 /\ Wire'[i] = t)
        /\ Wire = <<>> => Wire'[1] = t
        /\ Wire # <<>> => Wire'[1] = Wire[1]
    BY <1>1, <1>7, AppendProperties
  <2>2. t.r \in Reqs /\ t.r = n' /\ t.r \in Nat /\ (t.t = "cmd" => n < t.r)
    BY <1>1, <1>7, TokenShapes, SessionAssumption DEF Tokens, Reqs
  <2>3. /\ t.t = "cmd" => t = CmdToken(t.r) /\ ran[t.r] = <<>>
        /\ t.t = "cut" => outcome'[t.r] = "unsent" /\ kind[t.r] # "get"
    BY <1>1, <1>7, <2>2, TokenShapes DEF Requests
  <2>4. Labelled'
    BY <1>1, <1>4, <1>5, <2>1, <2>3 DEF Labelled
  <2>5. Ordered'
    <3>1. \A i \in 1..Len(Wire') : Wire'[i].r <= n'
      BY <1>1, <1>3, <2>1, <2>2 DEF Ordered
    <3>2. ASSUME NEW i \in 1..Len(Wire'), NEW j \in 1..Len(Wire'), i < j
          PROVE  /\ Wire'[i].r <= Wire'[j].r
                 /\ Wire'[j].t = "cmd" => Wire'[i].r < Wire'[j].r
      <4>1. i \in 1..Len(Wire) /\ Wire'[i] = Wire[i] /\ Len(Wire) \in Nat
        BY <1>1, <2>1, <3>2
      <4>2. CASE j \in 1..Len(Wire)
        BY <1>1, <2>1, <3>2, <4>1, <4>2 DEF Ordered
      <4>3. CASE Wire'[j] = t
        BY <1>1, <1>3, <2>2, <4>1, <4>3 DEF Ordered
      <4> QED
        BY <2>1, <4>2, <4>3
    <3> QED
      BY <3>1, <3>2 DEF Ordered
  <2>6. IsBody(t) => cpc = "body" /\ t.r = n /\ cpc' \notin {"ready", "body"}
    BY <1>7, TokenShapes
  <2>7. ASSUME NEW q \in Reqs, InStepWith(q) PROVE InStepWith(q)'
    <3>1. q \in Nat /\ q <= n /\ q <= n'
      BY <1>1, <2>7, SessionAssumption DEF InStepWith, Reqs
    <3>2. \A i \in 1..Len(Wire') : Wire'[i].t = "cmd" => q < Wire'[i].r
      BY <1>1, <2>1, <2>2, <2>7, <3>1 DEF InStepWith
    <3>3. IsBody(Wire'[1]) => Wire'[1].r = q
      BY <1>1, <2>1, <2>6, <2>7 DEF InStepWith
    <3> QED
      BY <1>1, <2>1, <2>7, <3>1, <3>2, <3>3 DEF InStepWith
  <2> QED
    BY <1>1, <2>4, <2>5, <2>7 DEF InStep
<1>8. ASSUME Wire' = Append(Wire, CmdToken(n + 1)), n + 1 \in Reqs, n' = n + 1
      PROVE  Labelled' /\ Ordered' /\ InStep'
  BY <1>1, <1>7, <1>8, TokenTypes
<1>9. ASSUME cpc = "body", cpc' \notin {"ready", "body"}, n' = n,
             \/ Wire' = Append(Wire, Body(n))
             \/ /\ Wire' = Append(Wire, CutBody(n))
                /\ outcome'[n] = "unsent" /\ kind[n] # "get"
      PROVE  Labelled' /\ Ordered' /\ InStep'
  <2>1. n \in Reqs
    BY <1>1, <1>9 DEF Requests, Asks, TypeOK, Reqs
  <2>2. Body(n) \in Tokens /\ CutBody(n) \in Tokens
    BY <1>1, <2>1, TokenTypes
  <2>3. ASSUME Wire' = Append(Wire, Body(n)) PROVE Labelled' /\ Ordered' /\ InStep'
    BY <1>7, <1>9, <2>2, <2>3, TokenShapes
  <2>4. ASSUME Wire' = Append(Wire, CutBody(n)),
               outcome'[n] = "unsent", kind[n] # "get"
        PROVE  Labelled' /\ Ordered' /\ InStep'
    BY <1>7, <1>9, <2>2, <2>4, TokenShapes
  <2> QED
    BY <1>9, <2>3, <2>4
<1>10. ASSUME Part(Wire', Wire, 0), cpc' = "closed"
       PROVE  Labelled' /\ Ordered' /\ InStep'
  <2>1. \A i \in 1..Len(Wire') : i \in 1..Len(Wire) /\ Wire'[i] = Wire[i]
    BY <1>1, <1>2, <1>10 DEF Part
  <2> QED
    BY <1>6, <1>10, <2>1
<1> QED
  BY <1>1, <1>6, <1>8, <1>9, <1>10, ClientWire

LEMMA JamClient == JamInv /\ ClientStep => JamInv'
<1> SUFFICES ASSUME JamInv, ClientStep PROVE JamInv'
  OBVIOUS
<1>1. RetryInv' /\ Excused' /\ Acked' /\ Settled'
  BY RetryClient, ExcusedClient, SettledClient DEF JamInv
<1>2. spc' = spc
  BY DEF ClientStep, StartRequest, ReadReady, SendBody, MarshalFails, ReadReply,
     MisreadReply, ClientTimeout, ClientEof, Close, ClientCrash, serverVars
<1> QED
  BY <1>1, <1>2, InStepClient DEF JamInv, Serves

\* What a worker in step executes is what was asked; or the first part of a
\* body that the program was told could not be sent; or a body behind another
\* command, which read_cmd_newindex read instead of that of an earlier request.
LEMMA RunsInStep ==
  ASSUME JamInv, spc = "body", NEW b \in 1..Len(sin), NEW h, Execution(b, h)
  PROVE  LET r == sin[b].r IN
         \/ h = "asked"
         \/ outcome[r] = "unsent"
         \/ scmd = CMD_NEWINDEX /\ Overtaken(r)
<1> DEFINE r == sin[b].r
<1>1. /\ TypeOK /\ Requests /\ Outbound /\ Labelled /\ Ordered /\ InStep /\ Settled
      /\ sin \in Seq(Tokens) /\ Wire \in Seq(Tokens) /\ n \in Nat
  BY WireType, SessionAssumption DEF JamInv, RetryInv, TypeInv, Serves, TypeOK
<1>2. PICK q \in Reqs : InStepWith(q)
  BY <1>1 DEF InStep
<1>3. /\ IsBody(sin[b]) /\ r \in Reqs /\ b \in 1..Len(Wire) /\ Wire[b] = sin[b]
      /\ 1 \in 1..Len(Wire) /\ 1 \in 1..Len(sin) /\ Wire[1] = sin[1] /\ Wire # <<>>
  <2>1. c2s \in Seq(Tokens) /\ cout \in Seq(Tokens)
    BY <1>1 DEF TypeOK
  <2>2. Wire[1] = sin[1]
    BY <1>1, <2>1 DEF Wire
  <2> QED
    BY <1>1, <2>2, RunsFreshBody DEF Execution
<1>4. CASE b = 1
  <2>1. r = q /\ scmd = Cmd[kind[sin[1].r]] /\ kind[sin[1].r] \in AllKinds
    BY <1>1, <1>2, <1>3, <1>4, SessionAssumption DEF InStepWith, TypeOK
  <2>2. sin[1].t = "cut" => outcome[r] = "unsent" /\ kind[sin[1].r] # "get"
    BY <1>1, <1>3, <1>4 DEF Labelled
  <2>3. CASE CanRun(scmd, sin) /\ h = HowRun(scmd, sin[1])
    <3>1. sin[1].t = "body"
      BY <1>3, <1>4, <2>1, <2>2, <2>3
         DEF CanRun, IsBody, Asked, Cmd, AllKinds, CMD_CALL, CMD_GET, CMD_NEWINDEX
    <3> QED
      BY <2>1, <2>3, <3>1 DEF HowRun, Asked
  <2>4. CASE Garbled(scmd, sin, 1) # {}
    <3>1. ~Misread(scmd, sin, 1)
      BY <1>3, <1>4, <2>1 DEF Misread, IsBody, Asked
    <3>2. Lacking(scmd, sin) # {}
      <4> SUFFICES ASSUME Lacking(scmd, sin) = {} PROVE FALSE
        OBVIOUS
      <4>1. {ValueEnd(sin)[k] : k \in Lacking(scmd, sin)} = {}
        OBVIOUS
      <4>2. Garbled(scmd, sin, 1) = {}
        BY <3>1, <4>1 DEF Garbled
      <4> QED
        BY <2>4, <4>2
    <3>3. Asked(sin[1]) = scmd /\ ~(scmd = CMD_NEWINDEX /\ kind[sin[1].r] = "get")
      BY <2>1 DEF Asked, Cmd, AllKinds, CMD_CALL, CMD_GET, CMD_NEWINDEX
    <3>4. sin[1].t # "body"
      BY <3>2, <3>3 DEF Lacking
    <3> QED
      BY <1>3, <1>4, <2>2, <3>4 DEF IsBody
  <2> QED
    BY <1>4, <2>3, <2>4 DEF Execution
<1>5. CASE b # 1
  <2>1. Misread(scmd, sin, b)
    BY <1>5 DEF Execution, Garbled
  <2>2. scmd = CMD_NEWINDEX /\ sin[1].t = "cmd"
    BY <1>5, <2>1 DEF Misread
  <2>3. Assigns(q)
    BY <1>2, <2>2 DEF Assigns, InStepWith
  <2>4. q < sin[1].r /\ sin[1].r <= r /\ r <= n /\ q \in Nat /\ r \in Nat /\ sin[1].r \in Nat
    <3>1. sin[1].r \in Reqs
      BY <1>1, <1>3 DEF Tokens
    <3>2. 1 < b
      BY <1>5
    <3> QED
      BY <1>1, <1>2, <1>3, <2>2, <3>1, <3>2, SessionAssumption
         DEF InStepWith, Ordered, Reqs
  <2>5. q \in 1..(r - 1) /\ q < n
    BY <1>1, <2>4 DEF Reqs
  <2>6. outcome[q] \in {"error", "unsent"}
    <3>1. outcome[q] \notin {"none", "pending"}
      BY <1>1, <2>5 DEF Settled
    <3>2. outcome[q] \notin {"ok", "raised"}
      BY <1>1, <1>2 DEF Requests, InStepWith
    <3> QED
      BY <1>1, <3>1, <3>2 DEF TypeOK
  <2> QED
    BY <2>2, <2>3, <2>5, <2>6 DEF Overtaken
<1> QED
  BY <1>4, <1>5

\* The worker keeps itself in step.
LEMMA JamServer ==
  ASSUME FALSE \notin SwitchJams, JamInv, ServerStep
  PROVE  JamInv'
<1>1. /\ RetryInv /\ RetryInv' /\ TypeOK /\ TypeOK' /\ Requests /\ Inbound /\ Inbound'
      /\ n \in Nat /\ Excused /\ Acked /\ Settled
      /\ (Serves => Labelled /\ Ordered /\ InStep /\ Outbound)
      /\ sin \in Seq(Tokens) /\ c2s \in Seq(Tokens) /\ cout \in Seq(Tokens)
      /\ s2c \in Seq(Tokens)
      /\ UNCHANGED <<kind, n, outcome, answer, cpc, cin, cout, cjam, copen>>
  <2>1. UNCHANGED <<kind, n, outcome, answer, cpc, cin, cout, cjam, copen>>
    BY DEF ServerStep, DispatchJammed, Dispatch,
       ServerReads, Run, RunGarbled, RunRaises, ServerCrashes, ServerFatal,
       ServerTimeout, ServerEof, clientVars
  <2> QED
    BY <2>1, RetryServer, SessionAssumption, SMTT(20) DEF JamInv, RetryInv, TypeInv, TypeOK
<1>2. \A r : CmdToken(r)' = CmdToken(r) /\ Assigns(r)' = Assigns(r)
                                        /\ Overtaken(r)' = Overtaken(r)
  BY <1>1 DEF CmdToken, Token, Assigns, Overtaken
<1>3. Settled'
  BY <1>1 DEF Settled
<1>4. ran' = ran => Excused'
  BY <1>1, <1>2 DEF Excused
<1>5. ASSUME ran' = ran, s2c' = s2c \/ \E t : s2c' = Append(s2c, Ready(t)) /\ Ready(t) \in Tokens
      PROVE  Acked'
  <2>1. CASE s2c' = s2c
    BY <1>1, <1>5, <2>1 DEF Acked
  <2>2. ASSUME NEW t, s2c' = Append(s2c, Ready(t)), Ready(t) \in Tokens, cpc = "reply"
        PROVE  FALSE
    <3>1. Len(s2c) + 1 \in 1..Len(s2c') /\ s2c'[Len(s2c) + 1] = Ready(t)
      BY <1>1, <2>2, AppendProperties
    <3>2. s2c'[Len(s2c) + 1].b # READY
      BY <1>1, <2>2, <3>1 DEF Inbound
    <3> QED
      BY <3>1, <3>2, TokenShapes
  <2> QED
    BY <1>1, <1>5, <2>1, <2>2 DEF Acked
<1>6. CASE Dispatch
  <2>1. /\ spc = "idle" /\ UNCHANGED ran /\ Labelled /\ Ordered /\ Outbound
        /\ sin = <<>> /\ ~BodyIn(Wire) /\ 1 \in 1..Len(c2s)
    BY <1>1, <1>6 DEF Dispatch, Serves, Outbound, Permits
  <2>2. Excused' /\ Acked'
    <3>1. Ready(c2s[1].r) \in Tokens
      BY <1>1, <2>1, TokenTypes DEF Tokens
    <3>2. s2c' = s2c \/ s2c' = Append(s2c, Ready(c2s[1].r))
      BY <1>6 DEF Dispatch
    <3> QED
      BY <1>4, <1>5, <2>1, <3>1, <3>2
  <2>3. CASE spc' = "closed"
    BY <1>1, <1>3, <2>2, <2>3 DEF JamInv, Serves
  <2>4. CASE spc' # "closed"
    <3>1. PICK m \in 1..Len(c2s) :
            /\ c2s' = SubSeq(c2s, m + 1, Len(c2s))
            /\ WriteFlows(sjam, SubSeq(c2s, 2, m))
            /\ spc' = "body" /\ sin' = <<>>
      BY <1>6, <2>4 DEF Dispatch, Reap
    <3>2. SubSeq(c2s, 2, m) = <<>>
      BY <3>1 DEF WriteFlows
    <3>3. m = 1
      <4>1. \A i \in 2..m : c2s[i] \in Tokens
        BY <1>1
      <4>2. m >= 2 => Len(SubSeq(c2s, 2, m)) = m - 1
        BY <4>1, SubSeqProperties
      <4> QED
        BY <3>2, <4>2
    <3>4. /\ Part(Wire', Wire, 1) /\ 1 + Len(Wire') = Len(Wire)
          /\ Wire \in Seq(Tokens) /\ Wire' \in Seq(Tokens)
      BY <1>1, <2>1, <3>1, <3>3, DispatchTakes
    <3>5. \A i \in 1..Len(Wire') : i + 1 \in 1..Len(Wire) /\ Wire'[i] = Wire[i + 1]
      BY <3>4 DEF Part
    <3>6. Labelled'
      BY <1>1, <2>1, <3>5 DEF Labelled, CmdToken, Token
    <3>7. Ordered'
      BY <1>1, <2>1, <3>4, <3>5, SMTT(30) DEF Ordered
    <3>8. Wire # <<>> /\ Wire[1] = c2s[1] /\ 1 \in 1..Len(Wire)
      BY <1>1, <2>1 DEF Wire
    <3>9. scmd' = c2s[1].b /\ c2s[1].t = "cmd"
      BY <1>6 DEF Dispatch
    <3>10. /\ c2s[1].r \in Reqs /\ c2s[1] = CmdToken(c2s[1].r)
           /\ ran[c2s[1].r] = <<>> /\ c2s[1].r <= n
      BY <1>1, <2>1, <3>8, <3>9 DEF Labelled, Ordered, Tokens
    <3>11. scmd' = Cmd[kind'[c2s[1].r]]
      BY <1>1, <3>9, <3>10 DEF CmdToken, Token
    <3>12. Wire' # <<>> => ~IsBody(Wire'[1])
      BY <2>1, <3>4, <3>5 DEF BodyIn
    <3>13. Wire' = <<>> /\ cpc' \in {"ready", "body"} => n' = c2s[1].r
      <4> SUFFICES ASSUME Wire' = <<>>, cpc \in {"ready", "body"} PROVE n = c2s[1].r
        BY <1>1
      <4>1. cpc = "ready"
        BY <2>1 DEF Outbound, Permits
      <4>2. Len(Wire) = 1
        BY <3>4
      <4>3. c2s[1] = CmdToken(n)
        BY <2>1, <3>8, <4>1, <4>2 DEF Outbound, LastSent
      <4> QED
        BY <4>3, TokenShapes
    <3>14. \A i \in 1..Len(Wire') : Wire'[i].t = "cmd" => c2s[1].r < Wire'[i].r
      BY <2>1, <3>5, <3>8 DEF Ordered
    <3>15. InStep'
      <4>1. PICK z \in Reqs : z = c2s[1].r
        BY <3>10
      <4>2. /\ scmd' = Cmd[kind'[z]] /\ z <= n' /\ ran'[z] = <<>>
            /\ \A i \in 1..Len(Wire') : Wire'[i].t = "cmd" => z < Wire'[i].r
            /\ Wire' # <<>> => ~IsBody(Wire'[1])
            /\ Wire' = <<>> /\ cpc' \in {"ready", "body"} => n' = z
        BY <1>1, <2>1, <3>10, <3>11, <3>12, <3>13, <3>14, <4>1
      <4>3. InStepWith(z)'
        BY <4>2 DEF InStepWith
      <4> QED
        BY <4>3 DEF InStep
    <3> QED
      BY <1>1, <1>3, <2>2, <3>6, <3>7, <3>15 DEF JamInv
  <2> QED
    BY <2>3, <2>4
<1>7. CASE ServerReads
  <2>1. spc = "body" /\ UNCHANGED <<spc, scmd, ran, s2c>>
    BY <1>7 DEF ServerReads
  <2>2. Wire' = Wire
    BY <1>1, <1>7, ReadsKeep
  <2>3. Labelled' /\ Ordered'
    BY <1>1, <1>2, <2>1, <2>2 DEF Serves, Labelled, Ordered
  <2>4. InStep'
    BY <1>1, <2>1, <2>2 DEF Serves, InStep, InStepWith
  <2> QED
    BY <1>1, <1>3, <1>4, <1>5, <2>1, <2>3, <2>4 DEF JamInv
<1>8. ASSUME NEW b \in 1..Len(sin), NEW h \in {"asked", "garbled"}, spc = "body",
             Execution(b, h)
      PROVE  /\ Excused'
             /\ \A i \in 1..Len(Wire) : i > b /\ Wire[i].t = "cmd" =>
                  ran'[Wire[i].r] = ran[Wire[i].r]
             /\ (s2c' = s2c \/ \E t \in Replies(scmd, sin[b].r) : s2c' = Append(s2c, t))
                => Acked'
  <2> DEFINE r == sin[b].r
  <2>1. Outbound /\ Labelled /\ Ordered /\ IsBody(sin[b]) /\ Execute(r, h)
    BY <1>1, <1>8 DEF Serves, Execution
  <2>2. /\ ran'[r] = <<h>> /\ ran[r] = <<>> /\ r \in Reqs
        /\ \A q \in Reqs : q # r => ran'[q] = ran[q]
        /\ b \in 1..Len(Wire) /\ Wire[b] = sin[b] /\ (cpc = "reply" => r = n)
    <3>1. /\ ran[r] = <<>> /\ r \in Reqs
          /\ b \in 1..Len(Wire) /\ Wire[b] = sin[b] /\ (cpc = "reply" => r = n)
      BY <1>1, <2>1, RunsFreshBody
    <3>2. UNCHANGED <<n, outcome, answer, cpc>>
      BY <1>1
    <3>3. ran'[r] = <<h>> /\ \A q \in Reqs : q # r => ran'[q] = ran[q]
      BY <1>1, <2>1, <3>2, RanRecorded
    <3> QED
      BY <3>1, <3>3
  <2>3. \/ h = "asked"
        \/ outcome[r] = "unsent"
        \/ scmd = CMD_NEWINDEX /\ Overtaken(r)
    BY <1>8, RunsInStep
  <2>4. <<"asked">> # <<"garbled">>
    OBVIOUS
  <2>5. outcome[r] # "ok"
    BY <1>1, <2>2 DEF Requests
  <2>6. Excused'
    <3> SUFFICES ASSUME NEW q \in Reqs, ran'[q] = <<"garbled">>
                 PROVE  \/ outcome[q] = "unsent"
                        \/ Overtaken(q) /\ (outcome[q] = "ok" => Assigns(q))
      BY <1>1, <1>2 DEF Excused
    <3>1. CASE q = r
      BY <2>2, <2>3, <2>4, <2>5, <3>1
    <3>2. CASE q # r
      BY <1>1, <2>2, <3>2 DEF Excused
    <3> QED
      BY <3>1, <3>2
  <2>7. ASSUME NEW i \in 1..Len(Wire), i > b, Wire[i].t = "cmd"
        PROVE  ran'[Wire[i].r] = ran[Wire[i].r]
    <3>1. Wire \in Seq(Tokens)
      BY <1>1, WireType
    <3>2. Wire[i].r \in Reqs
      BY <3>1 DEF Tokens
    <3>3. r < Wire[i].r
      BY <2>1, <2>2, <2>7 DEF Ordered
    <3>4. r # Wire[i].r
      BY <2>2, <3>2, <3>3, SessionAssumption DEF Reqs
    <3> QED
      BY <2>2, <3>2, <3>4
  <2>8. ASSUME s2c' = s2c \/ \E t \in Replies(scmd, r) : s2c' = Append(s2c, t),
               cpc = "reply", ran'[n] = <<"garbled">>
        PROVE  \A i \in 1..Len(s2c') : s2c'[i].t = "ack"
    <3>1. r = n /\ outcome[n] = "pending" /\ h = "garbled"
      BY <1>1, <2>2, <2>4, <2>8 DEF Requests, Asks
    <3>2. scmd = CMD_NEWINDEX
      BY <2>3, <3>1
    <3>3. s2c = <<>>
      BY <1>1, <2>2, <2>8, <3>1 DEF Inbound
    <3>4. ASSUME NEW t \in Replies(scmd, r), s2c' = Append(s2c, t)
          PROVE  s2c' = <<t>> /\ t.t = "ack"
      BY <3>2, <3>3, <3>4, SingleFlush
         DEF Replies, Token, CMD_CALL, CMD_GET, CMD_NEWINDEX
    <3>5. \A t : Len(<<t>>) = 1 /\ <<t>>[1] = t
      BY SingleFlush
    <3> QED
      BY <2>8, <3>3, <3>4, <3>5, NothingToRead
  <2> QED
    BY <1>1, <2>6, <2>7, <2>8 DEF Acked
<1>9. ASSUME NEW b \in 1..Len(sin), NEW h \in {"asked", "garbled"}, spc = "body",
             Execution(b, h), NEW left, Reply(sin[b].r, left), EndCommand,
             UNCHANGED c2s
      PROVE  JamInv'
  <2>1. Labelled /\ Ordered /\ spc' = "idle" /\ sin' = <<>> /\ sin # <<>>
    BY <1>1, <1>9 DEF Serves, EndCommand
  <2>2. PICK z \in Nat : z = Len(sin)
    BY <1>1
  <2>3. \A i \in 1..Len(Wire') :
          i + z \in 1..Len(Wire) /\ Wire'[i] = Wire[i + z] /\ i + z > b
    <3>1. Part(Wire', Wire, z) /\ Wire' \in Seq(Tokens) /\ Wire \in Seq(Tokens)
      BY <1>1, <1>9, <2>1, <2>2, WireDrops, WireType DEF Wire, RetryInv, TypeInv
    <3> QED
      BY <2>2, <3>1 DEF Part
  <2>4. Labelled'
    <3>1. \A i \in 1..Len(Wire') :
            Wire'[i].t = "cmd" => ran'[Wire'[i].r] = ran[Wire'[i].r]
      BY <1>8, <1>9, <2>3
    <3>2. \A i \in 1..Len(Wire) :
            /\ Wire[i].t = "cmd" => Wire[i] = Token("cmd", Cmd[kind[Wire[i].r]], Wire[i].r)
                                    /\ ran[Wire[i].r] = <<>>
            /\ Wire[i].t = "cut" => outcome[Wire[i].r] = "unsent" /\ kind[Wire[i].r] # "get"
      BY <2>1 DEF Labelled, CmdToken
    <3>3. ASSUME NEW i \in 1..Len(Wire')
          PROVE  /\ Wire'[i].t = "cmd" =>
                      /\ Wire'[i] = Token("cmd", Cmd[kind'[Wire'[i].r]], Wire'[i].r)
                      /\ ran'[Wire'[i].r] = <<>>
                 /\ Wire'[i].t = "cut" =>
                      outcome'[Wire'[i].r] = "unsent" /\ kind'[Wire'[i].r] # "get"
      <4>1. i + z \in 1..Len(Wire) /\ Wire'[i] = Wire[i + z]
        BY <2>3
      <4> QED
        BY <1>1, <3>1, <3>2, <4>1
    <3> QED
      BY <3>3 DEF Labelled, CmdToken
  <2>5. Ordered'
    <3>1. \A i, j \in 1..Len(Wire') : i < j => i + z < j + z
      BY <2>2
    <3>2. ASSUME NEW i \in 1..Len(Wire') PROVE Wire'[i].r <= n'
      BY <1>1, <2>1, <2>3 DEF Ordered
    <3>3. ASSUME NEW i \in 1..Len(Wire'), NEW j \in 1..Len(Wire'), i < j
          PROVE  /\ Wire'[i].r <= Wire'[j].r
                 /\ Wire'[j].t = "cmd" => Wire'[i].r < Wire'[j].r
      BY <2>1, <2>3, <3>1, <3>3 DEF Ordered
    <3> QED
      BY <3>2, <3>3 DEF Ordered
  <2>6. s2c' = s2c \/ \E t \in Replies(scmd, sin[b].r) : s2c' = Append(s2c, t)
    BY <1>9 DEF Reply
  <2> QED
    BY <1>1, <1>3, <1>8, <1>9, <2>1, <2>4, <2>5, <2>6 DEF JamInv, InStep
<1>10. CASE Run
  <2>1. 1 \in 1..Len(sin) /\ Execution(1, HowRun(scmd, sin[1]))
        /\ HowRun(scmd, sin[1]) \in {"asked", "garbled"}
    BY <1>1, <1>10, RunsABody DEF Run, Execution, HowRun
  <2> QED
    BY <1>9, <1>10, <2>1 DEF Run
<1>11. CASE RunGarbled
  <2>1. PICK b \in 1..Len(sin) :
          \E left \in Garbled(scmd, sin, b) :
            Execute(sin[b].r, "garbled") /\ Reply(sin[b].r, left)
    BY <1>11 DEF RunGarbled
  <2>2. Execution(b, "garbled")
    BY <1>1, <2>1, RunsABody DEF Execution
  <2> QED
    BY <1>9, <1>11, <2>1, <2>2 DEF RunGarbled
<1>12. CASE RunRaises
  <2>1. spc' = "dead" /\ s2c' = s2c
    BY <1>12 DEF RunRaises, Die
  <2>2. CASE ran' = ran
    BY <1>1, <1>3, <1>4, <1>5, <2>1, <2>2 DEF JamInv, Serves
  <2>3. CASE ran' # ran
    <3>1. PICK b \in 1..Len(sin), h \in {"asked", "garbled"} :
            spc = "body" /\ Execution(b, h)
      BY <1>1, <2>3, OnlyBodiesRun
    <3> QED
      BY <1>1, <1>3, <1>8, <2>1, <3>1 DEF JamInv, Serves
  <2> QED
    BY <2>2, <2>3
<1>13. ASSUME \/ DispatchJammed \/ ServerCrashes \/ ServerFatal \/ ServerTimeout
              \/ ServerEof
       PROVE  JamInv'
  <2>1. ran' = ran /\ s2c' = s2c /\ spc' \in {"closed", "dead"}
    BY <1>13 DEF DispatchJammed, ServerCrashes, ServerFatal, ServerTimeout,
       ServerEof, Reap, Die
  <2> QED
    BY <1>1, <1>3, <1>4, <1>5, <2>1 DEF JamInv, Serves
<1> QED
  BY <1>6, <1>7, <1>10, <1>11, <1>12, <1>13 DEF ServerStep

\* On such a C library the two ends are out of step only in ways that end in
\* an error, or with an assignment that follows a failed one.
LEMMA JamInductive ==
  ASSUME FALSE \notin SwitchJams
  PROVE  Spec => []JamInv
<1>1. Init => JamInv
  <2> SUFFICES ASSUME Init PROVE JamInv
    OBVIOUS
  <2>1. Wire = <<>> /\ Excused /\ Acked /\ Settled
    BY SessionAssumption DEF Init, Wire, Excused, Acked, Settled, Reqs
  <2>2. Labelled /\ Ordered /\ InStep
    BY <2>1 DEF Init, Labelled, Ordered, InStep
  <2> QED
    BY <2>1, <2>2, RetryInit DEF JamInv
<1>2. JamInv /\ UNCHANGED vars => JamInv'
  <2> SUFFICES ASSUME JamInv, UNCHANGED vars PROVE JamInv'
    OBVIOUS
  <2> USE DEF vars, clientVars, serverVars
  <2>1. RetryInv' /\ Wire' = Wire
    BY RetryStutter DEF JamInv, Wire
  <2>2. Excused' /\ Acked' /\ Settled'
    BY DEF JamInv, Excused, Acked, Settled, Overtaken, Assigns
  <2>3. Serves' => Labelled' /\ Ordered' /\ InStep'
    BY <2>1 DEF JamInv, Serves, Labelled, Ordered, InStep, InStepWith, CmdToken, Token
  <2> QED
    BY <2>1, <2>2, <2>3 DEF JamInv
<1>3. JamInv /\ [Next]_vars => JamInv'
  BY <1>2, JamClient, JamServer DEF Next
<1> QED
  BY <1>1, <1>3, PTL DEF Spec

\* Where a write on unread input fails, the failing stream protects the program
\* that retries: a call, a get, and an assignment that follows no failed one,
\* that returned without an error was executed as it was asked, and once, and
\* returned its own reply.
THEOREM JamOkUnlessOvertaken ==
  ASSUME FALSE \notin SwitchJams
  PROVE  Spec => []OkUnlessOvertaken
<1>1. JamInv => OkUnlessOvertaken
  <2> SUFFICES ASSUME JamInv, NEW r \in Reqs, outcome[r] = "ok"
               PROVE  /\ answer[r] = r
                      /\ \/ ran[r] = <<"asked">>
                         \/ ran[r] = <<"garbled">> /\ Assigns(r) /\ Overtaken(r)
    BY DEF OkUnlessOvertaken
  <2>1. ran[r] # <<>> /\ answer[r] = r /\ ran[r] \in {<<>>, <<"asked">>, <<"garbled">>}
    BY DEF JamInv, RetryInv, Requests
  <2>2. ran[r] = <<"garbled">> => Assigns(r) /\ Overtaken(r)
    BY DEF JamInv, Excused
  <2> QED
    BY <2>1, <2>2
<1> QED
  BY <1>1, JamInductive, PTL
=============================================================================
