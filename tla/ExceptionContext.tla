-------------------------- MODULE ExceptionContext --------------------------
(***************************************************************************)
(* The two ways out of a function of the library.  Throw jumps to the      *)
(* setjmp buffer that the_exception_context points to, and Try and Catch   *)
(* keep that pointer: each Try puts its own buffer there and, at its end   *)
(* or in its Catch, puts the one it found back.  A Lua error jumps to the  *)
(* innermost lua_pcall, over any Try there is, and leaves the pointer as   *)
(* it is.                                                                  *)
(*                                                                         *)
(* The C stack of one process: Lua code (under a lua_pcall), the functions *)
(* with a Try, and rpc_server, which has none.  A buffer is known by the   *)
(* position of its frame.                                                  *)
(***************************************************************************)
EXTENDS Naturals

CONSTANT MaxDepth  \* how deep C and Lua calls nest (LUAI_MAXCCALLS)

ASSUME DepthAssumption == MaxDepth \in Nat \ {0}

VARIABLES
  frames,   \* the stack: what runs in each frame, the buffer its Try found,
            \* and whether a Lua error has come to it out of another Try
  depth,    \* its height
  penv,     \* the_exception_context->penv; 0 is a null pointer
  handler,  \* a handler is set by rpc.on_error
  ended     \* "no", or how a Throw went astray: "wild", "uncaught"

vars == <<frames, depth, penv, handler, ended>>

\* The functions with a Try: a request (helper_call, helper_get,
\* helper_newindex), rpc_client, rpc_dispatch_worker, rpc_dispatch_accept.
Tries == {"request", "connect", "dispatch", "accept"}

\* Where a frame is: in Lua code, in rpc_server before its loop or in it, in a
\* Try, in its Catch, and there past the call of the handler.
Places == {"lua", "opening", "loop", "try", "catch", "handled"}

Frame(k, a, p) == [kind |-> k, at |-> a, prev |-> p, skipped |-> FALSE]
LuaFrame == Frame("lua", "lua", 0)

Init ==
  /\ frames = [d \in 1..MaxDepth |-> LuaFrame]
  /\ depth = 1
  /\ penv = 0
  /\ handler = FALSE
  /\ ended = "no"

Top == frames[depth]

Push(f) ==
  /\ depth < MaxDepth
  /\ frames' = [frames EXCEPT ![depth + 1] = f]
  /\ depth' = depth + 1

\* What is above the new top is gone.
Cut(h) ==
  /\ frames' = [d \in 1..MaxDepth |-> IF d <= h THEN frames[d] ELSE LuaFrame]
  /\ depth' = h

Enter(a) == frames' = [frames EXCEPT ![depth].at = a]

-----------------------------------------------------------------------------
(* Lua code.                                                               *)

\* rpc.on_error.
OnError ==
  /\ Top.at = "lua"
  /\ handler' \in BOOLEAN
  /\ UNCHANGED <<frames, depth, penv, ended>>

\* The program's own pcall.
Protect ==
  /\ Top.at = "lua"
  /\ Push(LuaFrame)
  /\ UNCHANGED <<penv, handler, ended>>

\* A lua_pcall returns, or catches an error of the Lua code in it.
LuaEnds ==
  /\ Top.at = "lua"
  /\ depth > 1
  /\ Cut(depth - 1)
  /\ UNCHANGED <<penv, handler, ended>>

-----------------------------------------------------------------------------
(* Try, Throw, Catch.                                                      *)

EnterTry(k) ==
  /\ Top.at = IF k \in {"request", "connect"} THEN "lua" ELSE "loop"
  /\ Push(Frame(k, "try", penv))
  /\ penv' = depth + 1
  /\ UNCHANGED <<handler, ended>>

\* Mutant: exception__prev is put back only in the Catch.
TryEndsKeeps ==
  /\ Top.at = "try"
  /\ Cut(depth - 1)
  /\ UNCHANGED <<penv, handler, ended>>

TryEnds ==
  /\ Top.at = "try"
  /\ penv' = Top.prev
  /\ Cut(depth - 1)
  /\ UNCHANGED <<handler, ended>>

\* The longjmp of Throw lands in the Try it was thrown in, or in a frame that
\* is gone.
Throw ==
  /\ Top.at = "try"
  /\ IF penv = depth
     THEN Enter("catch") /\ penv' = Top.prev /\ UNCHANGED ended
     ELSE ended' = "wild" /\ UNCHANGED <<frames, penv>>
  /\ UNCHANGED <<depth, handler>>

\* read_cmd_call calls the function, and deal_with_error the handler: for the
\* error in a reply (or for a host rpc_client does not find) inside the Try.
CallLua ==
  /\ Top.at = "try"
  /\ Top.kind = "dispatch" \/ (Top.kind \in {"request", "connect"} /\ handler)
  /\ Push(LuaFrame)
  /\ UNCHANGED <<penv, handler, ended>>

\* The Catch of a request, and that of a fatal exception in
\* rpc_dispatch_worker, report the error.
CallHandler ==
  /\ Top.at = "catch"
  /\ Top.kind \in {"request", "dispatch"}
  /\ handler
  /\ depth < MaxDepth
  /\ frames' = [frames EXCEPT ![depth].at = "handled",
                              ![depth + 1] = LuaFrame]
  /\ depth' = depth + 1
  /\ UNCHANGED <<penv, handler, ended>>

\* A nonfatal exception in rpc_dispatch_worker only dooms the worker, and
\* rpc_dispatch_accept deletes it.
CatchEnds ==
  /\ Top.at = "handled" \/ (Top.at = "catch" /\ Top.kind \in {"dispatch", "accept"})
  /\ Cut(depth - 1)
  /\ UNCHANGED <<penv, handler, ended>>

-----------------------------------------------------------------------------
(* Lua errors in C.                                                        *)

\* The innermost lua_pcall below the top; the error ends it too, but for the
\* program's prompt.
Catcher(p) ==
  /\ p \in 1..depth-1
  /\ frames[p].at = "lua"
  /\ \A d \in p+1..depth-1 : frames[d].at # "lua"

Landing(p) == IF p = 1 THEN 1 ELSE p - 1

\* The innermost Try of the lowest h frames of the stack s.
Innermost(s, m, h) ==
  /\ m \in 1..h
  /\ s[m].at = "try"
  /\ \A d \in m+1..h : s[d].at # "try"

CutAndSkip(h) ==
  /\ frames' = [d \in 1..MaxDepth |->
                  IF Innermost(frames, d, h) THEN [frames[d] EXCEPT !.skipped = TRUE]
                  ELSE IF d <= h THEN frames[d] ELSE LuaFrame]
  /\ depth' = h

\* luaL_error inside a Try: the error in a reply when no handler is set, an
\* argument or a result that cannot be sent, a path through what is no table,
\* bad arguments of rpc.client.
RaisesInTry ==
  /\ Top.at = "try"
  /\ Top.kind \in {"request", "connect", "dispatch"}
  /\ \E p \in 1..depth-1 :
       /\ Catcher(p)
       /\ CutAndSkip(Landing(p))
  /\ UNCHANGED <<penv, handler, ended>>

\* luaL_error in a Catch: rpc_client always, the others without a handler.
RaisesInCatch ==
  /\ Top.at = "catch"
  /\ Top.kind = "connect" \/ (Top.kind \in {"request", "dispatch"} /\ ~handler)
  /\ \E p \in 1..depth-1 : Catcher(p) /\ Cut(Landing(p))
  /\ UNCHANGED <<penv, handler, ended>>

-----------------------------------------------------------------------------
(* rpc_server.                                                             *)

StartServer ==
  /\ Top.at = "lua"
  /\ Push(Frame("server", "opening", 0))
  /\ UNCHANGED <<penv, handler, ended>>

\* server_create opens, binds and listens.
ServerOpens ==
  /\ Top.at = "opening"
  /\ Enter("loop")
  /\ UNCHANGED <<depth, penv, handler, ended>>

\* It does so outside any Try of its own: a port in use is thrown to whatever
\* penv points to.
ServerThrows ==
  /\ Top.at = "opening"
  /\ ended' = IF penv = 0 THEN "uncaught" ELSE "wild"
  /\ UNCHANGED <<frames, depth, penv, handler>>

Next ==
  /\ ended = "no"
  /\ \/ OnError \/ Protect \/ LuaEnds
     \/ \E k \in Tries : EnterTry(k)
     \/ TryEnds \/ Throw \/ CallLua \/ CallHandler \/ CatchEnds
     \/ RaisesInTry \/ RaisesInCatch
     \/ StartServer \/ ServerOpens \/ ServerThrows

Spec == Init /\ [][Next]_vars

-----------------------------------------------------------------------------
FrameType == [kind : Tries \union {"lua", "server"}, at : Places,
              prev : 0..MaxDepth, skipped : BOOLEAN]

TypeOK ==
  /\ frames \in [1..MaxDepth -> FrameType]
  /\ depth \in 1..MaxDepth
  /\ penv \in 0..MaxDepth
  /\ handler \in BOOLEAN
  /\ ended \in {"no", "wild", "uncaught"}

\* cexcept.h:167, "Throw jumps back to the Catch clause of the innermost
\* enclosing Try clause": what is thrown in a Try is caught there, unless a
\* Lua error has come to it out of a Try of a nested request since it began;
\* then it never is.
InnermostCatches ==
  Top.at = "try" => (penv = depth <=> ~Top.skipped)
=============================================================================
