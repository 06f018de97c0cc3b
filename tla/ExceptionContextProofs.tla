----------------------- MODULE ExceptionContextProofs -----------------------
(***************************************************************************)
(* However deep calls nest, and wherever Lua errors are raised: what is    *)
(* thrown in a Try is caught by it, unless a Lua error has skipped a Try   *)
(* nested in it.                                                           *)
(*                                                                         *)
(* A pointer that a Lua error leaves behind is to a frame above the Try it *)
(* comes to, and no Try above that one can repair it, since each puts back *)
(* what it found.  The invariant says so of penv and of every buffer that  *)
(* a Try has found.                                                        *)
(***************************************************************************)
EXTENDS ExceptionContext, TLAPS

\* The pointer v is what the innermost Try of the lowest h frames needs, or,
\* if a Lua error has come to that Try, beyond it.
Fits(s, h, v) ==
  \A d \in 1..h : Innermost(s, d, h) => IF s[d].skipped THEN v > d ELSE v = d

Found(s, h) ==
  \A e \in 1..h : s[e].at = "try" => Fits(s, e - 1, s[e].prev)

\* A Try is left for Lua code only.
Stacked(s, h) ==
  /\ s[1].at = "lua"
  /\ \A d \in 1..h-1 : s[d].at = "try" => s[d + 1].at = "lua"

Linked(s, h, v) == Found(s, h) /\ Stacked(s, h) /\ Fits(s, h, v)

ExcInv == TypeOK /\ Linked(frames, depth, penv)

-----------------------------------------------------------------------------
(* Stacks.                                                                 *)

\* Only the lowest frames matter.
LEMMA SameFits ==
  ASSUME NEW s, NEW t, NEW h \in Nat, NEW v,
         \A d \in 1..h : t[d] = s[d], Fits(s, h, v)
  PROVE  Fits(t, h, v)
<1> SUFFICES ASSUME NEW d \in 1..h, Innermost(t, d, h)
             PROVE  IF t[d].skipped THEN v > d ELSE v = d
  BY DEF Fits
<1>1. Innermost(s, d, h)
  BY DEF Innermost
<1>2. QED
  BY <1>1 DEF Fits

LEMMA SameLinked ==
  ASSUME NEW s, NEW t, NEW h \in Nat \ {0}, NEW v,
         \A d \in 1..h : t[d] = s[d], Linked(s, h, v)
  PROVE  Linked(t, h, v)
<1>1. Fits(t, h, v)
  BY SameFits DEF Linked
<1>2. Stacked(t, h)
  BY DEF Linked, Stacked
<1>3. Found(t, h)
  <2> SUFFICES ASSUME NEW e \in 1..h, t[e].at = "try"
               PROVE  Fits(t, e - 1, t[e].prev)
    BY DEF Found
  <2>1. Fits(s, e - 1, s[e].prev)
    BY DEF Linked, Found
  <2>2. e - 1 \in Nat /\ \A d \in 1..e-1 : t[d] = s[d]
    OBVIOUS
  <2>3. QED
    BY <2>1, <2>2, SameFits
<1>4. QED
  BY <1>1, <1>2, <1>3 DEF Linked

\* A frame outside any Try is put on a stack.
LEMMA AddPlain ==
  ASSUME NEW s, NEW h \in Nat \ {0}, NEW v, Linked(s, h, v),
         s[h + 1].at # "try", s[h].at = "try" => s[h + 1].at = "lua"
  PROVE  Linked(s, h + 1, v)
<1>1. Fits(s, h + 1, v)
  <2> SUFFICES ASSUME NEW d \in 1..h+1, Innermost(s, d, h + 1)
               PROVE  IF s[d].skipped THEN v > d ELSE v = d
    BY DEF Fits
  <2>1. d # h + 1
    BY DEF Innermost
  <2>2. d \in 1..h /\ Innermost(s, d, h)
    BY <2>1 DEF Innermost
  <2>3. QED
    BY <2>2 DEF Linked, Fits
<1>2. Stacked(s, h + 1)
  BY DEF Linked, Stacked
<1>3. Found(s, h + 1)
  <2> SUFFICES ASSUME NEW e \in 1..h+1, s[e].at = "try" PROVE Fits(s, e - 1, s[e].prev)
    BY DEF Found
  <2>1. e \in 1..h
    OBVIOUS
  <2>2. QED
    BY <2>1 DEF Linked, Found
<1>4. QED
  BY <1>1, <1>2, <1>3 DEF Linked

\* A Try that has found v is, and its own position is the new pointer.
LEMMA AddTry ==
  ASSUME NEW s, NEW h \in Nat \ {0}, NEW v, Linked(s, h, v), s[h].at # "try",
         s[h + 1].at = "try", s[h + 1].prev = v, s[h + 1].skipped = FALSE
  PROVE  Linked(s, h + 1, h + 1)
<1>1. Fits(s, h + 1, h + 1)
  <2> SUFFICES ASSUME NEW d \in 1..h+1, Innermost(s, d, h + 1)
               PROVE  IF s[d].skipped THEN h + 1 > d ELSE h + 1 = d
    BY DEF Fits
  <2>1. d = h + 1
    BY DEF Innermost
  <2>2. QED
    BY <2>1
<1>2. Stacked(s, h + 1)
  BY DEF Linked, Stacked
<1>3. Found(s, h + 1)
  <2> SUFFICES ASSUME NEW e \in 1..h+1, s[e].at = "try" PROVE Fits(s, e - 1, s[e].prev)
    BY DEF Found
  <2>1. CASE e \in 1..h
    BY <2>1 DEF Linked, Found
  <2>2. CASE e = h + 1
    <3>1. e - 1 = h
      BY <2>2
    <3>2. QED
      BY <2>2, <3>1 DEF Linked
  <2>3. QED
    BY <2>1, <2>2
<1>4. QED
  BY <1>1, <1>2, <1>3 DEF Linked

\* The frame on top is taken away: the pointer stays when it is outside any
\* Try, and is the one found when it is a Try.
LEMMA TakePlain ==
  ASSUME NEW s, NEW h \in Nat \ {0}, NEW v, Linked(s, h + 1, v), s[h + 1].at # "try"
  PROVE  Linked(s, h, v)
<1>1. Fits(s, h, v)
  <2> SUFFICES ASSUME NEW d \in 1..h, Innermost(s, d, h)
               PROVE  IF s[d].skipped THEN v > d ELSE v = d
    BY DEF Fits
  <2>1. d \in 1..h+1 /\ Innermost(s, d, h + 1)
    BY DEF Innermost
  <2>2. QED
    BY <2>1 DEF Linked, Fits
<1>2. Stacked(s, h) /\ Found(s, h)
  BY DEF Linked, Stacked, Found
<1>3. QED
  BY <1>1, <1>2 DEF Linked

LEMMA TakeTry ==
  ASSUME NEW s, NEW h \in Nat \ {0}, NEW v, Linked(s, h + 1, v), s[h + 1].at = "try"
  PROVE  Linked(s, h, s[h + 1].prev)
<1>1. (h + 1) - 1 = h /\ h + 1 \in 1..h+1
  OBVIOUS
<1>2. Fits(s, h, s[h + 1].prev)
  BY <1>1 DEF Linked, Found
<1>3. Stacked(s, h) /\ Found(s, h)
  BY DEF Linked, Stacked, Found
<1>4. QED
  BY <1>2, <1>3 DEF Linked

\* A Try on top whose pointer fits, and whether it is its own.
LEMMA TopFits ==
  ASSUME NEW s, NEW h \in Nat \ {0}, NEW v, Linked(s, h, v), s[h].at = "try"
  PROVE  IF s[h].skipped THEN v > h ELSE v = h
<1>1. h \in 1..h /\ Innermost(s, h, h)
  BY DEF Innermost
<1>2. QED
  BY <1>1 DEF Linked, Fits

\* A pointer beyond every frame is what a stack needs whose innermost Try has
\* been skipped to.
LEMMA SkipTry ==
  ASSUME NEW s, NEW t, NEW h \in Nat \ {0}, NEW v \in Nat, Found(s, h), Stacked(s, h), v > h,
         \A d \in 1..h :
           /\ t[d].at = s[d].at /\ t[d].prev = s[d].prev
           /\ IF Innermost(s, d, h) THEN t[d].skipped = TRUE
              ELSE t[d].skipped = s[d].skipped
  PROVE  Linked(t, h, v)
<1>1. Fits(t, h, v)
  <2> SUFFICES ASSUME NEW d \in 1..h, Innermost(t, d, h)
               PROVE  IF t[d].skipped THEN v > d ELSE v = d
    BY DEF Fits
  <2>1. Innermost(s, d, h)
    BY DEF Innermost
  <2>2. t[d].skipped = TRUE /\ v > d
    BY <2>1
  <2>3. QED
    BY <2>2
<1>2. Stacked(t, h)
  BY DEF Stacked
<1>3. Found(t, h)
  <2> SUFFICES ASSUME NEW e \in 1..h, t[e].at = "try",
                      NEW d \in 1..e-1, Innermost(t, d, e - 1)
               PROVE  IF t[d].skipped THEN t[e].prev > d ELSE t[e].prev = d
    BY DEF Found, Fits
  <2>1. d \in 1..h /\ e \in d+1..h /\ s[e].at = "try" /\ s[e].prev = t[e].prev
    OBVIOUS
  <2>2. Innermost(s, d, e - 1)
    BY <2>1 DEF Innermost
  <2>3. ~Innermost(s, d, h)
    BY <2>1 DEF Innermost
  <2>4. IF s[d].skipped THEN s[e].prev > d ELSE s[e].prev = d
    BY <2>1, <2>2 DEF Found, Fits
  <2>5. QED
    BY <2>1, <2>3, <2>4
<1>4. QED
  BY <1>1, <1>2, <1>3 DEF Linked

\* Cutting further down.
LEMMA Below ==
  ASSUME NEW s, NEW h \in Nat \ {0}, NEW k \in 1..h, Found(s, h), Stacked(s, h)
  PROVE  Found(s, k) /\ Stacked(s, k)
BY DEF Found, Stacked

-----------------------------------------------------------------------------
(* Steps.                                                                  *)

LEMMA Typed ==
  TypeOK => /\ depth \in Nat /\ depth > 0 /\ depth <= MaxDepth /\ MaxDepth \in Nat
            /\ penv \in Nat /\ Top \in FrameType
            /\ frames \in [1..MaxDepth -> FrameType]
BY DepthAssumption DEF TypeOK, Top

LEMMA PlainFrames ==
  /\ LuaFrame \in FrameType /\ LuaFrame.at = "lua"
  /\ Frame("server", "opening", 0) \in FrameType
  /\ Frame("server", "opening", 0).at = "opening"
BY DepthAssumption DEF FrameType, LuaFrame, Frame, Places

LEMMA InitInv == Init => ExcInv
<1> SUFFICES ASSUME Init PROVE ExcInv
  OBVIOUS
<1>1. frames = [d \in 1..MaxDepth |-> LuaFrame] /\ depth = 1 /\ penv = 0
  BY DEF Init
<1>2. TypeOK
  <2>1. frames \in [1..MaxDepth -> FrameType]
    BY <1>1, PlainFrames
  <2>2. depth \in 1..MaxDepth /\ penv \in 0..MaxDepth
    BY <1>1, DepthAssumption
  <2>3. QED
    BY <2>1, <2>2 DEF Init, TypeOK
<1>3. 1 \in 1..MaxDepth /\ frames[1].at = "lua"
  BY <1>1, PlainFrames, DepthAssumption
<1>4. Linked(frames, 1, 0)
  <2>1. \A d \in 1..1 : d = 1 /\ frames[d].at # "try"
    BY <1>3
  <2>2. QED
    BY <1>3, <2>1 DEF Linked, Found, Stacked, Fits, Innermost
<1>5. QED
  BY <1>1, <1>2, <1>4 DEF ExcInv

LEMMA PushInv ==
  ASSUME ExcInv, NEW f \in FrameType, f.at \in {"lua", "opening"},
         Top.at = "try" => f.at = "lua",
         Push(f), penv' = penv, handler' = handler, ended' = ended
  PROVE  ExcInv'
<1>1. /\ depth \in Nat \ {0} /\ depth < MaxDepth /\ MaxDepth \in Nat /\ depth' = depth + 1
      /\ depth + 1 \in 1..MaxDepth /\ frames \in [1..MaxDepth -> FrameType]
      /\ frames' = [frames EXCEPT ![depth + 1] = f]
  BY Typed DEF ExcInv, Push
<1>2. frames'[depth + 1] = f /\ \A d \in 1..depth : frames'[d] = frames[d]
  BY <1>1
<1>3. Linked(frames', depth, penv)
  BY <1>1, <1>2, SameLinked, ZenonT(30) DEF ExcInv
<1>4. frames'[depth] = Top
  BY <1>1, <1>2 DEF Top
<1>5. Linked(frames', depth + 1, penv)
  BY <1>1, <1>2, <1>3, <1>4, AddPlain
<1>6. TypeOK'
  BY <1>1 DEF ExcInv, TypeOK
<1>7. QED
  BY <1>1, <1>5, <1>6 DEF ExcInv

LEMMA EnterTryInv ==
  ASSUME ExcInv, NEW k \in Tries, EnterTry(k)
  PROVE  ExcInv'
<1> DEFINE f == Frame(k, "try", penv)
<1>1. /\ depth \in Nat \ {0} /\ depth < MaxDepth /\ MaxDepth \in Nat /\ depth' = depth + 1
      /\ depth + 1 \in 1..MaxDepth /\ frames \in [1..MaxDepth -> FrameType]
      /\ frames' = [frames EXCEPT ![depth + 1] = f] /\ penv' = depth + 1
      /\ penv \in 0..MaxDepth /\ handler' = handler /\ ended' = ended
  BY Typed DEF ExcInv, EnterTry, Push, TypeOK
<1>2. Top.at # "try"
  BY DEF EnterTry
<1>3. f \in FrameType /\ f.at = "try" /\ f.prev = penv /\ f.skipped = FALSE
  BY <1>1 DEF Frame, FrameType, Places
<1> HIDE DEF f
<1>4. frames'[depth + 1] = f /\ \A d \in 1..depth : frames'[d] = frames[d]
  BY <1>1
<1>5. Linked(frames', depth, penv)
  BY <1>1, <1>4, SameLinked, ZenonT(30) DEF ExcInv
<1>6. frames'[depth].at # "try"
  BY <1>1, <1>2, <1>4 DEF Top
<1>7. Linked(frames', depth + 1, depth + 1)
  BY <1>1, <1>3, <1>4, <1>5, <1>6, AddTry
<1>8. TypeOK'
  BY <1>1, <1>3 DEF ExcInv, TypeOK
<1>9. QED
  BY <1>1, <1>7, <1>8 DEF ExcInv

\* The stack is cut to what the pointer that is left fits.
LEMMA CutInv ==
  ASSUME ExcInv, NEW h \in 1..depth, Cut(h), penv' \in 0..MaxDepth,
         Linked(frames, h, penv'), handler' = handler, ended' = ended
  PROVE  ExcInv'
<1>1. /\ depth \in 1..MaxDepth /\ MaxDepth \in Nat /\ h \in Nat \ {0} /\ depth' = h
      /\ frames' = [d \in 1..MaxDepth |-> IF d <= h THEN frames[d] ELSE LuaFrame]
      /\ frames \in [1..MaxDepth -> FrameType]
  BY Typed DEF ExcInv, Cut
<1>2. \A d \in 1..h : frames'[d] = frames[d]
  BY <1>1
<1>3. Linked(frames', h, penv')
  BY <1>1, <1>2, SameLinked
<1>4. TypeOK'
  BY <1>1, PlainFrames DEF ExcInv, TypeOK
<1>5. QED
  BY <1>1, <1>3, <1>4 DEF ExcInv

LEMMA TryOnTop ==
  ASSUME ExcInv, Top.at = "try"
  PROVE  /\ depth - 1 \in Nat \ {0} /\ depth - 1 \in 1..depth
         /\ Top.prev \in 0..MaxDepth /\ Linked(frames, depth - 1, Top.prev)
<1>1. depth \in Nat \ {0} /\ Top.prev \in 0..MaxDepth
  BY Typed DEF ExcInv, FrameType
<1>2. depth # 1
  BY DEF ExcInv, Linked, Stacked, Top
<1>3. /\ depth - 1 \in Nat \ {0} /\ depth - 1 \in 1..depth
      /\ (depth - 1) + 1 = depth
  BY <1>1, <1>2
<1> DEFINE h == depth - 1
<1> HIDE DEF h
<1>4. /\ h \in Nat \ {0} /\ Linked(frames, h + 1, penv) /\ frames[h + 1].at = "try"
      /\ frames[h + 1] = Top
  BY <1>3 DEF ExcInv, Top, h
<1>5. Linked(frames, h, Top.prev)
  BY <1>4, TakeTry
<1>6. QED
  BY <1>1, <1>3, <1>5 DEF h

LEMMA TryEndsInv == ExcInv /\ TryEnds => ExcInv'
  BY TryOnTop, CutInv DEF TryEnds

LEMMA ThrowInv == ExcInv /\ Throw => ExcInv'
<1> SUFFICES ASSUME ExcInv, Throw PROVE ExcInv'
  OBVIOUS
<1>1. /\ Top.at = "try" /\ depth' = depth /\ handler' = handler /\ TypeOK
      /\ depth \in Nat \ {0} /\ depth \in 1..MaxDepth /\ Top \in FrameType
      /\ frames \in [1..MaxDepth -> FrameType] /\ Top = frames[depth]
  BY Typed, DepthAssumption DEF Throw, ExcInv, TypeOK, Top
<1>2. CASE penv = depth
  <2> DEFINE g == [Top EXCEPT !.at = "catch"]
             h == depth - 1
  <2>1. /\ frames' = [frames EXCEPT ![depth].at = "catch"]
        /\ penv' = Top.prev /\ ended' = ended
    BY <1>2 DEF Throw, Enter
  <2>2. g \in FrameType /\ g.at = "catch"
    BY <1>1 DEF FrameType, Places
  <2>3. frames' = [frames EXCEPT ![depth] = g]
    BY <1>1, <2>1
  <2> HIDE DEF g
  <2>4. frames'[depth] = g /\ \A d \in 1..depth-1 : frames'[d] = frames[d]
    BY <1>1, <2>3
  <2>5. h \in Nat \ {0} /\ h + 1 = depth /\ Top.prev \in 0..MaxDepth
    BY <1>1, TryOnTop
  <2>6. Linked(frames', h, Top.prev)
    BY <1>1, <2>4, <2>5, TryOnTop, SameLinked
  <2>7. frames'[h].at # "try"
    BY <1>1, <2>4, <2>5 DEF ExcInv, Linked, Stacked
  <2> HIDE DEF h
  <2>8. Linked(frames', h + 1, Top.prev)
    BY <2>2, <2>4, <2>5, <2>6, <2>7, AddPlain
  <2>9. TypeOK'
    BY <1>1, <2>1, <2>2, <2>3, <2>5 DEF TypeOK
  <2>10. QED
    BY <1>1, <2>1, <2>5, <2>8, <2>9 DEF ExcInv
<1>3. CASE penv # depth
  BY <1>1, <1>3 DEF Throw, ExcInv, TypeOK
<1>4. QED
  BY <1>2, <1>3

LEMMA CallHandlerInv == ExcInv /\ CallHandler => ExcInv'
<1> SUFFICES ASSUME ExcInv, CallHandler PROVE ExcInv'
  OBVIOUS
<1> DEFINE g == [Top EXCEPT !.at = "handled"]
           h == depth - 1
<1>1. /\ Top.at = "catch" /\ depth' = depth + 1 /\ depth < MaxDepth /\ TypeOK
      /\ depth \in Nat \ {0} /\ depth \in 1..MaxDepth /\ depth + 1 \in 1..MaxDepth
      /\ MaxDepth \in Nat /\ penv' = penv /\ handler' = handler /\ ended' = ended
      /\ Top \in FrameType /\ Top = frames[depth]
      /\ frames \in [1..MaxDepth -> FrameType]
      /\ frames' = [frames EXCEPT ![depth].at = "handled", ![depth + 1] = LuaFrame]
  BY Typed DEF CallHandler, ExcInv, Top
<1>2. g \in FrameType /\ g.at = "handled"
  BY <1>1 DEF FrameType, Places
<1>3. frames' = [frames EXCEPT ![depth] = g, ![depth + 1] = LuaFrame]
  BY <1>1
<1> HIDE DEF g
<1>4. /\ frames'[depth] = g /\ frames'[depth + 1] = LuaFrame
      /\ \A d \in 1..depth-1 : frames'[d] = frames[d]
  BY <1>1, <1>3
<1>5. depth # 1
  BY <1>1 DEF ExcInv, Linked, Stacked
<1>6. h \in Nat \ {0} /\ h + 1 = depth
  BY <1>1, <1>5
<1>7. frames[h].at # "try"
  BY <1>1, <1>6 DEF ExcInv, Linked, Stacked
<1>8. \A d \in 1..h : frames'[d] = frames[d]
  BY <1>4
<1> HIDE DEF h
<1>9. Linked(frames, h, penv)
  BY <1>1, <1>6, TakePlain DEF ExcInv
<1>10. Linked(frames', h, penv)
  BY <1>6, <1>8, <1>9, SameLinked
<1>11. frames'[h] = frames[h]
  BY <1>6, <1>8
<1>12. Linked(frames', depth, penv)
  BY <1>2, <1>4, <1>6, <1>7, <1>10, <1>11, AddPlain
<1>13. Linked(frames', depth + 1, penv)
  BY <1>1, <1>2, <1>4, <1>12, PlainFrames, AddPlain
<1>14. TypeOK'
  <2>1. frames' \in [1..MaxDepth -> FrameType]
    BY <1>1, <1>2, <1>3, PlainFrames
  <2>2. QED
    BY <1>1, <2>1 DEF TypeOK
<1>15. QED
  BY <1>1, <1>13, <1>14 DEF ExcInv

\* A frame on top that is in no Try ends.
LEMMA PopInv ==
  ASSUME ExcInv, Top.at # "try", depth > 1, Cut(depth - 1), penv' = penv,
         handler' = handler, ended' = ended
  PROVE  ExcInv'
<1> DEFINE h == depth - 1
<1>1. /\ h \in Nat \ {0} /\ h \in 1..depth /\ h + 1 = depth
      /\ penv \in 0..MaxDepth /\ Cut(h) /\ frames[h + 1].at # "try"
  BY Typed DEF ExcInv, TypeOK, Top
<1> HIDE DEF h
<1>2. Linked(frames, h, penv)
  BY <1>1, TakePlain DEF ExcInv
<1>3. QED
  BY <1>1, <1>2, CutInv

\* The place of a frame outside any Try changes.
LEMMA ServerOpensInv == ExcInv /\ ServerOpens => ExcInv'
<1> SUFFICES ASSUME ExcInv, ServerOpens PROVE ExcInv'
  OBVIOUS
<1> DEFINE g == [Top EXCEPT !.at = "loop"]
           h == depth - 1
<1>1. /\ Top.at = "opening" /\ depth' = depth /\ TypeOK
      /\ depth \in Nat \ {0} /\ depth \in 1..MaxDepth
      /\ penv' = penv /\ handler' = handler /\ ended' = ended
      /\ Top \in FrameType /\ Top = frames[depth]
      /\ frames \in [1..MaxDepth -> FrameType]
      /\ frames' = [frames EXCEPT ![depth].at = "loop"]
  BY Typed, DepthAssumption DEF ServerOpens, Enter, ExcInv, Top
<1>2. g \in FrameType /\ g.at = "loop"
  BY <1>1 DEF FrameType, Places
<1>3. frames' = [frames EXCEPT ![depth] = g]
  BY <1>1
<1> HIDE DEF g
<1>4. frames'[depth] = g /\ \A d \in 1..depth-1 : frames'[d] = frames[d]
  BY <1>1, <1>3
<1>5. depth # 1
  BY <1>1 DEF ExcInv, Linked, Stacked
<1>6. /\ h \in Nat \ {0} /\ h + 1 = depth
      /\ \A d \in 1..h : frames'[d] = frames[d]
  BY <1>1, <1>4, <1>5
<1>7. frames[h].at # "try" /\ frames'[h] = frames[h]
  BY <1>1, <1>6 DEF ExcInv, Linked, Stacked
<1> HIDE DEF h
<1>8. Linked(frames', h, penv)
  <2>1. Linked(frames, h, penv)
    BY <1>1, <1>6, TakePlain DEF ExcInv
  <2>2. QED
    BY <1>6, <2>1, SameLinked
<1>9. Linked(frames', h + 1, penv)
  BY <1>2, <1>4, <1>6, <1>7, <1>8, AddPlain
<1>10. TypeOK'
  BY <1>1, <1>2, <1>3 DEF TypeOK
<1>11. QED
  BY <1>1, <1>6, <1>9, <1>10 DEF ExcInv

-----------------------------------------------------------------------------
(* Lua errors.                                                             *)

\* Where one lands.
LEMMA LandingBelow ==
  ASSUME ExcInv, NEW p \in 1..depth-1, Catcher(p)
  PROVE  Landing(p) \in 1..depth-1 /\ Landing(p) \in Nat \ {0} /\ Landing(p) \in 1..depth
BY Typed DEF Landing, ExcInv

LEMMA RaisesInCatchInv == ExcInv /\ RaisesInCatch => ExcInv'
<1> SUFFICES ASSUME ExcInv, NEW p \in 1..depth-1, Catcher(p), Cut(Landing(p)),
                    Top.at = "catch", penv' = penv, handler' = handler, ended' = ended
             PROVE  ExcInv'
  BY DEF RaisesInCatch
<1> DEFINE h == Landing(p)
<1>1. /\ depth \in Nat \ {0} /\ penv \in 0..MaxDepth /\ Top = frames[depth]
      /\ h \in 1..depth-1 /\ h \in Nat \ {0} /\ h \in 1..depth
  BY Typed, LandingBelow DEF ExcInv, TypeOK, Top
<1>2. \A e \in h+1..depth : frames[e].at # "try"
  <2> SUFFICES ASSUME NEW e \in h+1..depth, frames[e].at = "try" PROVE FALSE
    OBVIOUS
  <2>1. e # depth /\ e \in 1..depth-1
    BY <1>1
  <2>2. frames[e + 1].at = "lua"
    BY <2>1 DEF ExcInv, Linked, Stacked
  <2>3. e # p /\ e >= p
    BY <1>1 DEF Catcher, Landing
  <2>4. e + 1 # depth
    BY <1>1, <2>2
  <2>5. e + 1 \in p+1..depth-1
    BY <1>1, <2>1, <2>3, <2>4
  <2>6. QED
    BY <2>2, <2>5 DEF Catcher
<1> HIDE DEF h
<1>3. Fits(frames, h, penv)
  <2> SUFFICES ASSUME NEW d \in 1..h, Innermost(frames, d, h)
               PROVE  IF frames[d].skipped THEN penv > d ELSE penv = d
    BY DEF Fits
  <2>1. d \in 1..depth /\ Innermost(frames, d, depth)
    BY <1>1, <1>2 DEF Innermost
  <2>2. QED
    BY <2>1 DEF ExcInv, Linked, Fits
<1>4. Found(frames, h) /\ Stacked(frames, h)
  BY <1>1, Below DEF ExcInv, Linked
<1>5. Linked(frames, h, penv')
  BY <1>3, <1>4 DEF Linked
<1>6. QED
  BY <1>1, <1>5, CutInv DEF h

LEMMA RaisesInTryInv == ExcInv /\ RaisesInTry => ExcInv'
<1> SUFFICES ASSUME ExcInv, NEW p \in 1..depth-1, Catcher(p), CutAndSkip(Landing(p)),
                    Top.at = "try", penv' = penv, handler' = handler, ended' = ended
             PROVE  ExcInv'
  BY DEF RaisesInTry
<1> DEFINE h == Landing(p)
<1>1. /\ TypeOK /\ depth \in Nat \ {0} /\ MaxDepth \in Nat /\ depth \in 1..MaxDepth
      /\ penv \in Nat /\ frames \in [1..MaxDepth -> FrameType] /\ Top = frames[depth]
      /\ h \in 1..depth-1 /\ h \in Nat \ {0} /\ h \in 1..depth
  BY Typed, LandingBelow DEF ExcInv, TypeOK, Top
<1> HIDE DEF h
<1>2. /\ depth' = h
      /\ frames' = [d \in 1..MaxDepth |->
                     IF Innermost(frames, d, h) THEN [frames[d] EXCEPT !.skipped = TRUE]
                     ELSE IF d <= h THEN frames[d] ELSE LuaFrame]
  BY DEF CutAndSkip, h
<1>3. ASSUME NEW f \in FrameType
      PROVE  /\ [f EXCEPT !.skipped = TRUE] \in FrameType
             /\ [f EXCEPT !.skipped = TRUE].at = f.at
             /\ [f EXCEPT !.skipped = TRUE].prev = f.prev
             /\ [f EXCEPT !.skipped = TRUE].skipped = TRUE
  BY <1>3 DEF FrameType
<1>4. TypeOK'
  <2>1. frames' \in [1..MaxDepth -> FrameType]
    <3> SUFFICES ASSUME NEW d \in 1..MaxDepth
                 PROVE  (IF Innermost(frames, d, h) THEN [frames[d] EXCEPT !.skipped = TRUE]
                         ELSE IF d <= h THEN frames[d] ELSE LuaFrame) \in FrameType
      BY <1>2
    <3>1. frames[d] \in FrameType
      BY <1>1
    <3>2. [frames[d] EXCEPT !.skipped = TRUE] \in FrameType
      BY <1>3, <3>1
    <3>3. QED
      BY <3>1, <3>2, PlainFrames
  <2>2. QED
    BY <1>1, <1>2, <2>1 DEF TypeOK
<1>5. penv > h
  <2>1. IF frames[depth].skipped THEN penv > depth ELSE penv = depth
    BY <1>1, TopFits DEF ExcInv
  <2>2. QED
    BY <1>1, <2>1
<1>6. ASSUME NEW d \in 1..h
      PROVE  /\ frames'[d].at = frames[d].at /\ frames'[d].prev = frames[d].prev
             /\ IF Innermost(frames, d, h) THEN frames'[d].skipped = TRUE
                ELSE frames'[d].skipped = frames[d].skipped
  <2>1. d \in 1..MaxDepth /\ frames[d] \in FrameType /\ d <= h
    BY <1>1
  <2>2. CASE Innermost(frames, d, h)
    <3>1. frames'[d] = [frames[d] EXCEPT !.skipped = TRUE]
      BY <1>2, <2>1, <2>2
    <3>2. QED
      BY <1>3, <2>1, <2>2, <3>1
  <2>3. CASE ~Innermost(frames, d, h)
    <3>1. frames'[d] = frames[d]
      BY <1>2, <2>1, <2>3
    <3>2. QED
      BY <2>3, <3>1
  <2>4. QED
    BY <2>2, <2>3
<1>7. Found(frames, h) /\ Stacked(frames, h)
  BY <1>1, Below DEF ExcInv, Linked
<1>8. Linked(frames', h, penv)
  BY <1>1, <1>5, <1>6, <1>7, SkipTry
<1>9. QED
  BY <1>2, <1>4, <1>8 DEF ExcInv

-----------------------------------------------------------------------------
LEMMA Inductive == ExcInv /\ [Next]_vars => ExcInv'
<1> SUFFICES ASSUME ExcInv, [Next]_vars PROVE ExcInv'
  OBVIOUS
<1>1. CASE Protect
  BY <1>1, PlainFrames, PushInv DEF Protect
<1>2. CASE CallLua
  BY <1>2, PlainFrames, PushInv DEF CallLua
<1>3. CASE StartServer
  BY <1>3, PlainFrames, PushInv DEF StartServer
<1>4. CASE LuaEnds
  BY <1>4, PopInv DEF LuaEnds
<1>5. CASE CatchEnds
  <2>1. depth # 1 /\ Top.at # "try"
    BY <1>5 DEF CatchEnds, ExcInv, Linked, Stacked, Top
  <2>2. depth > 1
    BY <2>1, Typed DEF ExcInv
  <2>3. QED
    BY <1>5, <2>1, <2>2, PopInv DEF CatchEnds
<1>6. CASE \E k \in Tries : EnterTry(k)
  BY <1>6, EnterTryInv
<1>7. CASE TryEnds \/ Throw \/ CallHandler
  BY <1>7, TryEndsInv, ThrowInv, CallHandlerInv
<1>8. CASE RaisesInTry \/ RaisesInCatch
  BY <1>8, RaisesInTryInv, RaisesInCatchInv
<1>9. CASE ServerOpens
  BY <1>9, ServerOpensInv
<1>10. CASE OnError \/ ServerThrows \/ UNCHANGED vars
  <2>1. UNCHANGED <<frames, depth, penv>> /\ TypeOK'
    BY <1>10 DEF OnError, ServerThrows, vars, ExcInv, TypeOK
  <2>2. QED
    BY <2>1 DEF ExcInv
<1>11. QED
  BY <1>1, <1>2, <1>3, <1>4, <1>5, <1>6, <1>7, <1>8, <1>9, <1>10 DEF Next

\* The stack, the pointer and what a Try has found are of their types, for any
\* depth of calls.
THEOREM Types == Spec => []TypeOK
<1>1. ExcInv => TypeOK
  BY DEF ExcInv
<1>2. QED
  BY <1>1, InitInv, Inductive, PTL DEF Spec

\* Throw finds its own Try, for any nesting of requests, handlers and pcalls,
\* exactly as long as no Lua error has left a Try inside it.
THEOREM Catches == Spec => []InnermostCatches
<1>1. ExcInv => InnermostCatches
  <2> SUFFICES ASSUME ExcInv, Top.at = "try" PROVE penv = depth <=> ~Top.skipped
    BY DEF InnermostCatches
  <2>1. depth \in Nat \ {0} /\ penv \in Nat
    BY Typed DEF ExcInv
  <2>2. IF frames[depth].skipped THEN penv > depth ELSE penv = depth
    BY <2>1, TopFits DEF ExcInv, Top
  <2>3. QED
    BY <2>1, <2>2 DEF Top
<1>2. QED
  BY <1>1, InitInv, Inductive, PTL DEF Spec

-----------------------------------------------------------------------------
(* A program that cannot go wrong this way.                                *)

\* The Lua errors that leave a Try find no other Try around it: requests are
\* not made out of functions that a server runs, nor out of error handlers.
OutermostOnly == RaisesInTry => \A d \in 1..depth-1 : frames[d].at # "try"

\* Every exception thrown in a Try lands in the Catch of that Try; the one that
\* goes astray is that of rpc.server, which throws outside of any.
OnlyOpeningStrays ==
  [][/\ Throw => Top'.at = "catch" /\ UNCHANGED <<depth, ended>>
     /\ UNCHANGED ended \/ ServerThrows]_vars

NoneSkipped == \A d \in 1..MaxDepth : ~frames[d].skipped

\* Only an error that comes to a Try marks it.
LEMMA NoneSkippedNext ==
  ASSUME ExcInv, NoneSkipped, [Next]_vars, [OutermostOnly]_vars
  PROVE  NoneSkipped'
<1>1. /\ frames \in [1..MaxDepth -> FrameType] /\ depth \in 1..MaxDepth
      /\ MaxDepth \in Nat /\ Top = frames[depth]
      /\ \A d \in 1..MaxDepth : ~frames[d].skipped
  BY Typed DEF ExcInv, TypeOK, Top, NoneSkipped
<1>2. ~LuaFrame.skipped /\ \A k, a, p : ~Frame(k, a, p).skipped
  BY DEF LuaFrame, Frame
<1>3. ASSUME NEW h, Cut(h) PROVE NoneSkipped'
  BY <1>1, <1>2, <1>3 DEF Cut, NoneSkipped
<1>4. ASSUME NEW f, ~f.skipped, Push(f) PROVE NoneSkipped'
  BY <1>1, <1>4 DEF Push, NoneSkipped
<1>5. ASSUME NEW a, Enter(a) PROVE NoneSkipped'
  BY <1>1, <1>5 DEF Enter, NoneSkipped, FrameType
<1>6. CASE Protect \/ CallLua \/ StartServer \/ \E k \in Tries : EnterTry(k)
  BY <1>2, <1>4, <1>6 DEF Protect, CallLua, StartServer, EnterTry
<1>7. CASE LuaEnds \/ TryEnds \/ CatchEnds \/ RaisesInCatch
  BY <1>3, <1>7 DEF LuaEnds, TryEnds, CatchEnds, RaisesInCatch
<1>8. CASE Throw \/ ServerOpens
  <2>1. frames' = frames \/ \E a \in {"catch", "loop"} : Enter(a)
    BY <1>8 DEF Throw, ServerOpens
  <2> QED
    BY <1>1, <1>5, <2>1 DEF NoneSkipped
<1>9. CASE CallHandler
  BY <1>1, <1>2, <1>9 DEF CallHandler, NoneSkipped, FrameType
<1>10. CASE RaisesInTry
  <2>1. PICK p \in 1..depth-1 : CutAndSkip(Landing(p)) /\ Catcher(p)
    BY <1>10 DEF RaisesInTry
  <2>2. Landing(p) \in 1..depth-1
    BY <1>1, <2>1 DEF Landing
  <2>3. vars' # vars => \A d \in 1..depth-1 : frames[d].at # "try"
    BY <1>10 DEF OutermostOnly, vars
  <2>4. CASE vars' = vars
    BY <1>1, <2>4 DEF vars, NoneSkipped
  <2>5. CASE vars' # vars
    <3>1. \A d : ~Innermost(frames, d, Landing(p))
      BY <1>1, <2>2, <2>3, <2>5 DEF Innermost
    <3>2. frames' = [d \in 1..MaxDepth |-> IF d <= Landing(p) THEN frames[d] ELSE LuaFrame]
      BY <2>1, <3>1 DEF CutAndSkip
    <3> QED
      BY <1>1, <1>2, <3>2 DEF NoneSkipped
  <2> QED
    BY <2>4, <2>5
<1>11. CASE OnError \/ ServerThrows \/ UNCHANGED vars
  BY <1>1, <1>11 DEF OnError, ServerThrows, vars, NoneSkipped
<1> QED
  BY <1>6, <1>7, <1>8, <1>9, <1>10, <1>11 DEF Next

\* As long as Lua errors leave outermost Trys only, whatever is thrown in a Try
\* is caught there, in spite of what those errors left in
\* the_exception_context: an exception is uncaught, or jumps to a frame that is
\* gone, only when rpc.server cannot open its port.
THEOREM OutermostErrorsSpareTrys ==
  Spec /\ [][OutermostOnly]_vars => OnlyOpeningStrays
<1>1. Init => NoneSkipped
  BY DEF Init, NoneSkipped, LuaFrame, Frame
<1>2. ASSUME ExcInv, NoneSkipped, Throw
      PROVE  Top'.at = "catch" /\ UNCHANGED <<depth, ended>>
  <2>1. Top.at = "try" /\ depth \in Nat \ {0} /\ depth \in 1..MaxDepth /\ penv \in Nat
    BY <1>2, Typed, DepthAssumption DEF Throw, ExcInv, TypeOK
  <2>2. IF frames[depth].skipped THEN penv > depth ELSE penv = depth
    BY <1>2, <2>1, TopFits DEF ExcInv, Top
  <2>3. penv = depth
    BY <1>2, <2>1, <2>2 DEF NoneSkipped
  <2>4. Enter("catch") /\ UNCHANGED <<depth, ended>>
    BY <1>2, <2>3 DEF Throw
  <2>5. frames \in [1..MaxDepth -> FrameType]
    BY <1>2 DEF ExcInv, TypeOK
  <2>6. frames'[depth'].at = "catch"
    BY <2>1, <2>4, <2>5 DEF Enter, FrameType
  <2> QED
    BY <2>4, <2>6 DEF Top
<1>3. ExcInv /\ NoneSkipped /\ [Next]_vars =>
        [/\ Throw => Top'.at = "catch" /\ UNCHANGED <<depth, ended>>
         /\ UNCHANGED ended \/ ServerThrows]_vars
  <2> SUFFICES ASSUME ExcInv, NoneSkipped, Next, ~Throw
               PROVE  UNCHANGED ended \/ ServerThrows
    BY <1>2
  <2> QED
    BY DEF Next, OnError, Protect, LuaEnds, EnterTry, TryEnds, CallLua, CallHandler,
           CatchEnds, RaisesInTry, RaisesInCatch, StartServer, ServerOpens
<1> QED
  BY <1>1, <1>3, NoneSkippedNext, InitInv, Inductive, PTL DEF Spec, OnlyOpeningStrays
=============================================================================
