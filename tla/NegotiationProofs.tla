-------------------------- MODULE NegotiationProofs --------------------------
(***************************************************************************)
(* The handshake agrees on a configuration for every pair of platforms,    *)
(* and every number then arrives as it was sent when all floats have eight *)
(* bytes and all integers one size.                                        *)
(***************************************************************************)
EXTENDS Negotiation, SequenceTheorems, TLAPS

\* What the two ends agree on, and the header that says so.
Agreed == Reconcile(Local(plat["client"]), plat["server"])
Offer == Header(ver["client"], Local(plat["client"]))
Reply == Header(ver["server"], Agreed)

\* What the peer of e may write to it once connected.
Lot(e) ==
  {Encode(plat[Peer(e)], Agreed, x) :
     x \in {y \in Items \ {"trunc"} : Has(plat[Peer(e)], y)}}

\* Before the server's answer.
Waiting ==
  pc["server"] = "wait" =>
    /\ pc["client"] \in {"start", "wait", "failed"}
    /\ chan["client"] = <<>>
    /\ chan["server"] = <<>> \/ chan["server"] = <<Offer>>

\* The server has closed: nothing comes to the client.
Refused ==
  pc["server"] = "closed" =>
    /\ pc["client"] \in {"start", "wait", "failed"}
    /\ chan["client"] = <<>>

\* The server has answered, and the client has not read the answer yet, or
\* never will, or has.
Answered ==
  Connected("server") =>
    /\ tpt["server"] = Agreed
    /\ ver["client"] = ver["server"]
    /\ pc["client"] \in {"wait", "failed"} => chan["server"] = <<>>
    /\ pc["client"] = "wait" =>
         /\ chan["client"] # <<>>
         /\ Head(chan["client"]) = Reply
         /\ Tail(chan["client"]) \in Seq(Lot("client"))
    /\ Connected("client") =>
         /\ tpt["client"] = Agreed
         /\ \A e \in Ends : chan[e] \in Seq(Lot(e))

Places ==
  /\ pc["server"] \in {"wait", "closed", "connected", "astray"}
  /\ pc["client"] \in {"start", "wait", "failed", "connected", "astray"}
  /\ pc["client"] = "start" => ~Connected("server") /\ chan["server"] = <<>>

HInv == TypeOK /\ Places /\ Waiting /\ Refused /\ Answered

-----------------------------------------------------------------------------

\* A lua_Number takes one to eight bytes.
LEMMA SizesAreBytes ==
  FloatBytes \subseteq 1..8 /\ IntBytes \subseteq 1..8
BY NegotiationAssumption

\* A platform's own numbers are a configuration.
LEMMA PlatformType ==
  ASSUME NEW p \in Platforms
  PROVE  /\ p.little \in BOOLEAN /\ p.int \in BOOLEAN
         /\ p.bytes \in FloatBytes \union IntBytes
         /\ p.bytes \in 1..8
         /\ Local(p) \in Configs
BY SizesAreBytes DEF Platforms, Configs, Local

\* The header the server answers with says what it has set for itself.
LEMMA AmendIsReconcile ==
  ASSUME NEW c \in Platforms, NEW p \in Platforms
  PROVE  /\ Amend(Local(c), p) = Reconcile(Local(c), p)
         /\ Reconcile(Local(c), p) \in Configs
<1>1. /\ c.little \in BOOLEAN /\ c.int \in BOOLEAN /\ c.bytes \in 1..8
      /\ p.little \in BOOLEAN /\ p.int \in BOOLEAN /\ p.bytes \in 1..8
      /\ c.bytes \in FloatBytes \union IntBytes
      /\ p.bytes \in FloatBytes \union IntBytes
  BY PlatformType
<1>2. /\ Local(c).little = c.little /\ Local(c).bytes = c.bytes
      /\ Local(c).int = c.int
  BY DEF Local
<1>3. Amend(Local(c), p) = Reconcile(Local(c), p)
  <2>1. (IF c.little # p.little THEN FALSE ELSE c.little) =
          (IF c.little # p.little THEN FALSE ELSE p.little)
    OBVIOUS
  <2>2. (IF c.int # p.int THEN TRUE ELSE c.int) =
          (IF c.int # p.int THEN TRUE ELSE p.int)
    OBVIOUS
  <2>3. (IF c.bytes > p.bytes THEN p.bytes ELSE c.bytes) =
          Smaller(c.bytes, p.bytes)
    BY <1>1 DEF Smaller
  <2> QED BY <1>2, <2>1, <2>2, <2>3 DEF Amend, Reconcile
<1>4. Reconcile(Local(c), p) \in Configs
  BY <1>1, <1>2 DEF Reconcile, Smaller, Configs
<1> QED BY <1>3, <1>4

\* What a platform writes is an encoding.
LEMMA EncodeType ==
  ASSUME NEW p \in Platforms, NEW t \in Configs, NEW x \in Items \ {"trunc"}
  PROVE  Encode(p, t, x) \in Encodings
<1>1. p.little \in BOOLEAN /\ t.little \in BOOLEAN
  BY PlatformType DEF Configs
<1>2. Order(p, t) \in BOOLEAN
  BY <1>1 DEF Order
<1>3. t.bytes \in 1..8
  BY SizesAreBytes DEF Configs
<1>4. x \in Values /\ Trunc(x) \in Values /\ "junk" \in Values
  BY DEF Trunc, Values, Items, Numbers
<1>5. CASE x = "len"
  BY <1>2, <1>4, <1>5 DEF Encode, Encodings
<1>6. CASE x # "len" /\ t.int
  BY <1>2, <1>3, <1>4, <1>6 DEF Encode, Encodings
<1>7. CASE x # "len" /\ ~t.int
  BY <1>2, <1>4, <1>7 DEF Encode, Encodings
<1> QED BY <1>5, <1>6, <1>7

\* So is everything a connected peer may write.
LEMMA LotType ==
  ASSUME TypeOK, NEW e \in Ends
  PROVE  Lot(e) \subseteq Encodings /\ Agreed \in Configs
<1>1. /\ plat["client"] \in Platforms /\ plat["server"] \in Platforms
      /\ plat[Peer(e)] \in Platforms
  BY DEF TypeOK, Ends, Peer
<1>2. Agreed \in Configs
  BY <1>1, AmendIsReconcile DEF Agreed
<1>3. Lot(e) \subseteq Encodings
  BY <1>1, <1>2, EncodeType DEF Lot
<1> QED BY <1>2, <1>3

\* A header carries a version and a configuration.
LEMMA HeaderType ==
  ASSUME NEW v \in Versions, NEW c \in Configs
  PROVE  Header(v, c) \in Headers
BY DEF Header, Headers

\* Nothing the ends agree on changes after the start.
LEMMA Fixed ==
  ASSUME plat' = plat, ver' = ver
  PROVE  /\ Agreed' = Agreed /\ Offer' = Offer /\ Reply' = Reply
         /\ \A e \in Ends : Lot(e)' = Lot(e)
BY DEF Agreed, Offer, Reply, Lot

-----------------------------------------------------------------------------
\* The invariant holds at the start: the server waits, nothing is under way.
LEMMA InitHInv == Init => HInv
<1> SUFFICES ASSUME Init PROVE HInv
  OBVIOUS
<1>1. \A e \in Ends : plat[e] \in Platforms /\ Local(plat[e]) \in Configs
  BY PlatformType DEF Init
<1>2. tpt \in [Ends -> Configs]
  BY <1>1 DEF Init
<1>3. pc["client"] = "start" /\ pc["server"] = "wait"
  BY DEF Init, Ends
<1>4. chan["client"] = <<>> /\ chan["server"] = <<>>
  BY DEF Init, Ends
<1>5. TypeOK
  BY <1>2, NegotiationAssumption DEF Init, TypeOK
<1>6. Places /\ Waiting /\ Refused /\ Answered
  BY <1>3, <1>4 DEF Places, Waiting, Refused, Answered, Connected
<1> QED BY <1>5, <1>6 DEF HInv

\* Every step of either end keeps it.
LEMMA NextHInv == HInv /\ [Next]_vars => HInv'
<1> SUFFICES ASSUME HInv, [Next]_vars PROVE HInv'
  OBVIOUS
<1> USE DEF HInv
<1>t. /\ plat \in [Ends -> Platforms] /\ ver \in [Ends -> Versions]
      /\ pc \in [Ends -> {"start", "wait", "connected", "failed", "closed", "astray"}]
      /\ tpt \in [Ends -> Configs]
      /\ chan \in [Ends -> Seq(Headers \union Encodings)]
      /\ sent \in [Ends -> 0..MaxSent]
      /\ arrived \in [Ends -> SUBSET (Items \X Values)]
  BY DEF TypeOK
<1>e. "client" \in Ends /\ "server" \in Ends
  BY DEF Ends
<1>p. plat["client"] \in Platforms /\ plat["server"] \in Platforms
  BY <1>t, <1>e
<1>a. Agreed \in Configs /\ \A e \in Ends : Lot(e) \subseteq Encodings
  BY LotType, <1>e
<1>h. Offer \in Headers /\ Reply \in Headers
  BY <1>t, <1>e, <1>p, <1>a, HeaderType, PlatformType DEF Offer, Reply
<1>1. CASE ClientSendsHeader
  <2>1. plat' = plat /\ ver' = ver /\ tpt' = tpt /\ sent' = sent /\ arrived' = arrived
    BY <1>1 DEF ClientSendsHeader
  <2>2. pc' = [pc EXCEPT !["client"] = "wait"] /\ pc["client"] = "start"
    BY <1>1 DEF ClientSendsHeader
  <2>3. chan["server"] = <<>> /\ ~Connected("server")
    BY <2>2 DEF Places
  <2>4. chan' = [chan EXCEPT !["server"] = <<Offer>>]
    BY <1>1, <2>3, <1>t, <1>e DEF ClientSendsHeader, Offer
  <2>5. TypeOK'
    BY <1>t, <1>h, <2>1, <2>2, <2>4, <1>e DEF TypeOK
  <2>6. pc'["client"] = "wait" /\ pc'["server"] = pc["server"]
    BY <2>2, <1>t, <1>e
  <2>7. chan'["client"] = chan["client"] /\ chan'["server"] = <<Offer>>
    BY <2>4, <1>t, <1>e
  <2>8. Offer' = Offer
    BY <2>1, Fixed
  <2> QED
    BY <2>3, <2>5, <2>6, <2>7, <2>8
    DEF Places, Waiting, Refused, Answered, Connected
<1>2. CASE ServerNegotiates
  <2>1. plat' = plat /\ ver' = ver /\ sent' = sent /\ arrived' = arrived
    BY <1>2 DEF ServerNegotiates
  <2>2. pc' = [pc EXCEPT !["server"] = "connected"] /\ pc["server"] = "wait"
    BY <1>2 DEF ServerNegotiates
  <2>3. /\ chan["server"] = <<Offer>> /\ chan["client"] = <<>>
        /\ pc["client"] \in {"wait", "failed"}
    BY <2>2, <1>2 DEF ServerNegotiates, Waiting, Places
  <2>4. Head(chan["server"]) = Offer /\ Tail(chan["server"]) = <<>>
    BY <2>3
  <2>5. /\ ver["client"] = ver["server"]
        /\ tpt' = [tpt EXCEPT !["server"] = Agreed]
        /\ chan' = [chan EXCEPT !["server"] = <<>>, !["client"] = <<Reply>>]
    <3>1. /\ Offer.ver = ver["client"] /\ Offer.conf = Local(plat["client"])
      BY DEF Offer, Header
    <3>2. Amend(Offer.conf, plat["server"]) = Agreed
      BY <3>1, <1>p, AmendIsReconcile DEF Agreed
    <3>3. /\ Offer.ver = ver["server"]
          /\ tpt' = [tpt EXCEPT !["server"] = Reconcile(Offer.conf, plat["server"])]
          /\ chan' = [chan EXCEPT !["server"] = Tail(@),
                        !["client"] = Append(@, Header(ver["server"],
                                        Amend(Offer.conf, plat["server"])))]
      BY <1>2, <2>4 DEF ServerNegotiates
    <3>4. chan' = [chan EXCEPT !["server"] = <<>>, !["client"] = Append(<<>>, Reply)]
      BY <3>2, <3>3, <2>3, <2>4, <1>t, <1>e DEF Reply
    <3>5. Append(<<>>, Reply) = <<Reply>>
      OBVIOUS
    <3>6. Reconcile(Offer.conf, plat["server"]) = Agreed
      BY <3>1 DEF Agreed
    <3>7. ver["client"] = ver["server"]
      BY <3>1, <3>3
    <3> QED BY <3>3, <3>4, <3>5, <3>6, <3>7
  <2>6. TypeOK'
    <3>1. <<Reply>> \in Seq(Headers \union Encodings)
      BY <1>h
    <3>2. <<>> \in Seq(Headers \union Encodings)
      OBVIOUS
    <3>3. chan' \in [Ends -> Seq(Headers \union Encodings)]
      BY <1>t, <1>e, <2>5, <3>1, <3>2
    <3>4. tpt' \in [Ends -> Configs]
      BY <1>t, <1>a, <1>e, <2>5
    <3> QED BY <1>t, <2>1, <2>2, <3>3, <3>4 DEF TypeOK
  <2>7. /\ pc'["client"] = pc["client"] /\ pc'["server"] = "connected"
        /\ tpt'["server"] = Agreed
        /\ chan'["server"] = <<>> /\ chan'["client"] = <<Reply>>
    BY <2>2, <2>5, <1>t, <1>e
  <2>8. Agreed' = Agreed /\ Reply' = Reply
    BY <2>1, Fixed
  <2>9. Head(<<Reply>>) = Reply /\ Tail(<<Reply>>) = <<>> /\ <<Reply>> # <<>>
    OBVIOUS
  <2>10. <<>> \in Seq(Lot("client")')
    OBVIOUS
  <2> QED
    BY <2>1, <2>3, <2>5, <2>6, <2>7, <2>8, <2>9, <2>10
    DEF Places, Waiting, Refused, Answered, Connected
<1>3. CASE ServerRefuses \/ ServerTimeout
  <2>1. plat' = plat /\ ver' = ver /\ tpt' = tpt /\ sent' = sent /\ arrived' = arrived
    BY <1>3 DEF ServerRefuses, ServerTimeout
  <2>2. pc' = [pc EXCEPT !["server"] = "closed"] /\ pc["server"] = "wait"
    BY <1>3 DEF ServerRefuses, ServerTimeout
  <2>3. chan' = [chan EXCEPT !["server"] = <<>>]
    BY <1>3 DEF ServerRefuses, ServerTimeout
  <2>4. TypeOK'
    BY <1>t, <1>e, <2>1, <2>2, <2>3 DEF TypeOK
  <2>5. pc'["client"] = pc["client"] /\ pc'["server"] = "closed"
    BY <2>2, <1>t, <1>e
  <2>6. chan'["client"] = chan["client"] /\ chan'["server"] = <<>>
    BY <2>3, <1>t, <1>e
  <2> QED
    BY <2>2, <2>4, <2>5, <2>6 DEF Places, Waiting, Refused, Answered, Connected
<1>4. CASE ClientReadsHeader
  <2>1. plat' = plat /\ ver' = ver /\ sent' = sent /\ arrived' = arrived
    BY <1>4 DEF ClientReadsHeader
  <2>2. /\ pc' = [pc EXCEPT !["client"] = "connected"] /\ pc["client"] = "wait"
        /\ chan["client"] # <<>>
        /\ tpt' = [tpt EXCEPT !["client"] = Head(chan["client"]).conf]
        /\ chan' = [chan EXCEPT !["client"] = Tail(@)]
    BY <1>4 DEF ClientReadsHeader
  <2>3. Connected("server") /\ pc["server"] \in {"connected", "astray"}
    BY <2>2 DEF Places, Waiting, Refused, Connected
  <2>4. /\ Head(chan["client"]) = Reply /\ Tail(chan["client"]) \in Seq(Lot("client"))
        /\ chan["server"] = <<>>
        /\ tpt["server"] = Agreed /\ ver["client"] = ver["server"]
    BY <2>2, <2>3 DEF Answered
  <2>5. Reply.conf = Agreed
    BY DEF Reply, Header
  <2>6. Tail(chan["client"]) \in Seq(Headers \union Encodings)
    BY <2>2, <1>t, <1>e
  <2>7. TypeOK'
    BY <1>t, <1>a, <1>e, <2>1, <2>2, <2>4, <2>5, <2>6 DEF TypeOK
  <2>8. /\ pc'["client"] = "connected" /\ pc'["server"] = pc["server"]
        /\ tpt'["client"] = Agreed /\ tpt'["server"] = Agreed
        /\ chan'["client"] = Tail(chan["client"]) /\ chan'["server"] = <<>>
    BY <2>2, <2>4, <2>5, <1>t, <1>e
  <2>9. Agreed' = Agreed /\ \A e \in Ends : Lot(e)' = Lot(e)
    BY <2>1, Fixed
  <2>10. \A e \in Ends : chan'[e] \in Seq(Lot(e))
    <3>1. chan'["client"] \in Seq(Lot("client"))
      BY <2>4, <2>8
    <3>2. <<>> \in Seq(Lot("server"))
      OBVIOUS
    <3>3. chan'["server"] \in Seq(Lot("server"))
      BY <2>8, <3>2
    <3> QED BY <3>1, <3>3 DEF Ends
  <2>11. \A e \in Ends : chan'[e] \in Seq(Lot(e))'
    BY <2>9, <2>10
  <2> QED
    BY <2>1, <2>3, <2>4, <2>7, <2>8, <2>9, <2>11
    DEF Places, Waiting, Refused, Answered, Connected
<1>5. CASE ClientEof \/ ClientTimeout
  <2>1. /\ plat' = plat /\ ver' = ver /\ tpt' = tpt /\ chan' = chan
        /\ sent' = sent /\ arrived' = arrived
    BY <1>5 DEF ClientEof, ClientTimeout
  <2>2. pc' = [pc EXCEPT !["client"] = "failed"] /\ pc["client"] = "wait"
    BY <1>5 DEF ClientEof, ClientTimeout
  <2>3. TypeOK'
    BY <1>t, <1>e, <2>1, <2>2 DEF TypeOK
  <2>4. pc'["client"] = "failed" /\ pc'["server"] = pc["server"]
    BY <2>2, <1>t, <1>e
  <2>5. Agreed' = Agreed /\ Offer' = Offer
    BY <2>1, Fixed
  <2> QED
    BY <2>1, <2>2, <2>3, <2>4, <2>5
    DEF Places, Waiting, Refused, Answered, Connected
<1>6. ASSUME NEW e \in Ends, Write(e)
      PROVE  HInv'
  <2>1. plat' = plat /\ ver' = ver /\ tpt' = tpt /\ pc' = pc /\ arrived' = arrived
    BY <1>6 DEF Write
  <2>2. pc[e] = "connected" /\ sent[e] < MaxSent /\ sent' = [sent EXCEPT ![e] = @ + 1]
    BY <1>6 DEF Write
  <2>3. PICK x \in Items \ {"trunc"} :
          /\ Has(plat[e], x)
          /\ chan' = [chan EXCEPT ![Peer(e)] = Append(@, Encode(plat[e], tpt[e], x))]
    BY <1>6 DEF Write
  <2>4. Connected("server")
    BY <2>2, <1>6 DEF Places, Waiting, Refused, Connected, Ends
  <2>5. tpt["server"] = Agreed /\ (Connected("client") => tpt["client"] = Agreed)
    BY <2>4 DEF Answered
  <2>6. tpt[e] = Agreed
    BY <2>2, <2>5, <1>6 DEF Connected, Ends
  <2>7. Peer(e) \in Ends /\ Peer(Peer(e)) = e
    BY <1>6 DEF Peer, Ends
  <2> DEFINE y == Encode(plat[e], Agreed, x)
  <2>8. y \in Lot(Peer(e))
    BY <2>3, <2>7 DEF Lot
  <2>9. y \in Headers \union Encodings
    BY <2>8, <2>7, <1>a
  <2> HIDE DEF y
  <2>10. chan' = [chan EXCEPT ![Peer(e)] = Append(@, y)]
    BY <2>3, <2>6 DEF y
  <2>11. chan' \in [Ends -> Seq(Headers \union Encodings)]
    BY <2>7, <2>9, <2>10, <1>t
  <2>12. sent' \in [Ends -> 0..MaxSent]
    BY <2>2, <1>t, NegotiationAssumption
  <2>13. TypeOK'
    BY <1>t, <2>1, <2>11, <2>12 DEF TypeOK
  <2>14. Agreed' = Agreed /\ Reply' = Reply /\ \A d \in Ends : Lot(d)' = Lot(d)
    BY <2>1, Fixed
  <2>15. CASE e = "client"
    <3>1. /\ chan'["client"] = chan["client"]
          /\ chan'["server"] = Append(chan["server"], y)
      BY <2>10, <2>15, <1>t, <1>e DEF Peer
    <3>2. Connected("client") /\ pc["client"] = "connected"
      BY <2>15, <2>2 DEF Connected
    <3>3. \A d \in Ends : chan[d] \in Seq(Lot(d))
      BY <2>4, <3>2 DEF Answered
    <3>4. y \in Lot("server")
      BY <2>8, <2>15 DEF Peer
    <3>5. chan'["server"] \in Seq(Lot("server"))
      BY <3>1, <3>3, <3>4, <1>e
    <3>6. \A d \in Ends : chan'[d] \in Seq(Lot(d))
      BY <3>1, <3>3, <3>5 DEF Ends
    <3>7. \A d \in Ends : chan'[d] \in Seq(Lot(d))'
      BY <3>6, <2>14
    <3> QED
      BY <2>1, <2>4, <2>13, <2>14, <3>2, <3>7
      DEF Places, Waiting, Refused, Answered, Connected
  <2>16. CASE e = "server"
    <3>1. /\ chan'["server"] = chan["server"]
          /\ chan'["client"] = Append(chan["client"], y)
      BY <2>10, <2>16, <1>t, <1>e DEF Peer
    <3>2. y \in Lot("client")
      BY <2>8, <2>16 DEF Peer
    <3>3. ASSUME pc["client"] = "wait"
          PROVE  /\ chan'["client"] # <<>> /\ Head(chan'["client"]) = Reply
                 /\ Tail(chan'["client"]) \in Seq(Lot("client"))
      <4>1. /\ chan["client"] # <<>> /\ Head(chan["client"]) = Reply
            /\ Tail(chan["client"]) \in Seq(Lot("client"))
        BY <2>4, <3>3 DEF Answered
      <4>2. chan["client"] \in Seq(Headers \union Encodings)
        BY <1>t, <1>e
      <4>3. /\ Head(Append(chan["client"], y)) = Head(chan["client"])
            /\ Tail(Append(chan["client"], y)) = Append(Tail(chan["client"]), y)
            /\ Append(chan["client"], y) # <<>>
        BY <4>1, <4>2, <2>9, HeadTailAppend
      <4> QED BY <3>1, <3>2, <4>1, <4>3
    <3>4. ASSUME Connected("client")
          PROVE  \A d \in Ends : chan'[d] \in Seq(Lot(d))
      <4>1. \A d \in Ends : chan[d] \in Seq(Lot(d))
        BY <2>4, <3>4 DEF Answered
      <4>2. chan'["client"] \in Seq(Lot("client"))
        BY <4>1, <3>1, <3>2, <1>e
      <4> QED BY <4>1, <4>2, <3>1 DEF Ends
    <3>5. Connected("client") => \A d \in Ends : chan'[d] \in Seq(Lot(d))'
      BY <3>4, <2>14
    <3>6. pc["client"] = "wait" => Tail(chan'["client"]) \in Seq(Lot("client"))'
      BY <3>3, <2>14, <1>e
    <3> QED
      BY <2>1, <2>4, <2>13, <2>14, <3>1, <3>3, <3>5, <3>6, <2>16
      DEF Places, Waiting, Refused, Answered, Connected
  <2> QED BY <2>15, <2>16, <1>6 DEF Ends
<1>7. ASSUME NEW e \in Ends, Read(e)
      PROVE  HInv'
  <2>1. plat' = plat /\ ver' = ver /\ tpt' = tpt /\ sent' = sent
    BY <1>7 DEF Read
  <2>2. /\ pc[e] = "connected" /\ chan[e] # <<>>
        /\ chan' = [chan EXCEPT ![e] = Tail(@)]
    BY <1>7 DEF Read
  <2>3. pc' = pc \/ pc' = [pc EXCEPT ![e] = "astray"]
    BY <1>7 DEF Read
  <2>4. Connected("server") /\ Connected("client")
    BY <2>2, <1>7 DEF Places, Waiting, Refused, Answered, Connected, Ends
  <2>5. \A d \in Ends : chan[d] \in Seq(Lot(d))
    BY <2>4 DEF Answered
  <2>6. Head(chan[e]) \in Lot(e) /\ Tail(chan[e]) \in Seq(Lot(e))
    BY <2>2, <2>5
  <2>7. Head(chan[e]).of \in Items
    BY <2>6, <1>a DEF Encodings
  <2>8. Decode(plat[e], tpt[e], Head(chan[e])) \in Values
    <3>1. Head(chan[e]).val \in Values /\ "junk" \in Values
      BY <2>6, <1>a DEF Encodings, Values
    <3> QED BY <3>1 DEF Decode
  <2>9. arrived' \in [Ends -> SUBSET (Items \X Values)]
    <3>1. \/ arrived' = arrived
          \/ arrived' = [arrived EXCEPT ![e] = @ \union
               {<<Head(chan[e]).of, Decode(plat[e], tpt[e], Head(chan[e]))>>}]
      BY <1>7 DEF Read
    <3> DEFINE z == <<Head(chan[e]).of, Decode(plat[e], tpt[e], Head(chan[e]))>>
    <3>2. z \in Items \X Values
      BY <2>7, <2>8
    <3> HIDE DEF z
    <3>3. arrived' = arrived \/ arrived' = [arrived EXCEPT ![e] = @ \union {z}]
      BY <3>1 DEF z
    <3>4. arrived[e] \union {z} \in SUBSET (Items \X Values)
      BY <3>2, <1>t
    <3> QED BY <3>3, <3>4, <1>t
  <2>10. chan' \in [Ends -> Seq(Headers \union Encodings)]
    <3>1. Tail(chan[e]) \in Seq(Headers \union Encodings)
      BY <2>2, <1>t
    <3> QED BY <3>1, <2>2, <1>t
  <2>11. pc' \in [Ends -> {"start", "wait", "connected", "failed", "closed", "astray"}]
    BY <2>3, <1>t
  <2>12. TypeOK'
    BY <1>t, <2>1, <2>9, <2>10, <2>11 DEF TypeOK
  <2>13. \A d \in Ends : chan'[d] \in Seq(Lot(d))
    BY <2>2, <2>5, <2>6, <1>t
  <2>14. Agreed' = Agreed /\ \A d \in Ends : Lot(d)' = Lot(d)
    BY <2>1, Fixed
  <2>15. \A d \in Ends : chan'[d] \in Seq(Lot(d))'
    BY <2>13, <2>14
  <2>16. /\ pc'["server"] \in {"connected", "astray"}
         /\ pc'["client"] \in {"connected", "astray"}
    BY <2>3, <2>4, <1>t, <1>e DEF Connected
  <2>17. /\ tpt["server"] = Agreed /\ tpt["client"] = Agreed
         /\ ver["client"] = ver["server"]
    BY <2>4 DEF Answered
  <2> QED
    BY <2>1, <2>12, <2>14, <2>15, <2>16, <2>17
    DEF Places, Waiting, Refused, Answered, Connected
<1>8. CASE UNCHANGED vars
  <2>1. Agreed' = Agreed /\ Offer' = Offer /\ Reply' = Reply
        /\ \A d \in Ends : Lot(d)' = Lot(d)
    BY <1>8, Fixed DEF vars
  <2>2. TypeOK' /\ Places' /\ Refused'
    BY <1>8 DEF vars, TypeOK, Places, Refused, Connected
  <2>3. Waiting'
    BY <1>8, <2>1 DEF vars, Waiting
  <2>4. \A d \in Ends : (chan[d] \in Seq(Lot(d)))' = (chan[d] \in Seq(Lot(d)))
    BY <1>8, <2>1 DEF vars
  <2>5. (Tail(chan["client"]) \in Seq(Lot("client")))' =
          (Tail(chan["client"]) \in Seq(Lot("client")))
    BY <1>8, <2>1, <1>e DEF vars
  <2>6. Answered'
    BY <1>8, <2>1, <2>4, <2>5 DEF vars, Answered, Connected
  <2> QED BY <2>2, <2>3, <2>6
<1> QED
  BY <1>1, <1>2, <1>3, <1>4, <1>5, <1>6, <1>7, <1>8 DEF Next, Handshake

\* The invariant holds in every reachable state.
LEMMA HInvHolds == Spec => []HInv
BY InitHInv, NextHInv, PTL DEF Spec

\* The types of the handshake and of what crosses the connection after it.
THEOREM NegotiationTypes == Spec => []TypeOK
<1>1. HInv => TypeOK
  BY DEF HInv
<1> QED BY HInvHolds, <1>1, PTL

\* For every two platforms: a client that connected and its server use one
\* configuration, which both can write and read.
THEOREM NegotiationAgrees == Spec => []Agreement
<1>1. ASSUME HInv, Connected("client")
      PROVE  Agreement
  <2>1. plat["client"] \in Platforms /\ plat["server"] \in Platforms
    BY <1>1 DEF HInv, TypeOK, Ends
  <2>2. Connected("server")
    BY <1>1 DEF HInv, Places, Waiting, Refused, Connected
  <2>3. /\ tpt["server"] = Agreed /\ tpt["client"] = Agreed
        /\ ver["client"] = ver["server"]
    BY <1>1, <2>2 DEF HInv, Answered
  <2> DEFINE c == plat["client"]
             s == plat["server"]
  <2>4. /\ c.int \in BOOLEAN /\ s.int \in BOOLEAN
        /\ c.bytes \in 1..8 /\ s.bytes \in 1..8
    BY <2>1, PlatformType
  <2>5. Agreed.bytes = Smaller(c.bytes, s.bytes)
    BY DEF Agreed, Reconcile, Local
  <2>6. Agreed.int = IF c.int # s.int THEN TRUE ELSE s.int
    BY DEF Agreed, Reconcile, Local
  <2>7. Agreed.bytes <= c.bytes /\ Agreed.bytes <= s.bytes
    BY <2>4, <2>5 DEF Smaller
  <2>8. Agreed.int <=> c.int \/ s.int
    BY <2>4, <2>6
  <2>9. \A e \in Ends : Agreed.bytes <= plat[e].bytes
    BY <2>7 DEF Ends
  <2>10. Agreed.int <=> \E e \in Ends : plat[e].int
    BY <2>8 DEF Ends
  <2> QED BY <2>2, <2>3, <2>9, <2>10 DEF Agreement
<1>2. HInv => Agreement
  BY <1>1 DEF Agreement
<1> QED BY HInvHolds, <1>2, PTL

-----------------------------------------------------------------------------
\* The platforms for which the codec is right: every float is a double, every
\* integer type has one size.
Uniform ==
  /\ FloatBytes \subseteq {8}
  /\ \A a, b \in IntBytes : a = b

\* Between any two such platforms, whatever their byte orders, a number is read
\* in as many bytes as it was written, and with the value it was sent with.
THEOREM CodecRoundTrip ==
  ASSUME Uniform,
         NEW p \in Platforms, NEW q \in Platforms, NEW t \in Configs,
         t.bytes = Smaller(p.bytes, q.bytes),
         t.int <=> p.int \/ q.int,
         NEW x \in Items \ {"trunc"}
  PROVE  /\ Encode(p, t, x).bytes = Taken(t, Encode(p, t, x))
         /\ Encode(p, t, x).of = x
         /\ Preserved(t, x, Decode(q, t, Encode(p, t, x)))
<1>1. /\ p.little \in BOOLEAN /\ p.int \in BOOLEAN /\ p.bytes \in 1..8
      /\ q.little \in BOOLEAN /\ q.int \in BOOLEAN /\ q.bytes \in 1..8
  BY PlatformType
<1>2. t.little \in BOOLEAN /\ t.int \in BOOLEAN
  BY DEF Configs
<1>3. Order(p, t) = t.little /\ Order(q, t) = t.little
  BY <1>1, <1>2 DEF Order
<1>4. /\ ~p.int => p.bytes = 8
      /\ ~q.int => q.bytes = 8
      /\ p.int => p.bytes \in IntBytes
      /\ q.int => q.bytes \in IntBytes
  BY DEF Platforms, Uniform
<1>5. p.int /\ q.int => p.bytes = q.bytes
  BY <1>4 DEF Uniform
<1>6. CASE x = "len"
  BY <1>3, <1>6 DEF Encode, Decode, Taken, Preserved
<1>7. CASE x # "len" /\ ~t.int
  <2>1. ~p.int /\ ~q.int /\ p.bytes = 8 /\ q.bytes = 8 /\ t.bytes = 8
    BY <1>4, <1>7 DEF Smaller
  <2> DEFINE item == Encode(p, t, x)
  <2>2. /\ item.fmt = "float" /\ item.bytes = 8 /\ item.little = t.little
        /\ item.of = x /\ item.val = x
    BY <1>3, <1>7, <2>1 DEF Encode
  <2> HIDE DEF item
  <2>3. Decode(q, t, item) = x
    BY <1>1, <1>2, <1>3, <1>7, <2>1, <2>2 DEF Decode
  <2>4. Taken(t, item) = 8
    BY <1>7, <2>1, <2>2 DEF Taken
  <2> QED BY <1>7, <2>2, <2>3, <2>4 DEF Preserved, item
<1>8. CASE x # "len" /\ t.int
  <2> DEFINE item == Encode(p, t, x)
  <2>1. /\ item.fmt = "int" /\ item.bytes = t.bytes /\ item.little = t.little
        /\ item.of = x
        /\ item.val = IF Fits(x, t.bytes) THEN Trunc(x) ELSE "junk"
    BY <1>3, <1>8 DEF Encode
  <2> HIDE DEF item
  <2>2. q.int => q.bytes = t.bytes
    <3>1. CASE p.int
      BY <1>1, <1>5, <3>1 DEF Smaller
    <3>2. CASE ~p.int
      BY <1>1, <1>4, <3>2 DEF Smaller
    <3> QED BY <3>1, <3>2
  <2>3. Decode(q, t, item) = item.val
    <3>1. CASE q.int
      BY <1>2, <1>3, <1>8, <2>1, <2>2, <3>1 DEF Decode
    <3>2. CASE ~q.int
      BY <1>2, <1>3, <1>8, <2>1, <3>2 DEF Decode
    <3> QED BY <3>1, <3>2
  <2>4. Taken(t, item) = t.bytes
    BY <1>8, <2>1 DEF Taken
  <2> QED BY <1>8, <2>1, <2>3, <2>4 DEF Preserved, item
<1> QED BY <1>6, <1>7, <1>8

\* What has been read is right, and no reader has lost its place.
Right ==
  /\ NumbersFramed
  /\ \A e \in Ends : arrived[e] # {} => Connected("server") /\ Connected("client")
  /\ ArrivesAsSent

\* No step spoils it: the item read was written under the same configuration.
LEMMA NextRight == Uniform /\ HInv /\ HInv' /\ Right /\ [Next]_vars => Right'
<1> SUFFICES ASSUME Uniform, HInv, HInv', Right, [Next]_vars PROVE Right'
  OBVIOUS
<1>e. "client" \in Ends /\ "server" \in Ends
  BY DEF Ends
<1>t. /\ plat \in [Ends -> Platforms]
      /\ pc \in [Ends -> {"start", "wait", "connected", "failed", "closed", "astray"}]
      /\ tpt \in [Ends -> Configs]
      /\ arrived \in [Ends -> SUBSET (Items \X Values)]
  BY DEF HInv, TypeOK
<1>1. CASE Handshake \/ ServerTimeout \/ ClientTimeout
  <2>1. ~Connected("server") \/ ~Connected("client")
    BY <1>1 DEF Handshake, ServerTimeout, ClientTimeout, ClientSendsHeader,
                ServerNegotiates, ServerRefuses, ClientReadsHeader, ClientEof,
                Connected
  <2>2. arrived' = arrived
    BY <1>1 DEF Handshake, ServerTimeout, ClientTimeout, ClientSendsHeader,
                ServerNegotiates, ServerRefuses, ClientReadsHeader, ClientEof
  <2>3. \A e \in Ends : arrived[e] = {}
    BY <2>1 DEF Right
  <2>4. \A e \in Ends : pc[e] # "astray"
    BY DEF Right, NumbersFramed
  <2>5. \A e \in Ends : pc'[e] # "astray"
    BY <1>1, <1>t, <1>e, <2>4
    DEF Handshake, ServerTimeout, ClientTimeout, ClientSendsHeader,
        ServerNegotiates, ServerRefuses, ClientReadsHeader, ClientEof
  <2> QED BY <2>2, <2>3, <2>5 DEF Right, NumbersFramed, ArrivesAsSent
<1>2. ASSUME NEW e \in Ends, Write(e)
      PROVE  Right'
  BY <1>2 DEF Write, Right, NumbersFramed, ArrivesAsSent, Connected
<1>3. ASSUME NEW e \in Ends, Read(e)
      PROVE  Right'
  <2>1. /\ pc[e] = "connected" /\ chan[e] # <<>> /\ tpt' = tpt
    BY <1>3 DEF Read
  <2>2. Connected("server") /\ Connected("client")
    BY <2>1, <1>3 DEF HInv, Places, Waiting, Refused, Answered, Connected, Ends
  <2>3. /\ tpt["server"] = Agreed /\ tpt["client"] = Agreed
        /\ chan[e] \in Seq(Lot(e))
    BY <2>2, <1>3 DEF HInv, Answered
  <2>4. tpt[e] = Agreed
    BY <2>3, <1>3 DEF Ends
  <2>5. Head(chan[e]) \in Lot(e)
    BY <2>1, <2>3
  <2>6. PICK x \in Items \ {"trunc"} :
          Head(chan[e]) = Encode(plat[Peer(e)], Agreed, x)
    BY <2>5 DEF Lot
  <2> DEFINE p == plat[Peer(e)]
             q == plat[e]
             item == Head(chan[e])
  <2>7. p \in Platforms /\ q \in Platforms /\ Agreed \in Configs
    <3>1. Peer(e) \in Ends
      BY <1>3 DEF Peer, Ends
    <3>2. tpt["client"] \in Configs
      BY <1>t, <1>e
    <3> QED BY <3>1, <3>2, <2>3, <1>3, <1>t
  <2>8. /\ Agreed.bytes = Smaller(p.bytes, q.bytes)
        /\ Agreed.int <=> p.int \/ q.int
    <3> DEFINE c == plat["client"]
               s == plat["server"]
    <3>1. /\ c.int \in BOOLEAN /\ s.int \in BOOLEAN
          /\ c.bytes \in 1..8 /\ s.bytes \in 1..8
      BY <1>t, <1>e, PlatformType
    <3>2. /\ Agreed.bytes = Smaller(c.bytes, s.bytes)
          /\ Agreed.int = IF c.int # s.int THEN TRUE ELSE s.int
      BY DEF Agreed, Reconcile, Local
    <3>3. Agreed.int <=> c.int \/ s.int
      BY <3>1, <3>2
    <3>4. Smaller(c.bytes, s.bytes) = Smaller(s.bytes, c.bytes)
      BY <3>1 DEF Smaller
    <3>5. CASE e = "client"
      BY <3>2, <3>3, <3>4, <3>5 DEF Peer
    <3>6. CASE e = "server"
      BY <3>2, <3>3, <3>6 DEF Peer
    <3> QED BY <3>5, <3>6, <1>3 DEF Ends
  <2>9. /\ item.bytes = Taken(Agreed, item) /\ item.of = x
        /\ Preserved(Agreed, x, Decode(q, Agreed, item))
    BY <2>6, <2>7, <2>8, CodecRoundTrip
  <2>10. /\ pc' = pc
         /\ arrived' = [arrived EXCEPT ![e] = @ \union {<<x, Decode(q, Agreed, item)>>}]
    BY <1>3, <2>4, <2>9 DEF Read
  <2> DEFINE z == <<x, Decode(q, Agreed, item)>>
  <2>11. Preserved(Agreed, z[1], z[2])
    BY <2>9
  <2> HIDE DEF z
  <2>12. \A d \in Ends : \A m \in arrived'[d] : m \in arrived[d] \/ (d = e /\ m = z)
    BY <2>10, <1>t DEF z
  <2>13. \A d \in Ends : \A m \in arrived'[d] : Preserved(tpt[d], m[1], m[2])
    BY <2>4, <2>11, <2>12 DEF Right, ArrivesAsSent
  <2>14. ArrivesAsSent'
    BY <2>1, <2>13 DEF ArrivesAsSent
  <2>15. NumbersFramed'
    BY <2>10 DEF Right, NumbersFramed
  <2> QED BY <2>2, <2>10, <2>14, <2>15 DEF Right, Connected
<1>4. CASE UNCHANGED vars
  BY <1>4 DEF vars, Right, NumbersFramed, ArrivesAsSent, Connected
<1> QED BY <1>1, <1>2, <1>3, <1>4 DEF Next

\* Between uniform platforms no end ever loses its place in the stream, and
\* every length and number arrives as it was sent.
THEOREM UniformNumbersArrive ==
  ASSUME Uniform
  PROVE  Spec => [](NumbersFramed /\ ArrivesAsSent)
<1>1. Init => Right
  BY DEF Init, Right, NumbersFramed, ArrivesAsSent
<1>2. HInv /\ HInv' /\ Right /\ [Next]_vars => Right'
  BY NextRight
<1>3. Right => NumbersFramed /\ ArrivesAsSent
  BY DEF Right
<1> QED BY HInvHolds, <1>1, <1>2, <1>3, PTL DEF Spec

\* The first of the two by itself: transport_read_number and
\* transport_read_uint32_t take as many bytes as the other end has written.
THEOREM UniformNumbersFramed ==
  ASSUME Uniform
  PROVE  Spec => []NumbersFramed
<1>1. Spec => [](NumbersFramed /\ ArrivesAsSent)
  BY UniformNumbersArrive
<1>2. NumbersFramed /\ ArrivesAsSent => NumbersFramed
  OBVIOUS
<1> QED BY <1>1, <1>2, PTL
=============================================================================
