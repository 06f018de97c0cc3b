---------------------------- MODULE Negotiation ----------------------------
(***************************************************************************)
(* client_negotiate and server_negotiate: the header each end sends once,  *)
(* with the byte order, the size and the kind of its lua_Number, and what  *)
(* the ends make of it; then the lengths and numbers that cross the        *)
(* connection, encoded by transport_write_number and                       *)
(* transport_write_uint32_t under the configuration agreed upon.           *)
(*                                                                         *)
(* An encoded number is not spelt out in bytes: it is known by its format, *)
(* its size and its byte order, and a reader that takes it for anything    *)
(* else gets junk, or loses its place in the stream.                       *)
(***************************************************************************)
EXTENDS Naturals, Sequences

CONSTANTS
  FloatBytes, IntBytes,  \* sizes of a lua_Number that is a float, an integer
  OldPeers,              \* an end may speak another version of the protocol
  MaxSent                \* bound: items written by each end

ASSUME NegotiationAssumption ==
  /\ FloatBytes \subseteq {4, 8}
  /\ IntBytes \subseteq {1, 2, 4, 8}
  /\ OldPeers \in BOOLEAN
  /\ MaxSent \in Nat

VARIABLES
  plat,     \* what each end is compiled for
  ver,      \* the protocol version of each end
  pc,       \* where each end is
  tpt,      \* its Transport: net_little, lnum_bytes, net_intnum
  chan,     \* what is under way to each end
  sent,     \* items each end has written
  arrived   \* what each end has read: <<item written, item read>>

vars == <<plat, ver, pc, tpt, chan, sent, arrived>>

Ends == {"client", "server"}
Peer(e) == IF e = "client" THEN "server" ELSE "client"

Platforms == [little : BOOLEAN, bytes : FloatBytes, int : {FALSE}] \union
             [little : BOOLEAN, bytes : IntBytes, int : {TRUE}]

RPC_PROTOCOL_VERSION == 3
Versions == {RPC_PROTOCOL_VERSION} \union (IF OldPeers THEN {2} ELSE {})

Configs == [little : BOOLEAN, bytes : FloatBytes \union IntBytes, int : BOOLEAN]
Headers == [fmt : {"header"}, ver : Versions, conf : Configs]

\* The numbers of a program, by what an encoding may do to them: "int" fits
\* every integer type, "wide" is an integer of more than four bytes, "frac"
\* is no integer and "trunc" its integral part; "len" is a uint32_t.
Numbers == {"int", "frac", "trunc", "wide"}
Items == Numbers \union {"len"}
Values == Items \union {"junk"}
Encodings == [fmt : {"int", "float", "u32"}, bytes : 1..8, little : BOOLEAN,
              of : Items, val : Values]

Trunc(x) == IF x = "frac" THEN "trunc" ELSE x
Fits(x, bytes) == x = "wide" => bytes = 8

\* The configuration an end starts from: its own.
Local(p) == [little |-> p.little, bytes |-> p.bytes, int |-> p.int]

Header(v, c) == [fmt |-> "header", ver |-> v, conf |-> c]

Init ==
  /\ plat \in [Ends -> Platforms]
  /\ ver \in [Ends -> Versions]
  /\ pc = [e \in Ends |-> IF e = "client" THEN "start" ELSE "wait"]
  /\ tpt = [e \in Ends |-> Local(plat[e])]
  /\ chan = [e \in Ends |-> <<>>]
  /\ sent = [e \in Ends |-> 0]
  /\ arrived = [e \in Ends |-> {}]

-----------------------------------------------------------------------------
(* The headers.                                                            *)

\* client_negotiate up to the flush.
ClientSendsHeader ==
  /\ pc["client"] = "start"
  /\ pc' = [pc EXCEPT !["client"] = "wait"]
  /\ chan' = [chan EXCEPT !["server"] =
                Append(@, Header(ver["client"], Local(plat["client"])))]
  /\ UNCHANGED <<plat, ver, tpt, sent, arrived>>

Smaller(a, b) == IF a < b THEN a ELSE b

\* Mutants: the byte order of the client is kept; the size of the server is.
ReconcileKeepsOrder(c, p) ==
  [little |-> p.little, bytes |-> Smaller(c.bytes, p.bytes),
   int |-> IF c.int # p.int THEN TRUE ELSE p.int]
ReconcileLarger(c, p) ==
  [little |-> IF c.little # p.little THEN FALSE ELSE p.little,
   bytes |-> p.bytes,
   int |-> IF c.int # p.int THEN TRUE ELSE p.int]

\* Big endian when the orders differ, the smaller number, and integers when
\* one of the two has nothing else: what the server sets for itself ...
Reconcile(c, p) ==
  [little |-> IF c.little # p.little THEN FALSE ELSE p.little,
   bytes |-> Smaller(c.bytes, p.bytes),
   int |-> IF c.int # p.int THEN TRUE ELSE p.int]

\* Mutant: the sizes are added.
AmendSums(c, p) ==
  [little |-> IF c.little # p.little THEN FALSE ELSE c.little,
   bytes |-> c.bytes + p.bytes,
   int |-> IF c.int # p.int THEN TRUE ELSE c.int]

\* ... and the client's header with the fields the server has changed, which
\* is what it answers.
Amend(c, p) ==
  [little |-> IF c.little # p.little THEN FALSE ELSE c.little,
   bytes |-> IF c.bytes > p.bytes THEN p.bytes ELSE c.bytes,
   int |-> IF c.int # p.int THEN TRUE ELSE c.int]

ServerNegotiates ==
  /\ pc["server"] = "wait"
  /\ chan["server"] # <<>>
  /\ LET h == Head(chan["server"]) IN
       /\ h.ver = ver["server"]
       /\ tpt' = [tpt EXCEPT !["server"] = Reconcile(h.conf, plat["server"])]
       /\ chan' = [chan EXCEPT !["server"] = Tail(@),
                     !["client"] = Append(@, Header(ver["server"],
                                          Amend(h.conf, plat["server"])))]
  /\ pc' = [pc EXCEPT !["server"] = "connected"]
  /\ UNCHANGED <<plat, ver, sent, arrived>>

\* Mutant: the exception is swallowed and the worker left waiting.
ServerRefusesSilently ==
  /\ pc["server"] = "wait"
  /\ chan["server"] # <<>>
  /\ Head(chan["server"]).ver # ver["server"]
  /\ chan' = [chan EXCEPT !["server"] = Tail(@)]
  /\ UNCHANGED <<plat, ver, pc, tpt, sent, arrived>>

\* ERR_HEADER: rpc_dispatch_accept closes the connection, without a word.
ServerRefuses ==
  /\ pc["server"] = "wait"
  /\ chan["server"] # <<>>
  /\ Head(chan["server"]).ver # ver["server"]
  /\ pc' = [pc EXCEPT !["server"] = "closed"]
  /\ chan' = [chan EXCEPT !["server"] = <<>>]
  /\ UNCHANGED <<plat, ver, tpt, sent, arrived>>

\* No header within com_timeout.
ServerTimeout ==
  /\ pc["server"] = "wait"
  /\ pc' = [pc EXCEPT !["server"] = "closed"]
  /\ chan' = [chan EXCEPT !["server"] = <<>>]
  /\ UNCHANGED <<plat, ver, tpt, sent, arrived>>

\* client_negotiate, from the answer on.
ClientReadsHeader ==
  /\ pc["client"] = "wait"
  /\ chan["client"] # <<>>
  /\ LET h == Head(chan["client"]) IN
       /\ h.ver = ver["client"]
       /\ tpt' = [tpt EXCEPT !["client"] = h.conf]
  /\ chan' = [chan EXCEPT !["client"] = Tail(@)]
  /\ pc' = [pc EXCEPT !["client"] = "connected"]
  /\ UNCHANGED <<plat, ver, sent, arrived>>

\* End of file: rpc.client raises an error.
ClientEof ==
  /\ pc["client"] = "wait"
  /\ pc["server"] = "closed"
  /\ pc' = [pc EXCEPT !["client"] = "failed"]
  /\ UNCHANGED <<plat, ver, tpt, chan, sent, arrived>>

\* No answer within com_timeout: the same error, while the answer may still
\* be under way and the server may count the connection as made.
ClientTimeout ==
  /\ pc["client"] = "wait"
  /\ pc' = [pc EXCEPT !["client"] = "failed"]
  /\ UNCHANGED <<plat, ver, tpt, chan, sent, arrived>>

-----------------------------------------------------------------------------
(* Lengths and numbers.                                                    *)

\* Platform p under configuration t: swap_bytes is applied when the network's
\* order is not the local one.
Order(p, t) == IF t.little # p.little THEN ~p.little ELSE p.little

\* transport_write_uint32_t and transport_write_number: an integer of the
\* agreed size, or the eight bytes that start at the lua_Number (of which a
\* four byte one is only the first half).
Encode(p, t, x) ==
  IF x = "len" THEN
    [fmt |-> "u32", bytes |-> 4, little |-> Order(p, t), of |-> x, val |-> x]
  ELSE IF t.int THEN
    [fmt |-> "int", bytes |-> t.bytes, little |-> Order(p, t), of |-> x,
     val |-> IF Fits(x, t.bytes) THEN Trunc(x) ELSE "junk"]
  ELSE
    [fmt |-> "float", bytes |-> 8, little |-> Order(p, t), of |-> x,
     val |-> IF p.bytes = 8 THEN x ELSE "junk"]

\* A Lua program has the numbers of its lua_Number only.
Has(p, x) == p.int => x # "frac" /\ Fits(x, p.bytes)

Write(e) ==
  /\ pc[e] = "connected"
  /\ sent[e] < MaxSent
  /\ sent' = [sent EXCEPT ![e] = @ + 1]
  /\ \E x \in Items \ {"trunc"} :
       /\ Has(plat[e], x)
       /\ chan' = [chan EXCEPT ![Peer(e)] = Append(@, Encode(plat[e], tpt[e], x))]
  /\ UNCHANGED <<plat, ver, pc, tpt, arrived>>

\* transport_read_number: how many bytes it takes ...
Taken(t, item) == IF item.of = "len" THEN 4 ELSE t.bytes

\* Mutant: always a lua_Number, though the other end may have sent an integer.
DecodeNative(p, t, item) ==
  IF item.of = "len" \/ item.fmt = (IF p.int THEN "int" ELSE "float")
  THEN item.val ELSE "junk"

\* ... and what it makes of them: an integer of that size when the ends have
\* different kinds of numbers, otherwise a lua_Number of its own size.
Decode(p, t, item) ==
  IF item.little # Order(p, t) THEN "junk"
  ELSE IF item.of = "len" THEN item.val
  ELSE IF t.int # p.int THEN
    IF item.fmt = "int" THEN item.val ELSE "junk"
  ELSE IF item.fmt = (IF p.int THEN "int" ELSE "float") /\ p.bytes = t.bytes
       THEN item.val ELSE "junk"

Read(e) ==
  /\ pc[e] = "connected"
  /\ chan[e] # <<>>
  /\ LET item == Head(chan[e]) IN
       IF item.bytes = Taken(tpt[e], item)
       THEN /\ arrived' = [arrived EXCEPT ![e] =
                            @ \union {<<item.of, Decode(plat[e], tpt[e], item)>>}]
            /\ UNCHANGED pc
       ELSE /\ pc' = [pc EXCEPT ![e] = "astray"]
            /\ UNCHANGED arrived
  /\ chan' = [chan EXCEPT ![e] = Tail(@)]
  /\ UNCHANGED <<plat, ver, tpt, sent>>

-----------------------------------------------------------------------------
Handshake ==
  \/ ClientSendsHeader \/ ServerNegotiates \/ ServerRefuses
  \/ ClientReadsHeader \/ ClientEof

Next ==
  \/ Handshake
  \/ ServerTimeout \/ ClientTimeout
  \/ \E e \in Ends : Write(e) \/ Read(e)

Spec == Init /\ [][Next]_vars

\* Both ends run; no fairness is asked of the timeouts.
FairSpec == Spec /\ WF_vars(Handshake)

-----------------------------------------------------------------------------
TypeOK ==
  /\ plat \in [Ends -> Platforms]
  /\ ver \in [Ends -> Versions]
  /\ pc \in [Ends -> {"start", "wait", "connected", "failed", "closed", "astray"}]
  /\ tpt \in [Ends -> Configs]
  /\ chan \in [Ends -> Seq(Headers \union Encodings)]
  /\ sent \in [Ends -> 0..MaxSent]
  /\ arrived \in [Ends -> SUBSET (Items \X Values)]

Connected(e) == pc[e] \in {"connected", "astray"}

\* A client that connected has a server that did, with the same version and
\* the same configuration: one that both platforms can write and read.
Agreement ==
  Connected("client") =>
    /\ Connected("server")
    /\ ver["client"] = ver["server"]
    /\ tpt["client"] = tpt["server"]
    /\ \A e \in Ends : tpt["client"].bytes <= plat[e].bytes
    /\ tpt["client"].int <=> \E e \in Ends : plat[e].int

\* Every reader takes as many bytes as the writer wrote, so that the next byte
\* it reads is the first of the next item.
NumbersFramed == \A e \in Ends : pc[e] # "astray"

\* y is what may become of x under configuration t.
Preserved(t, x, y) ==
  IF t.int /\ x # "len" THEN Fits(x, t.bytes) => y = Trunc(x) ELSE y = x

\* What each end reads is what the other wrote: lengths and numbers, exactly
\* between floats and as far as the common integer type goes otherwise.
ArrivesAsSent ==
  \A e \in Ends : \A p \in arrived[e] : Preserved(tpt[e], p[1], p[2])

\* A client learns what became of its header without waiting for a timeout:
\* an answer, or the end of file.
ClientLearns == pc["client"] = "wait" ~> pc["client"] \in {"connected", "failed"}
=============================================================================
