------------------------------- MODULE Telnet -------------------------------
(***************************************************************************)
(* The Telnet codec of plugins/protocol-telnet/negotiate.go.  The peer     *)
(* sends application bytes, commands and subnegotiations; the network may  *)
(* cut the stream anywhere, so feed takes one byte at a time and carries   *)
(* its mode over.  Its replies wait until Read writes them, the last step  *)
(* of a chunk, while SendNAWS and Write put frames on the same wire.       *)
(***************************************************************************)
EXTENDS Naturals, Sequences, SequencesExt

CONSTANTS
  Bytes,      \* application bytes, either way
  Options,    \* options the peer asks about
  MaxItems,   \* bound: items the peer sends
  MaxFrames,  \* bound: frames of resizes and input
  Widths      \* window sizes a resize may set

IAC == 255
DONT == 254
DO == 253
WONT == 252
WILL == 251
SB == 250
NOP == 241
SE == 240
BINARY == 0
ECHO == 1
SGA == 3
TTYPE == 24
NAWS == 31
LINEMODE == 34
SEND == 1
IS == 0

VARIABLES
  incoming,   \* bytes of the peer's current item still to arrive
  items,      \* items the peer has sent
  meant,      \* the application bytes the peer meant
  asked,      \* the options the peer asked about, in order
  mode,       \* negState.mode
  sbOpt,      \* negState.sbOpt
  sbBuf,      \* negState.sbBuf
  out,        \* application bytes feed has put out
  reply,      \* reply bytes of the current chunk
  size,       \* negState.cols; rows go the same way
  wire,       \* bytes written to the peer
  typed,      \* application bytes given to Write
  frames      \* frames of resizes and input so far

vars == <<incoming, items, meant, asked, mode, sbOpt, sbBuf, out, reply, size, wire, typed, frames>>

Init ==
  /\ incoming = <<>> /\ items = 0 /\ meant = <<>> /\ asked = <<>>
  /\ mode = "normal" /\ sbOpt = 0 /\ sbBuf = <<>> /\ out = <<>> /\ reply = <<>>
  /\ size \in Widths
  /\ wire = <<>> /\ typed = <<>> /\ frames = 0

-----------------------------------------------------------------------------
(* The pure parts                                                           *)

escapeIAC(p) == FlattenSeq([i \in DOMAIN p |-> IF p[i] = IAC THEN <<IAC, IAC>> ELSE <<p[i]>>])

Clamped(n) == IF n > 65535 THEN 65535 ELSE n

\* mutant: the parameters of a window size are not escaped
buildNAWSRaw(n) == <<IAC, SB, NAWS, Clamped(n) \div 256, Clamped(n) % 256, IAC, SE>>
buildNAWS(n) ==
  <<IAC, SB, NAWS>> \o escapeIAC(<<Clamped(n) \div 256, Clamped(n) % 256>>) \o <<IAC, SE>>

handleWill(o) == <<IAC, IF o \in {ECHO, SGA, BINARY} THEN DO ELSE DONT, o>>

handleDo(o) ==
  <<IAC, IF o \in {SGA, TTYPE, NAWS, BINARY} THEN WILL ELSE WONT, o>>
    \o IF o = NAWS THEN buildNAWS(size) ELSE <<>>

handleSB ==
  IF sbOpt = TTYPE /\ Len(sbBuf) >= 1 /\ Head(sbBuf) = SEND
  THEN <<IAC, SB, TTYPE, IS>> \o escapeIAC(<<120>>) \o <<IAC, SE>>
  ELSE <<>>

-----------------------------------------------------------------------------
(* External: the peer                                                       *)

Item(bytes, data, opts) ==
  /\ incoming = <<>> /\ items < MaxItems
  /\ incoming' = bytes
  /\ items' = items + 1
  /\ meant' = meant \o data
  /\ asked' = asked \o opts
  /\ UNCHANGED <<mode, sbOpt, sbBuf, out, reply, size, wire, typed, frames>>

PeerSends ==
  \/ \E b \in Bytes : Item(escapeIAC(<<b>>), <<b>>, <<>>)
  \/ \E c \in {WILL, DO}, o \in Options : Item(<<IAC, c, o>>, <<>>, <<o>>)
  \/ \E c \in {WONT, DONT}, o \in Options : Item(<<IAC, c, o>>, <<>>, <<>>)
  \/ Item(<<IAC, NOP>>, <<>>, <<>>)
  \/ Item(<<IAC, SB, TTYPE, SEND, IAC, SE>>, <<>>, <<TTYPE>>)
  \/ Item(<<IAC, SB, LINEMODE, IAC, IAC, SE, IAC, SE>>, <<>>, <<>>)

-----------------------------------------------------------------------------
(* feed, one byte                                                           *)

FeedNormal(b) ==
  /\ mode' = IF b = IAC THEN "iac" ELSE "normal"
  /\ out' = IF b = IAC THEN out ELSE Append(out, b)
  /\ UNCHANGED <<reply, sbOpt, sbBuf>>

FeedIAC(b) ==
  /\ mode' = CASE b = WILL -> "will" [] b = WONT -> "wont" [] b = DO -> "do"
               [] b = DONT -> "dont" [] b = SB -> "sb" [] OTHER -> "normal"
  /\ out' = IF b = IAC THEN Append(out, IAC) ELSE out
  /\ UNCHANGED <<reply, sbOpt, sbBuf>>

FeedOption(b) ==
  /\ mode' = "normal"
  /\ reply' = reply \o CASE mode = "will" -> handleWill(b) [] mode = "do" -> handleDo(b)
                          [] OTHER -> <<>>
  /\ UNCHANGED <<out, sbOpt, sbBuf>>

FeedSB(b) ==
  /\ mode' = "sbData"
  /\ sbOpt' = b /\ sbBuf' = <<>>
  /\ UNCHANGED <<out, reply>>

FeedSBData(b) ==
  /\ mode' = IF b = IAC THEN "sbIAC" ELSE "sbData"
  /\ sbBuf' = IF b = IAC THEN sbBuf ELSE Append(sbBuf, b)
  /\ UNCHANGED <<out, reply, sbOpt>>

FeedSBIAC(b) ==
  /\ mode' = IF b = IAC THEN "sbData" ELSE "normal"
  /\ sbBuf' = IF b = IAC THEN Append(sbBuf, IAC) ELSE sbBuf
  /\ reply' = IF b = SE THEN reply \o handleSB ELSE reply
  /\ UNCHANGED <<out, sbOpt>>

feed ==
  /\ incoming # <<>>
  /\ incoming' = Tail(incoming)
  /\ LET b == Head(incoming) IN
     CASE mode = "normal" -> FeedNormal(b)
       [] mode = "iac" -> FeedIAC(b)
       [] mode \in {"will", "wont", "do", "dont"} -> FeedOption(b)
       [] mode = "sb" -> FeedSB(b)
       [] mode = "sbData" -> FeedSBData(b)
       [] mode = "sbIAC" -> FeedSBIAC(b)
  /\ UNCHANGED <<items, meant, asked, size, wire, typed, frames>>

\* Read ends the chunk: the replies go out under the write lock.
WriteReply ==
  /\ reply # <<>>
  /\ wire' = wire \o reply
  /\ reply' = <<>>
  /\ UNCHANGED <<incoming, items, meant, asked, mode, sbOpt, sbBuf, out, size, typed, frames>>

\* A resize stores the size, so that a later DO NAWS announces it, and sends it.
SendNAWS(n) ==
  /\ frames < MaxFrames
  /\ size' = n
  /\ frames' = frames + 1
  /\ wire' = wire \o buildNAWS(n)
  /\ UNCHANGED <<incoming, items, meant, asked, mode, sbOpt, sbBuf, out, reply, typed>>

\* Input: every 0xFF doubled.
Write(b) ==
  /\ frames < MaxFrames
  /\ typed' = Append(typed, b)
  /\ frames' = frames + 1
  /\ wire' = wire \o escapeIAC(<<b>>)
  /\ UNCHANGED <<incoming, items, meant, asked, mode, sbOpt, sbBuf, out, reply, size>>

Next ==
  \/ PeerSends
  \/ feed
  \/ WriteReply
  \/ \E n \in Widths : SendNAWS(n)
  \/ \E b \in Bytes : Write(b)

Spec == Init /\ [][Next]_vars

-----------------------------------------------------------------------------
(* What the peer makes of the wire: one byte of decoding, as RFC 854 has it, *)
(* over a state of mode, data, answered options and announced sizes.         *)

Decode(d, b) ==
  CASE d.m = "data" /\ b = IAC -> [d EXCEPT !.m = "cmd"]
    [] d.m = "data" /\ b # IAC -> [d EXCEPT !.data = Append(@, b)]
    [] d.m = "cmd" /\ b = IAC -> [d EXCEPT !.m = "data", !.data = Append(@, b)]
    [] d.m = "cmd" /\ b \in {WILL, WONT, DO, DONT} -> [d EXCEPT !.m = "opt"]
    [] d.m = "cmd" /\ b = SB -> [d EXCEPT !.m = "sub", !.buf = <<>>]
    [] d.m = "opt" -> [d EXCEPT !.m = "data", !.opts = Append(@, b)]
    [] d.m = "sub" /\ b = IAC -> [d EXCEPT !.m = "subcmd"]
    [] d.m = "sub" /\ b # IAC -> [d EXCEPT !.buf = Append(@, b)]
    [] d.m = "subcmd" /\ b = IAC -> [d EXCEPT !.m = "sub", !.buf = Append(@, b)]
    [] d.m = "subcmd" /\ b = SE ->
         [d EXCEPT !.m = "data",
                   !.opts = IF Head(d.buf) = TTYPE THEN Append(@, TTYPE) ELSE @,
                   !.sizes = IF Head(d.buf) = NAWS
                             THEN Append(@, IF Len(d.buf) = 3 THEN d.buf[2] * 256 + d.buf[3]
                                                              ELSE 65536)
                             ELSE @]
    [] OTHER -> [d EXCEPT !.m = "broken"]

Start == [m |-> "data", data |-> <<>>, opts |-> <<>>, sizes |-> <<>>, buf |-> <<>>]

\* The state after the bytes w.
Decoding(d, w) ==
  LET after[i \in 0 .. Len(w)] == IF i = 0 THEN d ELSE Decode(after[i - 1], w[i])
  IN after[Len(w)]

Decoded == Decoding(Start, wire)

\* Between two items and two chunks each side has understood the other: the plugin
\* has put out just the application bytes the peer meant, the peer decodes just the
\* bytes that were typed, every option asked about was answered once and in order,
\* and every window size on the wire is one that was set, whatever its bytes.
StreamsIntact ==
  incoming = <<>> /\ reply = <<>> =>
    /\ mode = "normal" /\ out = meant
    /\ Decoded.m = "data"
    /\ Decoded.data = typed
    /\ Decoded.opts = asked
    /\ \A i \in DOMAIN Decoded.sizes : Decoded.sizes[i] \in {Clamped(n) : n \in Widths}
=============================================================================
