--------------------------- MODULE ConnectionInput ---------------------------
(***************************************************************************)
(* How the three servers turn the bytes of one connection into commands:   *)
(*   - RunConnection of src/network/blocking/ServerImpl.cpp and            *)
(*     ConnectionWork of src/network/nonblocking/Worker.cpp, which share   *)
(*     the string `command' and the array `buf';                           *)
(*   - OnAllocate, OnRead and Execute of src/network/uv/Worker.cpp.        *)
(*                                                                         *)
(* The client's requests form a stream of characters, and a read returns   *)
(* any first part of it.  Which server it is, is chosen in Init.  The end  *)
(* of a connection by the client, failing sends and Stop are the subject   *)
(* of the server modules.                                                  *)
(***************************************************************************)
EXTENDS Parser

CONSTANTS
  Request,      \* what clients send: name, keys, flags, exptime, bytes, data
  BufSize,      \* bytes a read of the socket servers may return (256)
  MaxRequests,  \* bound: requests of the client
  MaxExecuted   \* bound: commands executed

ASSUME BoundsAssumption == BufSize \in Nat \ {0} /\ MaxRequests \in Nat /\ MaxExecuted \in Nat

Number(s) == s \in Seq(Digit) /\ s # <<>>

Word == Seq(Char \ {SP, CR})

Decimal(digits) ==
  LET value[n \in 0..Len(digits)] ==
        IF n = 0 THEN 0 ELSE 10 * value[n - 1] + DigitValue[digits[n]]
  IN  value[Len(digits)]

(* Requests as the protocol has them *)
WellFormed(r) ==
  /\ r \in [name : Word, keys : Seq(Word), flags : Seq(Digit), exptime : Seq(Digit \cup {"-"}),
            bytes : Seq(Digit), data : Seq(Char)]
  /\ r.name \in PutNames =>
       /\ Len(r.keys) = 1 /\ Number(r.flags)
       /\ r.exptime # <<>>
       /\ Number(r.exptime) \/ (Head(r.exptime) = "-" /\ Number(Tail(r.exptime)))
       /\ Number(r.bytes) /\ Decimal(r.bytes) = Len(r.data)
  /\ r.name \notin PutNames => r.data = <<>>
  /\ r.name \in GetNames => r.keys # <<>>
  /\ r.name = <<"stats">> => r.keys = <<>>

ASSUME RequestAssumption == \A r \in Request : WellFormed(r)

VARIABLES
  server,    \* blocking, nonblocking or uv
  sent,      \* the requests sent so far
  stream,    \* their characters not yet read by the server
  pc,        \* read: waiting for data; body, loop, execute: see below; closed; crashed
  parser,    \* the connection's parser
  command,   \* the string `command', or the used part of `input' (uv)
  buf,       \* the array `buf' up to its terminator
  parsed,    \* input_parsed (uv)
  state,     \* ConnectionState (uv)
  cmd,       \* the command built
  body_size, \* bytes of its data block still to come
  body,      \* its data block
  executed,  \* the commands executed, with their data blocks
  rejected,  \* an error was reported instead of a result
  unusual    \* what has been met that the servers do not provide for

ivars == <<server, sent, stream, pc, parser, command, buf, parsed, state, cmd, body_size, body,
           executed, rejected, unusual>>

(* Keys as they are sent, each after a space *)
Keys(ks) ==
  LET text[n \in 0..Len(ks)] == IF n = 0 THEN <<>> ELSE text[n - 1] \o (<<SP>> \o ks[n])
  IN  text[Len(ks)]

(* The line a request begins with, and the whole of it *)
Header(r) ==
  IF r.name \in PutNames
  THEN r.name \o <<SP>> \o r.keys[1] \o <<SP>> \o r.flags \o <<SP>> \o r.exptime
         \o <<SP>> \o r.bytes \o <<CR, LF>>
  ELSE r.name \o Keys(r.keys) \o <<CR, LF>>

Encode(r) == IF r.name \in PutNames THEN Header(r) \o r.data \o <<CR, LF>> ELSE Header(r)

NoCommand == [name |-> <<>>, keys |-> <<>>, flags |-> 0, exprtime |-> 0]

Command == [name : Seq(Char), keys : Seq(Seq(Char)), flags : Unsigned, exprtime : Int]

ITypeOK ==
  /\ server \in {"blocking", "nonblocking", "uv"}
  /\ sent \in Seq(Request) /\ Len(sent) <= MaxRequests
  /\ pc \in {"read", "body", "loop", "execute", "closed", "crashed"}
  /\ parser \in ParserFields
  /\ stream \in Seq(Char) /\ command \in Seq(Char) /\ buf \in Seq(Char) /\ body \in Seq(Char)
  /\ parsed \in 0..Len(command)
  /\ state \in {"sRecvHeader", "sRecvBody", "sRecvTrailerCR", "sRecvTrailerLF", "sExecute"}
  /\ cmd \in Command
  /\ body_size \in Unsigned
  /\ executed \in Seq([command : Command, data : Seq(Char)]) /\ Len(executed) <= MaxExecuted
  /\ rejected \in BOOLEAN
  /\ unusual \subseteq {"pipelined", "empty", "range", "time", "cut", "full"}

IInit ==
  /\ server \in {"blocking", "nonblocking", "uv"}
  /\ sent = <<>> /\ stream = <<>> /\ pc = "read"
  /\ parser = NewParser /\ command = <<>> /\ buf = <<>> /\ parsed = 0
  /\ state = "sRecvHeader" /\ cmd = NoCommand /\ body_size = 0 /\ body = <<>>
  /\ executed = <<>> /\ rejected = FALSE /\ unusual = {}

-----------------------------------------------------------------------------
(* The client. *)

(* What `unusual' records of a request: another is not yet answered; its     *)
(* data block is empty; its flags, or the size of its data block and of the  *)
(* line's end after it, do not fit; its time has several digits.             *)
Unusual(r) ==
  (IF Len(executed) < Len(sent) THEN {"pipelined"} ELSE {})
    \cup (IF r.name \in PutNames /\ r.data = <<>> THEN {"empty"} ELSE {})
    \cup (IF Decimal(r.flags) >= 2^Width \/ Len(r.data) + 2 >= 2^Width THEN {"range"} ELSE {})
    \cup (IF \E i, j \in DOMAIN r.exptime : i # j /\ {r.exptime[i], r.exptime[j]} \subseteq Digit
          THEN {"time"} ELSE {})

ClientSends ==
  /\ Len(sent) < MaxRequests /\ pc \notin {"closed", "crashed"}
  /\ \E r \in Request :
       sent' = Append(sent, r) /\ stream' = stream \o Encode(r) /\ unusual' = unusual \cup Unusual(r)
  /\ UNCHANGED <<server, pc, parser, command, buf, parsed, state, cmd, body_size, body, executed, rejected>>

-----------------------------------------------------------------------------
(* The socket servers. *)

Socket == server \in {"blocking", "nonblocking"}

Drop(s, n) == SubSeq(s, n + 1, Len(s))

(* What read() put at the beginning of buf, seen as a C string: a part that  *)
(* fills buf runs on into whatever is behind it.                             *)
AsString(chunk, old) ==
  IF Len(chunk) = BufSize THEN {chunk, Append(chunk, "?")} ELSE {chunk \o Drop(old, Len(chunk))}

(* read() returns the next part of the stream.  `cut': more of the request   *)
(* is to come where the server expects it to be there, which the blocking    *)
(* one does only when it completes a data block.                             *)
Chunks == {SubSeq(stream, 1, n) : n \in 1..(IF Len(stream) < BufSize THEN Len(stream) ELSE BufSize)}

Takes(chunk) ==
  /\ stream' = Drop(stream, Len(chunk))
  /\ unusual' = unusual
       \cup (IF Len(chunk) < Len(stream) /\ (pc = "body" \/ server = "nonblocking") THEN {"cut"} ELSE {})
       \cup (IF Len(chunk) = BufSize /\ Socket THEN {"full"} ELSE {})

(* "PARSE ERROR", or "CLIENT_ERROR", and the end of the connection *)
Reject ==
  /\ pc' = "closed" /\ rejected' = TRUE
  /\ UNCHANGED <<parser, command, buf, cmd, body_size>>

(* The exception of Build leaves the function. *)
Crash ==
  /\ pc' = "crashed"
  /\ UNCHANGED <<parser, command, buf, cmd, body_size, rejected>>

(* The loop up to Build: Parse is told the number of characters just read,   *)
(* and looks at the whole string.                                            *)
SocketParse(chunk, str) ==
  LET text == command \o str
      r == Parse(parser, SubSeq(text, 1, Len(chunk)))
      p == r.parser
  IN  \/ p.thrown /\ Reject
      \/ /\ ~p.thrown /\ ~p.parse_complete
         /\ parser' = p /\ command' = Drop(text, r.parsed)
         /\ UNCHANGED <<pc, buf, cmd, body_size, rejected>>
      \/ p.parse_complete /\ ~CanBuild(p) /\ Crash
      \/ /\ p.parse_complete /\ CanBuild(p)
         /\ cmd' = Build(p) /\ body_size' = p.bytes /\ parser' = Reset(p)
         /\ command' = Drop(text, r.parsed) /\ buf' = str
         /\ pc' = IF p.bytes > 0 THEN "body" ELSE "execute"
         /\ UNCHANGED rejected

(* buf is all zeros before the read. *)
SocketRead ==
  /\ Socket /\ pc = "read"
  /\ \E chunk \in Chunks : \E str \in AsString(chunk, <<>>) : Takes(chunk) /\ SocketParse(chunk, str)
  /\ UNCHANGED <<server, sent, parsed, state, body, executed>>

(* The non-blocking read finds nothing more: the connection is over.  (The   *)
(* first read follows an event and finds something.)                         *)
SocketAgain ==
  /\ server = "nonblocking" /\ pc = "read" /\ (parser # NewParser \/ executed # <<>>)
  /\ pc' = "closed"
  /\ UNCHANGED <<server, sent, stream, parser, command, buf, parsed, state, cmd, body_size, body,
                 executed, rejected, unusual>>

(* Mutant: the loop waits for one character too many. *)
NeedsMore_OneMore == (body_size + 3) % 2^Width > Len(command)

NeedsMore == (body_size + 2) % 2^Width > Len(command)

(* while (body_size + 2 > command.size()): buf is not cleared, and what      *)
(* read() returns is not looked at.                                          *)
SocketBody ==
  /\ Socket /\ pc = "body" /\ NeedsMore
  /\ \/ \E chunk \in Chunks : \E str \in AsString(chunk, buf) :
          Takes(chunk) /\ buf' = str /\ command' = command \o str
     \/ /\ server = "nonblocking" /\ unusual' = unusual \cup {"cut"}
        /\ command' = command \o buf
        /\ UNCHANGED <<stream, buf>>
  /\ UNCHANGED <<server, sent, pc, parser, parsed, state, cmd, body_size, body, executed, rejected>>

SocketArgs ==
  /\ Socket /\ pc = "body" /\ ~NeedsMore
  /\ body' = IF body_size <= Len(command) THEN SubSeq(command, 1, body_size) ELSE command
  /\ pc' = "execute"
  /\ UNCHANGED <<server, sent, stream, parser, command, buf, parsed, state, cmd, body_size,
                 executed, rejected, unusual>>

-----------------------------------------------------------------------------
(* The libuv worker: `command' is input[0 .. input_used). *)

(* OnAllocate and the first lines of OnRead *)
UVRead ==
  /\ server = "uv" /\ pc = "read"
  /\ \E chunk \in Chunks : Takes(chunk) /\ command' = Drop(command, parsed) \o chunk
  /\ parsed' = 0 /\ pc' = "loop"
  /\ UNCHANGED <<server, sent, parser, buf, state, cmd, body_size, body, executed, rejected>>

InLoop(s) == server = "uv" /\ pc = "loop" /\ parsed < Len(command) /\ state = s

(* Parse is given the buffer from its first byte. *)
UVHeader ==
  /\ InLoop("sRecvHeader")
  /\ LET r == Parse(parser, command)
         p == r.parser
     IN  \/ (p.thrown \/ (p.parse_complete /\ ~CanBuild(p))) /\ Reject /\ UNCHANGED <<parsed, state>>
         \/ /\ ~p.thrown /\ ~p.parse_complete
            /\ parser' = p /\ parsed' = r.parsed
            /\ UNCHANGED <<pc, command, buf, state, cmd, body_size, rejected>>
         \/ /\ p.parse_complete /\ CanBuild(p)
            /\ parser' = p /\ parsed' = r.parsed
            /\ cmd' = Build(p) /\ body_size' = p.bytes
            /\ IF p.bytes > 0 THEN state' = "sRecvBody" /\ UNCHANGED pc
                              ELSE state' = "sExecute" /\ pc' = "execute"
            /\ UNCHANGED <<command, buf, rejected>>
  /\ UNCHANGED <<server, sent, stream, body, executed, unusual>>

(* Mutant: the part of the data block that comes first is forgotten. *)
UVBody_Replaces ==
  /\ InLoop("sRecvBody")
  /\ LET rest == Len(command) - parsed
         for_copy == IF rest < body_size THEN rest ELSE body_size
     IN  /\ body' = SubSeq(command, parsed + 1, parsed + for_copy)
         /\ body_size' = body_size - for_copy
         /\ parsed' = parsed + for_copy
  /\ state' = IF body_size' = 0 THEN "sRecvTrailerCR" ELSE state
  /\ UNCHANGED <<server, sent, stream, pc, parser, command, buf, cmd, executed, rejected, unusual>>

UVBody ==
  /\ InLoop("sRecvBody")
  /\ LET rest == Len(command) - parsed
         for_copy == IF rest < body_size THEN rest ELSE body_size
     IN  /\ body' = body \o SubSeq(command, parsed + 1, parsed + for_copy)
         /\ body_size' = body_size - for_copy
         /\ parsed' = parsed + for_copy
  /\ state' = IF body_size' = 0 THEN "sRecvTrailerCR" ELSE state
  /\ UNCHANGED <<server, sent, stream, pc, parser, command, buf, cmd, executed, rejected, unusual>>

UVTrailer ==
  /\ \/ /\ InLoop("sRecvTrailerCR") /\ command[parsed + 1] = CR
        /\ state' = "sRecvTrailerLF" /\ parsed' = parsed + 1
        /\ UNCHANGED <<pc, parser, command, buf, cmd, body_size, rejected>>
     \/ /\ InLoop("sRecvTrailerLF") /\ command[parsed + 1] = LF
        /\ state' = "sExecute" /\ pc' = "execute" /\ parsed' = parsed + 1
        /\ UNCHANGED <<parser, command, buf, cmd, body_size, rejected>>
     \/ /\ \/ InLoop("sRecvTrailerCR") /\ command[parsed + 1] # CR
           \/ InLoop("sRecvTrailerLF") /\ command[parsed + 1] # LF
        /\ Reject /\ UNCHANGED <<parsed, state>>
  /\ UNCHANGED <<server, sent, stream, body, executed, unusual>>

UVLoopEnds ==
  /\ server = "uv" /\ pc = "loop" /\ parsed >= Len(command)
  /\ pc' = "read"
  /\ UNCHANGED <<server, sent, stream, parser, command, buf, parsed, state, cmd, body_size, body,
                 executed, rejected, unusual>>

-----------------------------------------------------------------------------
(* Command::Execute and the reply; the socket servers clear `command', the   *)
(* libuv worker keeps its place in the buffer.                               *)
Execute ==
  /\ pc = "execute" /\ Len(executed) < MaxExecuted
  /\ executed' = Append(executed, [command |-> cmd, data |-> body])
  /\ parser' = Reset(parser) /\ cmd' = NoCommand /\ body' = <<>> /\ body_size' = 0
  /\ buf' = <<>> /\ state' = "sRecvHeader"
  /\ IF server = "uv" THEN pc' = "loop" /\ UNCHANGED command ELSE pc' = "read" /\ command' = <<>>
  /\ UNCHANGED <<server, sent, stream, parsed, rejected, unusual>>

Server ==
  \/ SocketRead \/ SocketBody \/ SocketArgs
  \/ UVRead \/ UVHeader \/ UVBody \/ UVTrailer \/ UVLoopEnds
  \/ Execute

INext == ClientSends \/ SocketAgain \/ Server

ISpec == IInit /\ [][INext]_ivars

-----------------------------------------------------------------------------
(* Properties. *)

Supported(r) == r.name \in {<<"set">>, <<"add">>, <<"append">>, <<"get">>, <<"stats">>}

(* What a request means by the protocol. *)
Time(e) == IF Head(e) = "-" THEN 0 - Decimal(Tail(e)) ELSE Decimal(e)

Meaning(r) ==
  [command |-> [name |-> r.name, keys |-> r.keys,
                flags |-> IF r.name \in PutNames THEN Decimal(r.flags) ELSE 0,
                exprtime |-> IF r.name \in PutNames THEN Time(r.exptime) ELSE 0],
   data |-> r.data]

(* The request being answered *)
LastSent == sent[Len(sent)]

(* What a client may count on, however the network cuts its requests into    *)
(* parts (up to the limits that `unusual' names): the commands executed are  *)
(* the ones it sent, in order, once each, with the data blocks it sent.      *)
ExecutedAsSent ==
  unusual = {} =>
    /\ Len(executed) <= Len(sent)
    /\ \A i \in 1..Len(executed) : executed[i] = Meaning(sent[i])

(* An error is reported only for a request whose name is unknown: no         *)
(* well-formed one is taken for an error because of how it arrived, and no   *)
(* number in range for an overflow.                                          *)
RejectsOnlyUnknown ==
  (unusual = {} /\ rejected) => ~Supported(LastSent)

(* When all that was sent has been read and the server waits for more, every *)
(* request has been executed: none is kept half read in `command', `buf' or  *)
(* the parser for want of characters that will not come.                     *)
NothingLeft ==
  (unusual = {} /\ stream = <<>> /\ (pc = "read" \/ (pc = "body" /\ NeedsMore))) =>
    Len(executed) = Len(sent)
=============================================================================
