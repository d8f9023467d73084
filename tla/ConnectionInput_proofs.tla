------------------------ MODULE ConnectionInput_proofs ------------------------
(* What the servers make of the requests of one connection, proved. *)
EXTENDS Input_proofs

-----------------------------------------------------------------------------
(* Where a connection can be while nothing unusual has been met. *)

Unread == IF server = "uv" THEN Drop(command, parsed) ELSE command

(* All is executed and the server waits for the next request. *)
Waiting ==
  /\ Len(executed) = Len(sent) /\ stream = <<>> /\ Fresh(parser) /\ body = <<>>
  /\ state = "sRecvHeader" /\ pc \in {"read", "loop"}
  /\ server # "uv" => pc = "read" /\ command = <<>>
  /\ server = "uv" => parsed = Len(command)

(* The first line of r is being read, from the beginning of the buffer. *)
InLine(r) ==
  /\ pc \in {"read", "loop"} /\ state = "sRecvHeader" /\ body = <<>> /\ ~Done(parser)
  /\ \E p, h : /\ Fresh(p) /\ h \in Seq(Char) /\ parser = Parse(p, h).parser
               /\ Cat(Cat(h, Unread), stream) = Encode(r)
  /\ server # "uv" => pc = "read" /\ command = <<>>
  /\ server = "uv" => parsed \in {0, Len(command)} /\ (pc = "read" => parsed = Len(command))

(* A socket server reads the data of r; something may have come with the     *)
(* last part of it that was in buf before.                                   *)
InBody(r) ==
  /\ Socket /\ pc = "body" /\ r.name \in PutNames /\ state = "sRecvHeader"
  /\ cmd = Meaning(r).command /\ body_size = Len(r.data)
  /\ \E junk \in Seq(Char) : Cat(command, stream) = Cat(Rest(r), junk) /\ (stream # <<>> => junk = <<>>)

(* The libuv worker does. *)
InData(r) ==
  /\ server = "uv" /\ pc \in {"read", "loop"} /\ (pc = "read" => parsed = Len(command))
  /\ r.name \in PutNames /\ cmd = Meaning(r).command
  /\ \/ /\ state = "sRecvBody" /\ Cat(body, Cat(Unread, stream)) = Rest(r)
        /\ body_size > 0 /\ Len(body) + body_size = Len(r.data)
     \/ state = "sRecvTrailerCR" /\ body = r.data /\ Cat(Unread, stream) = <<CR, LF>>
     \/ state = "sRecvTrailerLF" /\ body = r.data /\ Cat(Unread, stream) = <<LF>>

(* r is to be executed, and all of it has been read. *)
Ready(r) ==
  /\ pc = "execute" /\ stream = <<>> /\ cmd = Meaning(r).command /\ body = r.data
  /\ server = "uv" => parsed = Len(command)

Stage(r) == InLine(r) \/ InBody(r) \/ InData(r) \/ Ready(r)

Sound ==
  /\ Len(executed) <= Len(sent) /\ \A i \in 1..Len(executed) : executed[i] = Meaning(sent[i])
  /\ rejected => pc = "closed" /\ sent # <<>> /\ ~Supported(LastSent)
  /\ \/ pc \in {"closed", "crashed"}
     \/ Waiting
     \/ /\ Len(sent) = Len(executed) + 1
        /\ \E r : r = LastSent /\ Usual(r) /\ Stage(r)

(* What a step of the server may do with r. *)
Moves(r) ==
  \/ pc' = "closed" /\ ~Supported(r)
  \/ rejected' = rejected /\ (pc' \in {"closed", "crashed"} \/ Stage(r)')

(* The next part of a first line. *)
LEMMA NextOfLine ==
  ASSUME NEW r, WellFormed(r), Usual(r), NEW p, Fresh(p), NEW h \in Seq(Char), NEW c \in Seq(Char),
         NEW t \in Seq(Char), NEW x, NEW res, x = Parse(p, h).parser, ~Done(x), res = Parse(x, c),
         Cat(Cat(h, c), t) = Encode(r)
  PROVE  /\ ~Done(res.parser) => res.parsed = Len(c) /\ res.parser = Parse(p, Cat(h, c)).parser /\ t # <<>>
         /\ Done(res.parser) => Verdict(res.parser, Cat(Drop(c, res.parsed), t), r)
<1>1. PICK w \in Seq(Char), v \in Seq(Char) : \E q : Encode(r) = w \o v /\ Fed(p, w, q) /\ Verdict(q, v, r)
  BY RequestRead
<1>2. PICK q : Encode(r) = w \o v /\ Fed(p, w, q) /\ Verdict(q, v, r)
  BY <1>1
<1>3. p \in ParserFields
  BY FreshAt DEF At
<1>4. Done(q)
  BY <1>2 DEF Verdict, Understood, Done
<1>5. Cat(Cat(h, c), t) = Cat(w, v)
  BY <1>2, Zenon DEF Cat
<1>6. /\ ~Done(res.parser) => res.parsed = Len(c) /\ res.parser = Parse(p, Cat(h, c)).parser /\ t # <<>>
      /\ Done(res.parser) => res.parser = q /\ Cat(Drop(c, res.parsed), t) = v
  BY <1>2, <1>3, <1>4, <1>5, NextPart
<1>7. QED
  BY <1>2, <1>6

(* What is in the buffer and in the stream are characters. *)
LEMMA UnreadType ==
  ASSUME ITypeOK
  PROVE  Unread \in Seq(Char) /\ stream \in Seq(Char) /\ command \in Seq(Char) /\ body \in Seq(Char)
BY DropProps DEF ITypeOK, Unread

(* While nothing unusual is met, a read of a socket server returns what is   *)
(* there, and the string it sees is what it returns.                         *)
LEMMA TakesNothingUnusual ==
  ASSUME ITypeOK, NEW chunk \in Chunks, Takes(chunk), unusual' = {}
  PROVE  /\ unusual = {} /\ chunk \in Seq(Char) /\ chunk # <<>> /\ stream' \in Seq(Char)
         /\ stream = Cat(chunk, stream') /\ Len(stream') = Len(stream) - Len(chunk)
         /\ Socket => Len(chunk) # BufSize
         /\ pc = "body" => stream' = <<>>
<1>1. stream \in Seq(Char)
  BY DEF ITypeOK
<1>2. /\ chunk \in Seq(Char) /\ Len(chunk) \in 1..Len(stream)
      /\ Drop(stream, Len(chunk)) \in Seq(Char) /\ Cat(chunk, Drop(stream, Len(chunk))) = stream
      /\ Len(Drop(stream, Len(chunk))) = Len(stream) - Len(chunk)
  BY <1>1, ChunkProps
<1>3. stream' = Drop(stream, Len(chunk))
  BY DEF Takes
<1>4. unusual = {} /\ (Socket => Len(chunk) # BufSize) /\ (pc = "body" => ~(Len(chunk) < Len(stream)))
  BY DEF Takes
<1>5. chunk # <<>>
  <2>1. Len(<<>>) = 0
    OBVIOUS
  <2>2. QED
    BY <1>2, <2>1
<1>6. ASSUME pc = "body" PROVE stream' = <<>>
  <2>1. Len(stream') = 0
    BY <1>1, <1>2, <1>3, <1>4, <1>6
  <2>2. QED
    BY <1>2, <1>3, <2>1, EmptySeq
<1>7. QED
  BY <1>2, <1>3, <1>4, <1>5, <1>6

(* A request that has been understood. *)
LEMMA UnderstoodProps ==
  ASSUME NEW r, WellFormed(r), Usual(r), NEW q, Understood(q, r)
  PROVE  /\ Build(q) = Meaning(r).command
         /\ r.name \in PutNames => q.bytes = Len(r.data) /\ q.bytes > 0 /\ q.bytes \in Nat
         /\ r.name \notin PutNames => q.bytes = 0 /\ r.data = <<>> /\ Rest(r) = <<>>
<1>1. ASSUME r.name \in PutNames PROVE Len(r.data) > 0 /\ Len(r.data) \in Nat
  <2>1. r.data \in Seq(Char) /\ r.data # <<>>
    BY <1>1 DEF WellFormed, Usual
  <2>2. \A u \in Seq(Char) : u # <<>> => Len(u) > 0 /\ Len(u) \in Nat
    BY EmptySeq, LenProperties
  <2>3. QED
    BY <2>1, <2>2, Zenon
<1>2. r.name \notin PutNames => r.data = <<>> /\ Rest(r) = <<>>
  BY DEF WellFormed, Rest
<1>3. Build(q) = Meaning(r).command /\ q.bytes = (IF r.name \in PutNames THEN Len(r.data) ELSE 0)
  BY DEF Understood
<1>4. QED
  BY <1>1, <1>2, <1>3

(* SocketRead: a part of the first line of r, or the end of it. *)
LEMMA SocketLine ==
  ASSUME ITypeOK, NEW r, WellFormed(r), Usual(r), InLine(r), SocketRead, unusual' = {}
  PROVE  Moves(r)
<1>0. Socket /\ server # "uv" /\ command = <<>> /\ parser \in ParserFields /\ body = <<>> /\ state = "sRecvHeader"
  BY DEF SocketRead, Socket, InLine, ITypeOK
<1>a. PICK chunk \in Chunks : \E str \in AsString(chunk, <<>>) : Takes(chunk) /\ SocketParse(chunk, str)
  BY DEF SocketRead
<1>1. PICK str \in AsString(chunk, <<>>) : Takes(chunk) /\ SocketParse(chunk, str)
  BY <1>a
<1>2. /\ chunk \in Seq(Char) /\ stream' \in Seq(Char) /\ stream = Cat(chunk, stream')
      /\ Len(chunk) # BufSize
  BY <1>0, <1>1, TakesNothingUnusual
<1>3. str = chunk
  <2>1. <<>> \in Seq(Char)
    OBVIOUS
  <2>2. QED
    BY <1>2, <2>1, StringProps
<1> DEFINE text == command \o str
           part == SubSeq(text, 1, Len(chunk))
           res == Parse(parser, chunk)
           q == res.parser
<1>4. text = chunk /\ part = chunk
  <2>1. text = chunk
    BY <1>0, <1>2, <1>3, Concat
  <2> HIDE DEF text
  <2>2. part = chunk
    BY <1>2, <2>1
  <2>3. QED
    BY <2>1, <2>2
<1>5. \/ q.thrown /\ Reject
      \/ /\ ~q.thrown /\ ~q.parse_complete
         /\ parser' = q /\ command' = Drop(chunk, res.parsed)
         /\ UNCHANGED <<pc, buf, cmd, body_size, rejected>>
      \/ q.parse_complete /\ ~CanBuild(q) /\ Crash
      \/ /\ q.parse_complete /\ CanBuild(q)
         /\ cmd' = Build(q) /\ body_size' = q.bytes /\ parser' = Reset(q)
         /\ command' = Drop(chunk, res.parsed) /\ buf' = str
         /\ pc' = IF q.bytes > 0 THEN "body" ELSE "execute"
         /\ UNCHANGED rejected
  BY <1>1, <1>4 DEF SocketParse
<1>6. PICK p, h : Fresh(p) /\ h \in Seq(Char) /\ parser = Parse(p, h).parser /\ Cat(Cat(h, Unread), stream) = Encode(r)
  BY DEF InLine
<1>7. Cat(Cat(h, chunk), stream') = Encode(r)
  <2>1. Unread = <<>> /\ <<>> \in Seq(Char)
    BY <1>0 DEF Unread
  <2>2. Cat(h, Unread) = h
    BY <1>6, <2>1, CatProps
  <2>3. Cat(h, Cat(chunk, stream')) = Encode(r)
    BY <1>2, <1>6, <2>2, Zenon
  <2>4. QED
    BY <1>2, <1>6, <2>3, CatAssoc
<1>8. ~Done(parser)
  BY DEF InLine
<1>9. /\ ~Done(q) => res.parsed = Len(chunk) /\ q = Parse(p, Cat(h, chunk)).parser /\ stream' # <<>>
      /\ Done(q) => Verdict(q, Cat(Drop(chunk, res.parsed), stream'), r)
  <2>1. res = Parse(parser, chunk)
    OBVIOUS
  <2> HIDE DEF res
  <2>2. /\ ~Done(res.parser) => res.parsed = Len(chunk) /\ res.parser = Parse(p, Cat(h, chunk)).parser /\ stream' # <<>>
        /\ Done(res.parser) => Verdict(res.parser, Cat(Drop(chunk, res.parsed), stream'), r)
    BY <1>2, <1>6, <1>7, <1>8, <2>1, NextOfLine
  <2>3. QED
    BY <2>2
<1>10. q \in ParserFields /\ res.parsed \in 0..Len(chunk)
  BY <1>0, <1>2, OutcomeProps
<1>11. Drop(chunk, res.parsed) \in Seq(Char)
  BY <1>2, <1>10, DropProps
<1> HIDE DEF res, q
<1>12. UNCHANGED <<server, sent, parsed, state, body, executed>> /\ pc = "read"
  BY DEF SocketRead
<1>13. CASE q.thrown /\ Reject
  <2>1. Verdict(q, Cat(Drop(chunk, res.parsed), stream'), r)
    BY <1>9, <1>13 DEF Done
  <2>2. ~Supported(r)
    BY <1>13, <2>1 DEF Verdict, Understood
  <2>3. QED
    BY <1>13, <2>2 DEF Moves, Reject
<1>14. CASE /\ ~q.thrown /\ ~q.parse_complete
            /\ parser' = q /\ command' = Drop(chunk, res.parsed)
            /\ UNCHANGED <<pc, buf, cmd, body_size, rejected>>
  <2>1. ~Done(q)
    BY <1>14 DEF Done
  <2>2. command' = <<>>
    BY <1>2, <1>9, <1>14, <2>1, DropAll
  <2>3. Unread' = <<>> /\ <<>> \in Seq(Char)
    BY <1>0, <1>12, <2>2 DEF Unread
  <2>4. Cat(h, chunk) \in Seq(Char)
    BY <1>2, <1>6, CatProps
  <2>5. Cat(Cat(h, chunk), Unread') = Cat(h, chunk)
    BY <2>3, <2>4, CatProps
  <2>6. Cat(Cat(Cat(h, chunk), Unread'), stream') = Encode(r)
    BY <1>7, <2>5, Zenon
  <2>7. InLine(r)'
    <3>1. \E u, v : Fresh(u) /\ v \in Seq(Char) /\ parser' = Parse(u, v).parser /\ Cat(Cat(v, Unread'), stream') = Encode(r)
      BY <1>6, <1>9, <1>14, <2>1, <2>4, <2>6, Zenon
    <3>2. /\ pc' = "read" /\ state' = "sRecvHeader" /\ body' = <<>> /\ ~Done(parser') /\ server' # "uv"
      BY <1>0, <1>12, <1>14, <2>1
    <3>3. QED
      BY <2>2, <3>1, <3>2 DEF InLine
  <2>8. QED
    BY <1>14, <2>7 DEF Moves, Stage
<1>15. CASE q.parse_complete /\ ~CanBuild(q) /\ Crash
  BY <1>15 DEF Moves, Crash
<1>16. CASE /\ q.parse_complete /\ CanBuild(q)
            /\ cmd' = Build(q) /\ body_size' = q.bytes /\ parser' = Reset(q)
            /\ command' = Drop(chunk, res.parsed) /\ buf' = str
            /\ pc' = IF q.bytes > 0 THEN "body" ELSE "execute"
            /\ UNCHANGED rejected
  <2>1. Understood(q, r) /\ Cat(command', stream') = Rest(r) /\ command' \in Seq(Char)
    BY <1>9, <1>11, <1>16 DEF Done, Verdict
  <2>2. /\ Build(q) = Meaning(r).command
        /\ r.name \in PutNames => q.bytes = Len(r.data) /\ q.bytes > 0
        /\ r.name \notin PutNames => q.bytes = 0 /\ r.data = <<>> /\ Rest(r) = <<>>
    BY <2>1, UnderstoodProps
  <2>3. CASE r.name \in PutNames
    <3>1. <<>> \in Seq(Char) /\ Cat(Rest(r), <<>>) = Rest(r)
      BY EncodeParts, CatProps
    <3>2. \E junk \in Seq(Char) : Cat(command', stream') = Cat(Rest(r), junk) /\ (stream' # <<>> => junk = <<>>)
      BY <2>1, <3>1, Zenon
    <3>3. pc' = "body" /\ cmd' = Meaning(r).command /\ body_size' = Len(r.data)
      BY <1>16, <2>2, <2>3
    <3>4. Socket' /\ state' = "sRecvHeader"
      BY <1>0, <1>12 DEF Socket
    <3>5. InBody(r)'
      BY <2>3, <3>2, <3>3, <3>4 DEF InBody
    <3>6. QED
      BY <1>16, <3>5 DEF Moves, Stage
  <2>4. CASE r.name \notin PutNames
    <3>a. q.bytes = 0 /\ r.data = <<>> /\ Rest(r) = <<>>
      BY <2>2, <2>4, Zenon
    <3>1. stream' = <<>>
      <4>1. Cat(command', stream') = <<>>
        BY <2>1, <3>a, Zenon
      <4>2. QED
        BY <1>2, <2>1, <4>1, CatProps, Zenon
    <3>2. pc' = "execute" /\ cmd' = Meaning(r).command /\ body' = r.data
      <4>1. pc' = "execute"
        BY <1>16, <3>a
      <4>2. QED
        BY <1>0, <1>12, <1>16, <2>2, <3>a, <4>1, Zenon
    <3>3. Ready(r)'
      BY <1>0, <1>12, <3>1, <3>2 DEF Ready
    <3>4. QED
      BY <1>16, <3>3 DEF Moves, Stage
  <2>5. QED
    BY <2>3, <2>4
<1>17. QED
  BY <1>5, <1>13, <1>14, <1>15, <1>16

(* The length of what follows the first line. *)
LEMMA RestLength ==
  ASSUME NEW r, WellFormed(r), r.name \in PutNames
  PROVE  /\ Rest(r) = Cat(r.data, <<CR, LF>>) /\ Rest(r) \in Seq(Char) /\ r.data \in Seq(Char)
         /\ Len(Rest(r)) = Len(r.data) + 2 /\ Len(r.data) \in Nat /\ <<CR, LF>> \in Seq(Char)
<1>1. r.data \in Seq(Char)
  BY DEF WellFormed
<1>2. Rest(r) = Cat(r.data, <<CR, LF>>)
  BY DEF Rest, Cat
<1>3. <<CR, LF>> \in Seq(Char) /\ Len(<<CR, LF>>) = 2
  BY CharAssumption
<1>4. Rest(r) \in Seq(Char) /\ Len(Rest(r)) = Len(r.data) + 2
  <2> DEFINE e == <<CR, LF>>
  <2>1. e \in Seq(Char) /\ Len(e) = 2 /\ Rest(r) = Cat(r.data, e)
    BY <1>2, <1>3
  <2> HIDE DEF e
  <2>2. Cat(r.data, e) \in Seq(Char) /\ Len(Cat(r.data, e)) = Len(r.data) + Len(e)
    BY <1>1, <2>1, CatProps, Zenon
  <2>3. QED
    BY <2>1, <2>2, Zenon
<1>5. Len(r.data) \in Nat
  BY <1>1, LenProperties
<1>6. QED
  BY <1>1, <1>2, <1>3, <1>4, <1>5, Zenon

(* The data of r: as long as some of it is to come, all of what is in the    *)
(* socket is read.                                                           *)
LEMMA SocketData ==
  ASSUME ITypeOK, NEW r, WellFormed(r), InBody(r), SocketBody, unusual' = {}
  PROVE  Moves(r)
<1>1. PICK chunk \in Chunks : \E str \in AsString(chunk, buf) : Takes(chunk) /\ buf' = str /\ command' = command \o str
  BY DEF SocketBody
<1>2. PICK str \in AsString(chunk, buf) : Takes(chunk) /\ buf' = str /\ command' = command \o str
  BY <1>1
<1>3. stream \in Seq(Char) /\ command \in Seq(Char) /\ buf \in Seq(Char) /\ Socket /\ pc = "body"
  BY DEF ITypeOK, SocketBody
<1>4. /\ chunk \in Seq(Char) /\ chunk # <<>> /\ stream' = <<>> /\ stream' \in Seq(Char)
      /\ stream = Cat(chunk, stream') /\ Len(chunk) # BufSize
  BY <1>2, <1>3, TakesNothingUnusual
<1>5. stream = chunk
  BY <1>4, CatProps
<1>6. PICK junk \in Seq(Char) : str = Cat(chunk, junk)
  BY <1>3, <1>4, <1>2, StringProps
<1>7. Rest(r) \in Seq(Char)
  BY EncodeParts
<1>8. Cat(command, chunk) = Rest(r)
  <2>1. PICK j \in Seq(Char) : Cat(command, stream) = Cat(Rest(r), j) /\ (stream # <<>> => j = <<>>)
    BY DEF InBody
  <2>2. j = <<>>
    BY <1>4, <1>5, <2>1
  <2>3. QED
    BY <1>5, <1>7, <2>1, <2>2, CatProps
<1>9. Cat(command', stream') = Cat(Rest(r), junk)
  <2>1. command' = Cat(command, Cat(chunk, junk))
    BY <1>2, <1>6, Zenon DEF Cat
  <2>2. Cat(command, Cat(chunk, junk)) = Cat(Cat(command, chunk), junk)
    BY <1>3, <1>4, <1>6, CatAssoc
  <2>3. Cat(Rest(r), junk) \in Seq(Char)
    BY <1>6, <1>7, CatProps
  <2>4. command' = Cat(Rest(r), junk)
    BY <1>8, <2>1, <2>2
  <2>5. QED
    BY <1>4, <2>3, <2>4, CatProps
<1>10. UNCHANGED <<server, sent, pc, parser, parsed, state, cmd, body_size, body, executed, rejected>>
  BY DEF SocketBody
<1>11. \E j \in Seq(Char) : Cat(command', stream') = Cat(Rest(r), j) /\ (stream' # <<>> => j = <<>>)
  BY <1>4, <1>6, <1>9
<1>12. Socket' /\ pc' = "body" /\ state' = "sRecvHeader" /\ cmd' = Meaning(r).command /\ body_size' = Len(r.data)
  BY <1>3, <1>10 DEF InBody, Socket
<1>13. InBody(r)'
  BY <1>11, <1>12 DEF InBody
<1>14. QED
  BY <1>10, <1>13 DEF Moves, Stage

(* Once all is there, and nothing more is to come, args is the data. *)
LEMMA SocketDone ==
  ASSUME ITypeOK, NEW r, WellFormed(r), Usual(r), InBody(r)
  PROVE  /\ ~NeedsMore => stream = <<>> /\ body_size <= Len(command) /\ SubSeq(command, 1, body_size) = r.data
         /\ NeedsMore => stream # <<>>
<1>1. stream \in Seq(Char) /\ command \in Seq(Char) /\ Len(stream) \in Nat /\ Len(command) \in Nat
  BY DEF ITypeOK
<1>2. PICK junk \in Seq(Char) : Cat(command, stream) = Cat(Rest(r), junk) /\ (stream # <<>> => junk = <<>>)
  BY DEF InBody
<1> DEFINE n == Len(r.data)
           e == <<CR, LF>>
<1>3. /\ Rest(r) = Cat(r.data, e) /\ Rest(r) \in Seq(Char) /\ r.data \in Seq(Char)
      /\ Len(Rest(r)) = n + 2 /\ n \in Nat /\ e \in Seq(Char)
  BY RestLength DEF InBody
<1>4. body_size = n
  BY DEF InBody
<1>a. n + 2 < 2^Width
  BY DEF Usual
<1> HIDE DEF n, e
<1>5. NeedsMore <=> n + 2 > Len(command)
  <2>1. n + 2 \in Nat /\ 2^Width \in Nat
    BY <1>3, WidthAssumption
  <2>2. (n + 2) % 2^Width = n + 2
    BY <1>a, <2>1, SmallMod
  <2>3. QED
    BY <1>4, <2>2 DEF NeedsMore
<1>6. Len(command) + Len(stream) = n + 2 + Len(junk) /\ Len(junk) \in Nat
  <2>1. Len(Cat(command, stream)) = Len(command) + Len(stream)
    BY <1>1, CatProps
  <2>2. Len(Cat(Rest(r), junk)) = Len(Rest(r)) + Len(junk) /\ Len(junk) \in Nat
    <3>1. Len(junk) \in Nat
      BY <1>2
    <3>2. QED
      BY <1>2, <1>3, <3>1, CatProps, Zenon
  <2>3. QED
    BY <1>2, <1>3, <2>1, <2>2
<1>7. stream = <<>> <=> Len(stream) = 0
  BY <1>1, EmptySeq
<1>8. junk = <<>> => Len(junk) = 0
  OBVIOUS
<1>9. ~NeedsMore => stream = <<>>
  BY <1>1, <1>2, <1>3, <1>5, <1>6, <1>7, <1>8
<1>10. NeedsMore => stream # <<>>
  BY <1>1, <1>3, <1>5, <1>6, <1>7
<1>11. ASSUME stream = <<>> PROVE n <= Len(command) /\ SubSeq(command, 1, n) = r.data
  <2>1. command = Cat(Rest(r), junk)
    BY <1>1, <1>2, <1>11, CatProps
  <2>2. Cat(Cat(r.data, e), junk) = Cat(r.data, Cat(e, junk)) /\ Cat(e, junk) \in Seq(Char)
    <3> DEFINE d == r.data
    <3>1. d \in Seq(Char)
      BY <1>3
    <3> HIDE DEF d
    <3>2. Cat(Cat(d, e), junk) = Cat(d, Cat(e, junk))
      BY <1>2, <1>3, <3>1, CatAssoc
    <3>3. Cat(e, junk) \in Seq(Char)
      BY <1>2, <1>3, CatProps
    <3>4. QED
      BY <3>2, <3>3 DEF d
  <2>3. command = Cat(r.data, Cat(e, junk))
    BY <1>3, <2>1, <2>2, Zenon
  <2>4. SubSeq(command, 1, n) = r.data
    BY <1>3, <2>2, <2>3, CatSides DEF n
  <2>5. n <= Len(command)
    BY <1>1, <1>3, <1>6, <1>7, <1>11
  <2>6. QED
    BY <2>4, <2>5
<1>12. QED
  BY <1>4, <1>9, <1>10, <1>11

(* SocketArgs: the data of r is complete, and r is to be executed. *)
LEMMA SocketArgument ==
  ASSUME ITypeOK, NEW r, WellFormed(r), Usual(r), InBody(r), SocketArgs
  PROVE  Moves(r)
<1>1. stream = <<>> /\ body_size <= Len(command) /\ SubSeq(command, 1, body_size) = r.data
  BY SocketDone DEF SocketArgs
<1>2. body' = r.data /\ pc' = "execute" /\ UNCHANGED <<server, stream, cmd, rejected>> /\ server # "uv"
  BY <1>1 DEF SocketArgs, Socket
<1>3. Ready(r)'
  BY <1>1, <1>2 DEF Ready, InBody
<1>4. QED
  BY <1>2, <1>3 DEF Moves, Stage


(* UVRead puts what it reads behind what is left in the buffer. *)
LEMMA UVReadProps ==
  ASSUME ITypeOK, UVRead, unusual' = {}
  PROVE  /\ Unread \in Seq(Char) /\ stream \in Seq(Char) /\ Unread' \in Seq(Char) /\ stream' \in Seq(Char)
         /\ Cat(Unread', stream') = Cat(Unread, stream) /\ stream # <<>>
<1>1. PICK chunk \in Chunks : Takes(chunk) /\ command' = Drop(command, parsed) \o chunk
  BY DEF UVRead
<1>2. /\ chunk \in Seq(Char) /\ chunk # <<>> /\ stream' \in Seq(Char) /\ stream = Cat(chunk, stream')
  BY <1>1, TakesNothingUnusual
<1>3. Unread \in Seq(Char) /\ stream \in Seq(Char)
  BY UnreadType
<1>4. command' = Cat(Unread, chunk)
  BY <1>1 DEF UVRead, Unread, Cat
<1>5. command' \in Seq(Char)
  BY <1>2, <1>3, <1>4, CatProps
<1>6. Unread' = command'
  <2>1. Unread' = Drop(command', 0)
    BY DEF UVRead, Unread
  <2>2. QED
    BY <1>5, <2>1, DropAll
<1>7. Cat(Unread', stream') = Cat(Unread, stream)
  <2>1. Cat(Cat(Unread, chunk), stream') = Cat(Unread, Cat(chunk, stream'))
    BY <1>2, <1>3, CatAssoc
  <2>2. QED
    BY <1>2, <1>4, <1>6, <2>1, Zenon
<1>8. stream # <<>>
  BY <1>2, CatProps
<1>9. QED
  BY <1>2, <1>3, <1>5, <1>6, <1>7, <1>8


(* UVRead: more of the first line, or of the data. *)
LEMMA UVReads ==
  ASSUME ITypeOK, NEW r, InLine(r) \/ InData(r), UVRead, unusual' = {}
  PROVE  Moves(r)
<1>1. /\ Unread \in Seq(Char) /\ stream \in Seq(Char) /\ Unread' \in Seq(Char) /\ stream' \in Seq(Char)
      /\ Cat(Unread', stream') = Cat(Unread, stream)
  BY UVReadProps
<1>2. /\ server' = "uv" /\ pc' = "loop" /\ parsed' = 0 /\ rejected' = rejected
      /\ UNCHANGED <<parser, state, cmd, body_size, body>>
  BY DEF UVRead
<1>3. CASE InLine(r)
  <2>1. PICK p, h : Fresh(p) /\ h \in Seq(Char) /\ parser = Parse(p, h).parser /\ Cat(Cat(h, Unread), stream) = Encode(r)
    BY <1>3 DEF InLine
  <2>2. Cat(Cat(h, Unread'), stream') = Cat(h, Cat(Unread', stream'))
    BY <1>1, <2>1, CatAssoc
  <2>3. Cat(Cat(h, Unread), stream) = Cat(h, Cat(Unread, stream))
    BY <1>1, <2>1, CatAssoc
  <2>4. Cat(Cat(h, Unread'), stream') = Encode(r)
    BY <1>1, <2>1, <2>2, <2>3, Zenon
  <2>5. \E u, v : Fresh(u) /\ v \in Seq(Char) /\ parser' = Parse(u, v).parser /\ Cat(Cat(v, Unread'), stream') = Encode(r)
    BY <1>2, <2>1, <2>4, Zenon
  <2>6. state' = "sRecvHeader" /\ body' = <<>> /\ ~Done(parser')
    BY <1>2, <1>3 DEF InLine
  <2>7. InLine(r)'
    BY <1>2, <2>5, <2>6 DEF InLine
  <2>8. QED
    BY <1>2, <2>7 DEF Moves, Stage
<1>4. CASE InData(r)
  <2>1. InData(r)'
    BY <1>1, <1>2, <1>4 DEF InData
  <2>2. QED
    BY <1>2, <2>1 DEF Moves, Stage
<1>5. QED
  BY <1>3, <1>4

(* UVHeader: a part of the first line of r, or the end of it. *)
LEMMA UVLine ==
  ASSUME ITypeOK, NEW r, WellFormed(r), Usual(r), InLine(r), UVHeader
  PROVE  Moves(r)
<1>0. /\ server = "uv" /\ pc = "loop" /\ parser \in ParserFields /\ command \in Seq(Char) /\ body = <<>>
      /\ stream \in Seq(Char) /\ Len(command) \in Nat /\ parsed < Len(command)
  <2>1. server = "uv" /\ pc = "loop" /\ parsed < Len(command)
    BY DEF UVHeader, InLoop
  <2>2. parser \in ParserFields /\ command \in Seq(Char) /\ stream \in Seq(Char)
    BY DEF ITypeOK
  <2>3. body = <<>>
    BY DEF InLine
  <2>4. Len(command) \in Nat
    BY <2>2
  <2>5. QED
    BY <2>1, <2>2, <2>3, <2>4
<1>1. parsed = 0 /\ Unread = command
  <2>1. parsed = 0
    BY <1>0 DEF InLine
  <2>2. QED
    BY <1>0, <2>1, DropAll DEF Unread
<1> DEFINE res == Parse(parser, command)
           q == res.parser
<1>2. \/ (q.thrown \/ (q.parse_complete /\ ~CanBuild(q))) /\ Reject /\ UNCHANGED <<parsed, state>>
      \/ /\ ~q.thrown /\ ~q.parse_complete
         /\ parser' = q /\ parsed' = res.parsed
         /\ UNCHANGED <<pc, command, buf, state, cmd, body_size, rejected>>
      \/ /\ q.parse_complete /\ CanBuild(q)
         /\ parser' = q /\ parsed' = res.parsed
         /\ cmd' = Build(q) /\ body_size' = q.bytes
         /\ IF q.bytes > 0 THEN state' = "sRecvBody" /\ UNCHANGED pc
                           ELSE state' = "sExecute" /\ pc' = "execute"
         /\ UNCHANGED <<command, buf, rejected>>
  BY DEF UVHeader
<1>3. PICK p, h : Fresh(p) /\ h \in Seq(Char) /\ parser = Parse(p, h).parser /\ Cat(Cat(h, command), stream) = Encode(r)
  BY <1>1 DEF InLine
<1>4. ~Done(parser)
  BY DEF InLine
<1>5. /\ ~Done(q) => res.parsed = Len(command) /\ q = Parse(p, Cat(h, command)).parser /\ stream # <<>>
      /\ Done(q) => Verdict(q, Cat(Drop(command, res.parsed), stream), r)
  <2>1. res = Parse(parser, command)
    OBVIOUS
  <2> HIDE DEF res
  <2>2. /\ ~Done(res.parser) => res.parsed = Len(command) /\ res.parser = Parse(p, Cat(h, command)).parser /\ stream # <<>>
        /\ Done(res.parser) => Verdict(res.parser, Cat(Drop(command, res.parsed), stream), r)
    BY <1>0, <1>3, <1>4, <2>1, NextOfLine
  <2>3. QED
    BY <2>2
<1>6. q \in ParserFields /\ res.parsed \in 0..Len(command)
  BY <1>0, OutcomeProps
<1>7. Drop(command, res.parsed) \in Seq(Char) /\ Len(Drop(command, res.parsed)) = Len(command) - res.parsed
  BY <1>0, <1>6, DropProps
<1> HIDE DEF res, q
<1>8. UNCHANGED <<server, sent, stream, body, executed, unusual>>
  BY DEF UVHeader
<1>9. CASE (q.thrown \/ (q.parse_complete /\ ~CanBuild(q))) /\ Reject /\ UNCHANGED <<parsed, state>>
  <2>1. Verdict(q, Cat(Drop(command, res.parsed), stream), r)
    BY <1>5, <1>9 DEF Done
  <2>2. ~Supported(r)
    BY <1>9, <2>1 DEF Verdict, Understood, CanBuild, Supported
  <2>3. QED
    BY <1>9, <2>2 DEF Moves, Reject
<1>10. CASE /\ ~q.thrown /\ ~q.parse_complete
            /\ parser' = q /\ parsed' = res.parsed
            /\ UNCHANGED <<pc, command, buf, state, cmd, body_size, rejected>>
  <2>1. ~Done(q)
    BY <1>10 DEF Done
  <2>2. parsed' = Len(command') /\ Unread' = Drop(command, Len(command))
    BY <1>0, <1>5, <1>8, <1>10, <2>1 DEF Unread
  <2>3. Unread' = <<>> /\ <<>> \in Seq(Char)
    BY <1>0, <2>2, DropAll
  <2>4. Cat(h, command) \in Seq(Char)
    BY <1>0, <1>3, CatProps
  <2>5. Cat(Cat(h, command), Unread') = Cat(h, command)
    BY <2>3, <2>4, CatProps
  <2>6. Cat(Cat(Cat(h, command), Unread'), stream') = Encode(r)
    BY <1>3, <1>8, <2>5, Zenon
  <2>7. InLine(r)'
    <3>1. \E u, v : Fresh(u) /\ v \in Seq(Char) /\ parser' = Parse(u, v).parser /\ Cat(Cat(v, Unread'), stream') = Encode(r)
      BY <1>3, <1>5, <1>10, <2>1, <2>4, <2>6, Zenon
    <3>2. /\ pc' = "loop" /\ state' = "sRecvHeader" /\ body' = <<>> /\ ~Done(parser') /\ server' = "uv"
      BY <1>0, <1>8, <1>10, <2>1 DEF InLine
    <3>3. QED
      BY <2>2, <3>1, <3>2 DEF InLine
  <2>8. QED
    BY <1>10, <2>7 DEF Moves, Stage
<1>11. CASE /\ q.parse_complete /\ CanBuild(q)
            /\ parser' = q /\ parsed' = res.parsed
            /\ cmd' = Build(q) /\ body_size' = q.bytes
            /\ IF q.bytes > 0 THEN state' = "sRecvBody" /\ UNCHANGED pc
                              ELSE state' = "sExecute" /\ pc' = "execute"
            /\ UNCHANGED <<command, buf, rejected>>
  <2>1. Understood(q, r) /\ Cat(Drop(command, res.parsed), stream) = Rest(r)
    BY <1>5, <1>11 DEF Done, Verdict
  <2>2. Unread' = Drop(command, res.parsed)
    BY <1>0, <1>8, <1>11 DEF Unread
  <2>3. /\ Build(q) = Meaning(r).command
        /\ r.name \in PutNames => q.bytes = Len(r.data) /\ q.bytes > 0 /\ q.bytes \in Nat
        /\ r.name \notin PutNames => q.bytes = 0 /\ r.data = <<>> /\ Rest(r) = <<>>
    BY <2>1, UnderstoodProps
  <2>4. CASE r.name \in PutNames
    <3>1. Cat(body', Cat(Unread', stream')) = Rest(r)
      <4>1. Cat(Unread', stream') = Rest(r) /\ Rest(r) \in Seq(Char) /\ body' = <<>>
        BY <1>0, <1>8, <2>1, <2>2, EncodeParts
      <4>2. QED
        BY <4>1, CatProps
    <3>2. /\ pc' = "loop" /\ state' = "sRecvBody" /\ cmd' = Meaning(r).command /\ body_size' > 0
          /\ server' = "uv"
      BY <1>0, <1>8, <1>11, <2>3, <2>4
    <3>3. Len(body') + body_size' = Len(r.data)
      <4>1. Len(body') = 0 /\ body_size' = Len(r.data) /\ body_size' \in Nat
        BY <1>0, <1>8, <1>11, <2>3, <2>4
      <4>2. QED
        BY <4>1
    <3>4. InData(r)'
      BY <2>4, <3>1, <3>2, <3>3 DEF InData
    <3>5. QED
      BY <1>11, <3>4 DEF Moves, Stage
  <2>5. CASE r.name \notin PutNames
    <3>a. q.bytes = 0 /\ r.data = <<>> /\ Rest(r) = <<>>
      BY <2>3, <2>5, Zenon
    <3>1. stream = <<>> /\ Drop(command, res.parsed) = <<>>
      <4>1. Cat(Drop(command, res.parsed), stream) = <<>>
        BY <2>1, <3>a, Zenon
      <4>2. QED
        BY <1>0, <1>7, <4>1, CatProps, Zenon
    <3>2. parsed' = Len(command')
      <4>1. Len(command) - res.parsed = 0
        <5>1. Len(<<>>) = 0
          OBVIOUS
        <5>2. QED
          BY <1>7, <3>1, <5>1
      <4>2. QED
        BY <1>0, <1>6, <1>11, <4>1
    <3>3. pc' = "execute" /\ cmd' = Meaning(r).command /\ body' = r.data
      <4>1. pc' = "execute"
        BY <1>11, <3>a
      <4>2. body' = <<>>
        BY <1>0, <1>8
      <4>3. QED
        BY <1>11, <2>3, <3>a, <4>1, <4>2, Zenon
    <3>4. Ready(r)'
      BY <1>8, <3>1, <3>2, <3>3 DEF Ready
    <3>5. QED
      BY <1>11, <3>4 DEF Moves, Stage
  <2>6. QED
    BY <2>4, <2>5
<1>12. QED
  BY <1>2, <1>9, <1>10, <1>11


(* UVBody: a piece of the data of r, perhaps the last. *)
LEMMA UVData ==
  ASSUME ITypeOK, NEW r, WellFormed(r), InData(r), UVBody
  PROVE  Moves(r)
<1>0. /\ server = "uv" /\ pc = "loop" /\ state = "sRecvBody" /\ stream \in Seq(Char) /\ body \in Seq(Char)
      /\ command \in Seq(Char) /\ parsed \in Nat /\ body_size \in Nat
  BY WidthAssumption DEF UVBody, InLoop, ITypeOK, Unsigned
<1>1. PICK n \in Nat :
           /\ parsed + n \in 0..Len(command) /\ n <= body_size
           /\ body' = body \o SubSeq(command, parsed + 1, parsed + n)
           /\ body_size' = body_size - n /\ parsed' = parsed + n
  BY ForCopy
<1> DEFINE piece == SubSeq(command, parsed + 1, parsed + n)
<1>2. /\ UNCHANGED <<server, stream, pc, command, cmd, rejected>>
      /\ state' = IF body_size' = 0 THEN "sRecvTrailerCR" ELSE "sRecvBody"
  BY <1>0 DEF UVBody
<1>3. Unread' = Drop(command, parsed + n) /\ Unread = Drop(command, parsed)
  BY <1>0, <1>1, <1>2 DEF Unread
<1>4. piece \in Seq(Char) /\ Len(piece) = n /\ Unread' \in Seq(Char) /\ Unread = Cat(piece, Unread')
  BY <1>0, <1>1, <1>3, DropPiece
<1>5. body' = Cat(body, piece)
  BY <1>1 DEF Cat
<1> HIDE DEF piece
<1>6. /\ r.name \in PutNames /\ cmd = Meaning(r).command /\ Cat(body, Cat(Unread, stream)) = Rest(r)
      /\ Len(body) + body_size = Len(r.data)
  BY <1>0 DEF InData
<1>7. body' \in Seq(Char) /\ Len(body') = Len(body) + n
  BY <1>0, <1>4, <1>5, CatProps, Zenon
<1>8. Cat(body', Cat(Unread', stream)) = Rest(r)
  <2>1. Cat(Unread', stream) \in Seq(Char)
    BY <1>0, <1>4, CatProps
  <2>2. Cat(Cat(body, piece), Cat(Unread', stream)) = Cat(body, Cat(piece, Cat(Unread', stream)))
    BY <1>0, <1>4, <2>1, CatAssoc
  <2>3. Cat(piece, Cat(Unread', stream)) = Cat(Cat(piece, Unread'), stream)
    BY <1>0, <1>4, CatAssoc
  <2>4. QED
    BY <1>4, <1>5, <1>6, <2>2, <2>3, Zenon
<1>9. Len(body) \in Nat /\ Len(body') + body_size' = Len(r.data) /\ body_size' \in Nat
  <2>1. Len(body) \in Nat
    BY <1>0
  <2>2. \A a, b, m \in Nat : m <= b => (a + m) + (b - m) = a + b /\ b - m \in Nat
    OBVIOUS
  <2>3. (Len(body) + n) + (body_size - n) = Len(body) + body_size /\ body_size - n \in Nat
    BY <1>0, <1>1, <2>1, <2>2, Zenon
  <2>4. QED
    BY <1>1, <1>6, <1>7, <2>1, <2>3, Zenon
<1>10. server' = "uv" /\ pc' = "loop" /\ cmd' = Meaning(r).command /\ stream' = stream
  BY <1>0, <1>2, <1>6
<1>11. CASE body_size' # 0
  <2>1. body_size' > 0 /\ state' = "sRecvBody"
    BY <1>2, <1>9, <1>11
  <2>2. InData(r)'
    BY <1>6, <1>8, <1>9, <1>10, <2>1 DEF InData
  <2>3. QED
    BY <1>2, <2>2 DEF Moves, Stage
<1>12. CASE body_size' = 0
  <2> DEFINE d == r.data
             e == <<CR, LF>>
             v == Cat(Unread', stream)
  <2>1. Rest(r) = Cat(d, e) /\ d \in Seq(Char) /\ e \in Seq(Char)
    BY <1>6, RestLength
  <2>2. Len(body') = Len(d)
    <3>1. Len(body') \in Nat
      BY <1>7
    <3>2. QED
      BY <1>9, <1>12, <3>1
  <2>3. v \in Seq(Char) /\ Cat(body', v) = Cat(d, e)
    BY <1>0, <1>4, <1>8, <2>1, CatProps, Zenon
  <2> HIDE DEF d, e, v
  <2>4. v = e
    BY <1>7, <2>1, <2>2, <2>3, CatSame
  <2>5. body' = d
    <3>1. SubSeq(Cat(body', v), 1, Len(body')) = body' /\ SubSeq(Cat(d, e), 1, Len(d)) = d
      BY <1>7, <2>1, <2>3, CatSides
    <3>2. QED
      BY <2>2, <2>3, <3>1, Zenon
  <2>6. Cat(Unread', stream') = <<CR, LF>> /\ body' = r.data /\ state' = "sRecvTrailerCR"
    BY <1>2, <1>10, <1>12, <2>4, <2>5 DEF d, e, v
  <2>7. InData(r)'
    BY <1>6, <1>10, <2>6 DEF InData
  <2>8. QED
    BY <1>2, <2>7 DEF Moves, Stage
<1>13. QED
  BY <1>11, <1>12

(* The next character of the buffer, when what is not yet read begins with d. *)
LEMMA NextChar ==
  ASSUME ITypeOK, server = "uv", parsed < Len(command), NEW d \in Char, NEW v \in Seq(Char),
         Cat(Unread, stream) = Cat(<<d>>, v)
  PROVE  /\ command[parsed + 1] = d /\ parsed + 1 \in 0..Len(command)
         /\ Drop(command, parsed + 1) \in Seq(Char)
         /\ Cat(Drop(command, parsed + 1), stream) = v
<1>1. command \in Seq(Char) /\ parsed \in Nat /\ Len(command) \in Nat /\ stream \in Seq(Char)
  BY DEF ITypeOK
<1>2. parsed + 1 \in 0..Len(command) /\ command[parsed + 1] \in Char /\ 1 \in Nat
  BY <1>1
<1> DEFINE u == Drop(command, parsed + 1)
           c == command[parsed + 1]
<1>3. /\ SubSeq(command, parsed + 1, parsed + 1) \in Seq(Char) /\ u \in Seq(Char)
      /\ Drop(command, parsed) = Cat(SubSeq(command, parsed + 1, parsed + 1), u)
  BY <1>1, <1>2, DropPiece
<1>4. SubSeq(command, parsed + 1, parsed + 1) = <<c>>
  <2> DEFINE a == SubSeq(command, parsed + 1, parsed + 1)
             b == <<c>>
  <2>1. a \in Seq(Char) /\ Len(a) = 1
    BY <1>1, <1>2, DropPiece
  <2>2. a[1] = c
    BY <1>1, <1>2
  <2>3. b \in Seq(Char) /\ Len(b) = 1 /\ b[1] = c
    BY <1>2
  <2> HIDE DEF a, b
  <2>4. a = b
    BY <2>1, <2>2, <2>3, SeqEqual
  <2>5. QED
    BY <2>4 DEF a, b
<1>5. Unread = Cat(<<c>>, u)
  BY <1>3, <1>4 DEF Unread
<1>6. c \in Char
  BY <1>2
<1> HIDE DEF u, c
<1>7. Cat(Cat(<<c>>, u), stream) = Cat(<<d>>, v)
  BY <1>5, Zenon
<1>8. c = d /\ Cat(u, stream) = v
  BY <1>1, <1>3, <1>6, <1>7, FirstChar
<1>9. QED
  BY <1>2, <1>3, <1>8 DEF u, c

(* UVTrailer finds what it expects behind the data. *)
LEMMA UVEnd ==
  ASSUME ITypeOK, NEW r, InData(r), UVTrailer
  PROVE  Moves(r)
<1>0. /\ server = "uv" /\ pc = "loop" /\ parsed < Len(command) /\ state \in {"sRecvTrailerCR", "sRecvTrailerLF"}
      /\ UNCHANGED <<server, sent, stream, body, executed, unusual>> /\ stream \in Seq(Char)
  BY DEF UVTrailer, InLoop, ITypeOK
<1>1. r.name \in PutNames /\ cmd = Meaning(r).command /\ body = r.data
  BY <1>0 DEF InData
<1>2. CR \in Char /\ LF \in Char /\ <<LF>> \in Seq(Char) /\ <<>> \in Seq(Char)
  BY CharAssumption
<1>3. CASE state = "sRecvTrailerCR"
  <2>1. Cat(Unread, stream) = Cat(<<CR>>, <<LF>>)
    <3>1. Cat(Unread, stream) = <<CR, LF>>
      BY <1>3 DEF InData
    <3>2. QED
      BY <3>1, LineBreak, Zenon DEF Cat
  <2>2. command[parsed + 1] = CR /\ Cat(Drop(command, parsed + 1), stream) = <<LF>>
    BY <1>0, <1>2, <2>1, NextChar
  <2>3. state' = "sRecvTrailerLF" /\ parsed' = parsed + 1 /\ UNCHANGED <<pc, command, cmd, rejected>>
    BY <1>3, <2>2 DEF UVTrailer, InLoop
  <2>4. Cat(Unread', stream') = <<LF>>
    BY <1>0, <2>2, <2>3 DEF Unread
  <2>5. InData(r)'
    BY <1>0, <1>1, <2>3, <2>4 DEF InData
  <2>6. QED
    BY <2>3, <2>5 DEF Moves, Stage
<1>4. CASE state = "sRecvTrailerLF"
  <2>1. Cat(Unread, stream) = Cat(<<LF>>, <<>>)
    BY <1>2, <1>4, CatProps DEF InData
  <2>2. /\ command[parsed + 1] = LF /\ Cat(Drop(command, parsed + 1), stream) = <<>>
        /\ parsed + 1 \in 0..Len(command) /\ Drop(command, parsed + 1) \in Seq(Char)
    BY <1>0, <1>2, <2>1, NextChar
  <2>3. state' = "sExecute" /\ pc' = "execute" /\ parsed' = parsed + 1 /\ UNCHANGED <<command, cmd, rejected>>
    BY <1>4, <2>2 DEF UVTrailer, InLoop
  <2>4. stream = <<>> /\ Drop(command, parsed + 1) = <<>>
    BY <1>0, <2>2, CatProps
  <2>5. parsed + 1 = Len(command)
    <3>1. command \in Seq(Char) /\ Len(command) \in Nat
      BY DEF ITypeOK
    <3>2. Len(Drop(command, parsed + 1)) = Len(command) - (parsed + 1)
      BY <2>2, <3>1, DropProps
    <3>3. Len(<<>>) = 0
      OBVIOUS
    <3>4. QED
      BY <2>2, <2>4, <3>1, <3>2, <3>3
  <2>6. Ready(r)'
    BY <1>0, <1>1, <2>3, <2>4, <2>5 DEF Ready
  <2>7. QED
    BY <2>3, <2>6 DEF Moves, Stage
<1>5. QED
  BY <1>0, <1>3, <1>4

(* UVLoopEnds: all that was read has been looked at. *)
LEMMA UVWaits ==
  ASSUME ITypeOK, NEW r, InLine(r) \/ InData(r), UVLoopEnds
  PROVE  Moves(r)
<1>1. /\ server = "uv" /\ pc' = "read" /\ parsed = Len(command)
      /\ UNCHANGED <<server, stream, parser, command, parsed, state, cmd, body_size, body, rejected>>
  BY DEF UVLoopEnds, ITypeOK
<1>2. Unread' = Unread
  BY <1>1 DEF Unread
<1>3. CASE InLine(r)
  <2>1. InLine(r)'
    BY <1>1, <1>2, <1>3 DEF InLine
  <2>2. QED
    BY <1>1, <2>1 DEF Moves, Stage
<1>4. CASE InData(r)
  <2>1. InData(r)'
    BY <1>1, <1>2, <1>4 DEF InData
  <2>2. QED
    BY <1>1, <2>1 DEF Moves, Stage
<1>5. QED
  BY <1>3, <1>4


(* The server's steps with r. *)
LEMMA StageStep ==
  ASSUME ITypeOK, NEW r, WellFormed(r), Usual(r), Stage(r), Server, unusual' = {}
  PROVE  (Execute /\ Ready(r)) \/ (Moves(r) /\ UNCHANGED <<sent, executed>>)
<1>1. CASE SocketRead
  <2>1. InLine(r)
    BY <1>1 DEF SocketRead, Socket, Stage, InBody, InData, Ready
  <2>2. QED
    BY <1>1, <2>1, SocketLine DEF SocketRead
<1>2. CASE SocketBody
  <2>1. InBody(r)
    BY <1>2 DEF SocketBody, Socket, Stage, InLine, InData, Ready
  <2>2. QED
    BY <1>2, <2>1, SocketData DEF SocketBody
<1>3. CASE SocketArgs
  <2>1. InBody(r)
    BY <1>3 DEF SocketArgs, Socket, Stage, InLine, InData, Ready
  <2>2. QED
    BY <1>3, <2>1, SocketArgument DEF SocketArgs
<1>4. CASE UVRead
  <2>1. InLine(r) \/ InData(r)
    BY <1>4 DEF UVRead, Stage, InBody, Ready
  <2>2. QED
    BY <1>4, <2>1, UVReads DEF UVRead
<1>5. CASE UVHeader
  <2>1. InLine(r)
    BY <1>5 DEF UVHeader, InLoop, Stage, InBody, InData, Ready
  <2>2. QED
    BY <1>5, <2>1, UVLine DEF UVHeader
<1>6. CASE UVBody
  <2>1. InData(r)
    BY <1>6 DEF UVBody, InLoop, Stage, InBody, InLine, Ready
  <2>2. QED
    BY <1>6, <2>1, UVData DEF UVBody
<1>7. CASE UVTrailer
  <2>1. InData(r)
    BY <1>7 DEF UVTrailer, InLoop, Stage, InBody, InLine, Ready
  <2>2. QED
    BY <1>7, <2>1, UVEnd DEF UVTrailer
<1>8. CASE UVLoopEnds
  <2>1. InLine(r) \/ InData(r)
    BY <1>8 DEF UVLoopEnds, Stage, InBody, Ready
  <2>2. QED
    BY <1>8, <2>1, UVWaits DEF UVLoopEnds
<1>9. CASE Execute
  BY <1>9 DEF Execute, Stage, InLine, InBody, InData
<1>10. QED
  BY <1>1, <1>2, <1>3, <1>4, <1>5, <1>6, <1>7, <1>8, <1>9 DEF Server

(* A server that waits has nothing to do. *)
LEMMA IdleStep ==
  ASSUME ITypeOK, Waiting, Server
  PROVE  Waiting' /\ UNCHANGED <<sent, executed, rejected>>
<1>1. Chunks = {}
  <2>1. stream \in Seq(Char) /\ Len(stream) = 0
    BY DEF ITypeOK, Waiting
  <2>2. ASSUME NEW chunk \in Chunks PROVE FALSE
    BY <2>1, ChunkProps
  <2>3. QED
    BY <2>2
<1>2. ~SocketRead /\ ~UVRead
  BY <1>1 DEF SocketRead, UVRead
<1>3. ~SocketBody /\ ~SocketArgs /\ ~Execute
  BY DEF Waiting, SocketBody, SocketArgs, Execute
<1>4. server = "uv" => ~(parsed < Len(command))
  BY DEF ITypeOK, Waiting
<1>5. ~UVHeader /\ ~UVBody /\ ~UVTrailer
  BY <1>4 DEF UVHeader, UVBody, UVTrailer, InLoop
<1>6. UVLoopEnds
  BY <1>2, <1>3, <1>5 DEF Server
<1>7. QED
  BY <1>6 DEF UVLoopEnds, Waiting

(* Execute carries out what r means, and the server waits again. *)
LEMMA ExecuteMoves ==
  ASSUME ITypeOK, NEW r, Ready(r), Execute, Len(sent) = Len(executed) + 1
  PROVE  Waiting' /\ executed' = Append(executed, Meaning(r)) /\ UNCHANGED <<sent, rejected>>
<1>1. Meaning(r) = [command |-> cmd, data |-> body]
  BY DEF Ready, Meaning
<1>2. executed' = Append(executed, Meaning(r)) /\ UNCHANGED <<server, sent, stream, parsed, rejected>>
  BY <1>1 DEF Execute
<1>3. Len(executed') = Len(sent')
  <2> DEFINE S == [command : Command, data : Seq(Char)]
             m == Meaning(r)
  <2>1. executed \in Seq(S) /\ cmd \in Command /\ body \in Seq(Char)
    BY DEF ITypeOK
  <2>2. m \in S
    BY <1>1, <2>1
  <2> HIDE DEF S, m
  <2>3. Len(Append(executed, m)) = Len(executed) + 1
    BY <2>1, <2>2
  <2>4. QED
    BY <1>2, <2>3 DEF m
<1>4. parser \in ParserFields /\ parser' = Reset(parser)
  BY DEF ITypeOK, Execute
<1>5. Fresh(parser')
  BY <1>4, ResetProps
<1>6. /\ stream' = <<>> /\ body' = <<>> /\ state' = "sRecvHeader" /\ pc' \in {"read", "loop"}
      /\ server' # "uv" => pc' = "read" /\ command' = <<>>
      /\ server' = "uv" => parsed' = Len(command')
  BY DEF Execute, Ready
<1>7. QED
  BY <1>2, <1>3, <1>5, <1>6 DEF Waiting

(* A request that is sent to a server that waits for it. *)
LEMMA ClientMoves ==
  ASSUME ITypeOK, Waiting, NEW r \in Request, Unusual(r) = {}, stream' = stream \o Encode(r),
         UNCHANGED <<server, pc, parser, command, parsed, state, body>>
  PROVE  Usual(r) /\ InLine(r)'
<1>1. WellFormed(r) /\ Encode(r) \in Seq(Char)
  BY RequestType
<1>2. Usual(r)
  <2>1. r.flags \in Seq(Digit) /\ r.data \in Seq(Char)
    BY <1>1 DEF WellFormed
  <2>2. Decimal(r.flags) \in Nat /\ Len(r.data) + 2 \in Nat
    <3>1. Decimal(r.flags) \in Nat /\ Len(r.data) \in Nat
      BY <2>1, DecimalType, LenProperties
    <3>2. \A x \in Nat : x + 2 \in Nat
      OBVIOUS
    <3>3. QED
      BY <3>1, <3>2, Zenon
  <2>3. ~(Decimal(r.flags) >= 2^Width) /\ ~(Len(r.data) + 2 >= 2^Width)
    BY DEF Unusual
  <2>4. Decimal(r.flags) < 2^Width /\ Len(r.data) + 2 < 2^Width
    <3>1. 2^Width \in Nat
      BY WidthAssumption
    <3>2. \A x, y \in Nat : ~(x >= y) => x < y
      OBVIOUS
    <3>3. QED
      BY <2>2, <2>3, <3>1, <3>2, Zenon
  <2>5. r.name \in PutNames => r.data # <<>>
    BY DEF Unusual
  <2>6. ~ManyDigits(r.exptime)
    BY DEF Unusual, ManyDigits
  <2>7. QED
    BY <2>4, <2>5, <2>6 DEF Usual
<1>3. command \in Seq(Char) /\ <<>> \in Seq(Char)
  BY DEF ITypeOK
<1>4. Unread' = <<>>
  <2>1. CASE server = "uv"
    <3>1. Unread' = Drop(command, Len(command))
      BY <2>1 DEF Unread, Waiting
    <3>2. QED
      BY <1>3, <3>1, DropAll
  <2>2. CASE server # "uv"
    BY <2>2 DEF Unread, Waiting
  <2>3. QED
    BY <2>1, <2>2
<1>5. stream' = Encode(r)
  <2>1. stream' = Cat(<<>>, Encode(r))
    BY DEF Waiting, Cat
  <2>2. QED
    BY <1>1, <2>1, CatProps
<1>6. Cat(Cat(<<>>, Unread'), stream') = Encode(r)
  <2>1. Cat(<<>>, Unread') = <<>>
    BY <1>3, <1>4, CatProps
  <2>2. QED
    BY <1>1, <1>5, <2>1, CatProps
<1>7. Fresh(parser) /\ ~Done(parser) /\ parser = Parse(parser, <<>>).parser
  <2>1. Fresh(parser)
    BY DEF Waiting
  <2>2. ~Done(parser)
    BY <2>1, FreshAt
  <2>3. Parse(parser, <<>>) = [parser |-> parser, parsed |-> 0]
    BY ParseEmpty
  <2>4. QED
    BY <2>1, <2>2, <2>3
<1>8. \E u, v : Fresh(u) /\ v \in Seq(Char) /\ parser' = Parse(u, v).parser /\ Cat(Cat(v, Unread'), stream') = Encode(r)
  BY <1>3, <1>6, <1>7, Zenon
<1>9. QED
  BY <1>2, <1>7, <1>8 DEF InLine, Waiting


(* In the beginning the server waits. *)
LEMMA SoundInit == IInit => Sound
<1> SUFFICES ASSUME IInit PROVE Sound
  OBVIOUS
<1>1. Fresh(NewParser)
  <2>1. /\ NewParser = [x \in DOMAIN NewParser |-> NewParser[x]]
        /\ "negative" \in DOMAIN NewParser /\ NewParser["negative"] = FALSE
    BY DEF NewParser
  <2>2. NewParser = [NewParser EXCEPT !.negative = FALSE]
    BY <2>1
  <2>3. QED
    BY <2>2 DEF Fresh
<1>2. Len(<<>>) = 0
  OBVIOUS
<1>3. Waiting
  BY <1>1, <1>2 DEF IInit, Waiting
<1>4. QED
  BY <1>2, <1>3 DEF IInit, Sound

(* What is unusual stays so. *)
LEMMA UnusualStays == [INext]_ivars => unusual \subseteq unusual'
<1>1. ASSUME NEW chunk, Takes(chunk) PROVE unusual \subseteq unusual'
  BY <1>1 DEF Takes
<1>2. CASE ClientSends
  BY <1>2 DEF ClientSends
<1>3. CASE SocketRead
  BY <1>1, <1>3 DEF SocketRead
<1>4. CASE SocketBody
  BY <1>1, <1>4 DEF SocketBody
<1>5. CASE UVRead
  BY <1>1, <1>5 DEF UVRead
<1>6. CASE SocketAgain \/ SocketArgs \/ UVHeader \/ UVBody \/ UVTrailer \/ UVLoopEnds \/ Execute
  BY <1>6 DEF SocketAgain, SocketArgs, UVHeader, UVBody, UVTrailer, UVLoopEnds, Execute
<1>7. CASE UNCHANGED ivars
  BY <1>7 DEF ivars
<1>8. QED
  BY <1>2, <1>3, <1>4, <1>5, <1>6, <1>7 DEF INext, Server

(* Nothing happens on a connection that is over. *)
LEMMA OverStays ==
  ASSUME pc \in {"closed", "crashed"}
  PROVE  ~INext
<1>1. ~ClientSends /\ ~SocketAgain /\ ~SocketRead /\ ~SocketBody /\ ~SocketArgs
  BY DEF ClientSends, SocketAgain, SocketRead, SocketBody, SocketArgs
<1>2. ~UVRead /\ ~UVHeader /\ ~UVBody /\ ~UVTrailer /\ ~UVLoopEnds /\ ~Execute
  BY DEF UVRead, UVHeader, UVBody, UVTrailer, UVLoopEnds, InLoop, Execute
<1>3. QED
  BY <1>1, <1>2 DEF INext, Server

(* The requests sent are well-formed. *)
LEMMA LastRequest ==
  ASSUME ITypeOK, Len(sent) = Len(executed) + 1
  PROVE  LastSent \in Request /\ WellFormed(LastSent) /\ sent # <<>> /\ LastSent = sent[Len(executed) + 1]
<1>1. sent \in Seq(Request) /\ Len(executed) \in Nat
  BY DEF ITypeOK
<1>2. Len(executed) + 1 \in 1..Len(sent) /\ LastSent = sent[Len(executed) + 1]
  BY <1>1 DEF LastSent
<1>3. LastSent \in Request
  BY <1>1, <1>2
<1>4. sent # <<>>
  <2>1. Len(<<>>) = 0
    OBVIOUS
  <2>2. QED
    BY <1>1, <2>1
<1>5. QED
  BY <1>2, <1>3, <1>4, RequestAssumption

(* Sound is inductive as long as nothing unusual is met. *)
LEMMA SoundStep ==
  ASSUME ITypeOK, Sound, [INext]_ivars, unusual' = {}
  PROVE  Sound'
<1>0. /\ sent \in Seq(Request) /\ executed \in Seq([command : Command, data : Seq(Char)])
      /\ Len(sent) \in Nat /\ Len(executed) \in Nat
  BY DEF ITypeOK
<1>1. Len(executed) <= Len(sent) /\ \A i \in 1..Len(executed) : executed[i] = Meaning(sent[i])
  BY DEF Sound
<1>2. CASE UNCHANGED ivars
  <2>1. UNCHANGED <<server, sent, stream, pc, parser, command, parsed, state, cmd, body_size, body, executed, rejected>>
    BY <1>2 DEF ivars
  <2>2. Unread' = Unread /\ Socket' = Socket
    BY <2>1 DEF Unread, Socket
  <2>3. Waiting' = Waiting
    BY <2>1 DEF Waiting
  <2>4. ASSUME NEW r, Stage(r) PROVE Stage(r)'
    BY <2>1, <2>2, <2>4 DEF Stage, InLine, InBody, InData, Ready
  <2>5. QED
    BY <2>1, <2>3, <2>4 DEF Sound, LastSent
<1>3. ASSUME INext PROVE Sound'
  <2>1. pc \notin {"closed", "crashed"} /\ ~rejected
    BY <1>3, OverStays DEF Sound
  <2>2. CASE ClientSends
    <3>1. PICK r \in Request :
            sent' = Append(sent, r) /\ stream' = stream \o Encode(r) /\ unusual' = unusual \cup Unusual(r)
      BY <2>2 DEF ClientSends
    <3>2. Unusual(r) = {}
      BY <3>1
    <3>3. UNCHANGED <<server, pc, parser, command, parsed, state, body, executed, rejected>>
      BY <2>2 DEF ClientSends
    <3>4. Len(executed) = Len(sent)
      <4>1. ~(Len(executed) < Len(sent))
        BY <3>2 DEF Unusual
      <4>2. QED
        BY <1>0, <1>1, <4>1
    <3>5. Waiting
      BY <1>0, <2>1, <3>4 DEF Sound
    <3>6. Usual(r) /\ InLine(r)'
      BY <3>1, <3>2, <3>3, <3>5, ClientMoves
    <3>7. Len(sent') = Len(sent) + 1 /\ LastSent' = r /\ \A i \in 1..Len(sent) : sent'[i] = sent[i]
      <4>1. sent \in Seq(Request) /\ sent' = Append(sent, r)
        BY <1>0, <3>1
      <4>2. QED
        BY <4>1 DEF LastSent
    <3>8. \E q : q = LastSent' /\ Usual(q) /\ Stage(q)'
      BY <3>6, <3>7 DEF Stage
    <3>9. Len(sent') = Len(executed') + 1 /\ Len(executed') <= Len(sent')
      BY <1>0, <3>3, <3>4, <3>7
    <3>10. \A i \in 1..Len(executed') : executed'[i] = Meaning(sent'[i])
      BY <1>1, <3>3, <3>4, <3>7
    <3>11. ~rejected'
      BY <2>1, <3>3
    <3>12. QED
      BY <3>8, <3>9, <3>10, <3>11 DEF Sound
  <2>3. CASE SocketAgain
    <3>1. pc' = "closed" /\ UNCHANGED <<sent, executed, rejected>>
      BY <2>3 DEF SocketAgain
    <3>2. QED
      BY <1>1, <2>1, <3>1 DEF Sound
  <2>4. CASE Server /\ Waiting
    <3>1. Waiting' /\ UNCHANGED <<sent, executed, rejected>>
      BY <2>4, IdleStep
    <3>2. QED
      BY <1>1, <2>1, <3>1 DEF Sound
  <2>5. CASE Server /\ ~Waiting
    <3>1. Len(sent) = Len(executed) + 1 /\ \E r : r = LastSent /\ Usual(r) /\ Stage(r)
      BY <2>1, <2>5 DEF Sound
    <3>2. PICK r : r = LastSent /\ Usual(r) /\ Stage(r)
      BY <3>1
    <3>3. WellFormed(r) /\ sent # <<>> /\ r = sent[Len(executed) + 1]
      BY <3>1, <3>2, LastRequest
    <3>4. (Execute /\ Ready(r)) \/ (Moves(r) /\ UNCHANGED <<sent, executed>>)
      BY <2>5, <3>2, <3>3, StageStep
    <3>5. CASE Execute /\ Ready(r)
      <4>1. Waiting' /\ executed' = Append(executed, Meaning(r)) /\ UNCHANGED <<sent, rejected>>
        BY <3>1, <3>5, ExecuteMoves
      <4>2. Len(executed') = Len(sent')
        BY <4>1 DEF Waiting
      <4>3. ASSUME NEW i \in 1..Len(executed') PROVE executed'[i] = Meaning(sent'[i])
        <5>1. CASE i = Len(executed) + 1
          <6>1. executed'[i] = Meaning(r)
            BY <1>0, <4>1, <5>1
          <6>2. QED
            BY <3>3, <4>1, <5>1, <6>1
        <5>2. CASE i # Len(executed) + 1
          <6>1. i \in 1..Len(executed)
            BY <1>0, <3>1, <4>1, <4>2, <5>2
          <6>2. executed'[i] = executed[i]
            BY <1>0, <4>1, <6>1
          <6>3. QED
            BY <1>1, <4>1, <6>1, <6>2
        <5>3. QED
          BY <5>1, <5>2
      <4>4. Len(executed') <= Len(sent')
        BY <1>0, <4>1, <4>2
      <4>5. QED
        BY <2>1, <4>1, <4>3, <4>4 DEF Sound
    <3>6. CASE Moves(r) /\ UNCHANGED <<sent, executed>>
      <4>1. LastSent' = r /\ sent' # <<>> /\ Len(sent') = Len(executed') + 1
        BY <3>1, <3>2, <3>3, <3>6 DEF LastSent
      <4>2. Len(executed') <= Len(sent') /\ \A i \in 1..Len(executed') : executed'[i] = Meaning(sent'[i])
        BY <1>1, <3>6
      <4>3. rejected' => pc' = "closed" /\ sent' # <<>> /\ ~Supported(LastSent')
        BY <2>1, <3>6, <4>1 DEF Moves
      <4>4. pc' \in {"closed", "crashed"} \/ \E q : q = LastSent' /\ Usual(q) /\ Stage(q)'
        BY <3>2, <3>6, <4>1 DEF Moves
      <4>5. QED
        BY <4>1, <4>2, <4>3, <4>4 DEF Sound
    <3>7. QED
      BY <3>4, <3>5, <3>6
  <2>6. QED
    BY <1>3, <2>2, <2>3, <2>4, <2>5 DEF INext
<1>4. QED
  BY <1>2, <1>3


(* A server that waits for a read while nothing is under way is not in the   *)
(* middle of a request: there is always more of it to come.                  *)
LEMMA NoneHalfRead ==
  ASSUME ITypeOK, NEW r, WellFormed(r), Usual(r), Stage(r), stream = <<>>
  PROVE  pc # "read" /\ ~(pc = "body" /\ NeedsMore)
<1>1. Unread \in Seq(Char) /\ stream \in Seq(Char) /\ command \in Seq(Char) /\ body \in Seq(Char) /\ <<>> \in Seq(Char)
  BY UnreadType
<1>2. CASE Ready(r)
  BY <1>2 DEF Ready
<1>3. CASE InBody(r)
  <2>1. pc = "body"
    BY <1>3 DEF InBody
  <2>2. ~NeedsMore
    BY <1>3, SocketDone
  <2>3. QED
    BY <2>1, <2>2
<1>4. ASSUME pc = "read", InLine(r) \/ InData(r) PROVE Unread = <<>>
  <2>1. CASE server = "uv"
    <3>1. Unread = Drop(command, Len(command))
      BY <1>4, <2>1 DEF Unread, InLine, InData
    <3>2. QED
      BY <1>1, <3>1, DropAll
  <2>2. CASE server # "uv"
    BY <1>4, <2>2 DEF Unread, InLine, InData
  <2>3. QED
    BY <2>1, <2>2
<1>5. CASE InLine(r)
  <2>1. pc \in {"read", "loop"} /\ ~Done(parser)
    BY <1>5 DEF InLine
  <2>2. ASSUME pc = "read" PROVE FALSE
    <3>1. PICK p, h : Fresh(p) /\ h \in Seq(Char) /\ parser = Parse(p, h).parser /\ Cat(Cat(h, Unread), stream) = Encode(r)
      BY <1>5 DEF InLine
    <3>2. PICK t \in Seq(Char) : t = <<>>
      BY <1>1
    <3>3. Cat(Cat(h, t), t) = Encode(r)
      BY <1>4, <1>5, <2>2, <3>1, <3>2, Zenon
    <3>4. PICK res : res = Parse(parser, t)
      OBVIOUS
    <3>5. ~Done(res.parser)
      <4>1. res = [parser |-> parser, parsed |-> 0]
        BY <3>2, <3>4, ParseEmpty
      <4>2. QED
        BY <2>1, <4>1
    <3>6. t # <<>>
      BY <2>1, <3>1, <3>3, <3>4, <3>5, NextOfLine
    <3>7. QED
      BY <3>2, <3>6
  <2>3. QED
    BY <2>1, <2>2
<1>6. CASE InData(r)
  <2>1. pc \in {"read", "loop"} /\ r.name \in PutNames
    BY <1>6 DEF InData
  <2>2. ASSUME pc = "read" PROVE FALSE
    <3>1. Cat(Unread, stream) = <<>>
      BY <1>1, <1>4, <1>6, <2>2, CatProps
    <3>2. CASE state = "sRecvBody"
      <4>1. Cat(body, <<>>) = Rest(r) /\ Len(body) + body_size = Len(r.data)
        BY <1>6, <3>1, <3>2 DEF InData
      <4>2. body = Rest(r)
        BY <1>1, <4>1, CatProps
      <4>3. Len(Rest(r)) = Len(r.data) + 2 /\ Len(r.data) \in Nat
        BY <2>1, RestLength
      <4>4. body_size \in Nat
        BY WidthAssumption DEF ITypeOK, Unsigned
      <4>5. \A x, b \in Nat : x + 2 + b # x
        OBVIOUS
      <4>6. Len(r.data) + 2 + body_size = Len(r.data) /\ Len(r.data) \in Nat
        BY <4>1, <4>2, <4>3
      <4>7. QED
        BY <4>4, <4>5, <4>6, Zenon
    <3>3. <<CR, LF>> # <<>> /\ <<LF>> # <<>>
      OBVIOUS
    <3>4. state = "sRecvBody"
      BY <1>6, <3>1, <3>3 DEF InData
    <3>5. QED
      BY <3>2, <3>4
  <2>3. QED
    BY <2>1, <2>2
<1>7. QED
  BY <1>2, <1>3, <1>5, <1>6 DEF Stage

(* The inductive invariant. *)
InputInv == ITypeOK /\ Unparsed /\ (unusual = {} => Sound)

(* Until something unusual is met a connection is in one of the stages above *)
(* with the request sent last, and all earlier ones are executed.            *)
THEOREM InputInvariance == ISpec => []InputInv
<1>1. IInit => InputInv
  BY TypeInit, SoundInit DEF InputInv
<1>2. InputInv /\ [INext]_ivars => InputInv'
  <2> SUFFICES ASSUME InputInv, [INext]_ivars PROVE InputInv'
    OBVIOUS
  <2>1. ITypeOK' /\ Unparsed'
    BY TypeStep DEF InputInv
  <2>2. ASSUME unusual' = {} PROVE Sound'
    <3>1. unusual = {}
      BY <2>2, UnusualStays
    <3>2. QED
      BY <2>2, <3>1, SoundStep DEF InputInv
  <2>3. QED
    BY <2>1, <2>2 DEF InputInv
<1>3. QED
  BY <1>1, <1>2, PTL DEF ISpec

(* The commands executed are the requests sent, in order, once each, with    *)
(* their data, however the network cuts the stream: RunConnection,           *)
(* ConnectionWork and OnRead put together again what read() took apart.      *)
THEOREM Faithful == ISpec => []ExecutedAsSent
<1>1. InputInv => ExecutedAsSent
  BY DEF InputInv, Sound, ExecutedAsSent
<1>2. QED
  BY <1>1, InputInvariance, PTL

(* An error is reported only for a request whose name the server does not    *)
(* know.                                                                     *)
THEOREM NoFalseErrors == ISpec => []RejectsOnlyUnknown
<1>1. InputInv => RejectsOnlyUnknown
  BY DEF InputInv, Sound, RejectsOnlyUnknown
<1>2. QED
  BY <1>1, InputInvariance, PTL

(* A server that waits for characters that were never sent has executed all  *)
(* requests: none of them is kept back half read.                            *)
THEOREM NoneKeptBack == ISpec => []NothingLeft
<1>1. InputInv => NothingLeft
  <2> SUFFICES ASSUME InputInv, unusual = {}, stream = <<>>, pc = "read" \/ (pc = "body" /\ NeedsMore)
               PROVE  Len(executed) = Len(sent)
    BY DEF NothingLeft
  <2>1. ITypeOK /\ Sound /\ pc \notin {"closed", "crashed"}
    BY DEF InputInv
  <2>2. CASE Waiting
    BY <2>2 DEF Waiting
  <2>3. CASE ~Waiting
    <3>1. Len(sent) = Len(executed) + 1 /\ \E r : r = LastSent /\ Usual(r) /\ Stage(r)
      BY <2>1, <2>3 DEF Sound
    <3>2. PICK r : r = LastSent /\ Usual(r) /\ Stage(r)
      BY <3>1
    <3>3. WellFormed(r)
      BY <2>1, <3>1, <3>2, LastRequest
    <3>4. QED
      BY <2>1, <3>2, <3>3, NoneHalfRead
  <2>4. QED
    BY <2>2, <2>3
<1>2. QED
  BY <1>1, InputInvariance, PTL
=============================================================================
