------------------------------- MODULE Parser -------------------------------
(***************************************************************************)
(* The protocol parser src/protocol/Parser.{h,cpp} as operators: a parser  *)
(* is a record of the class's fields, Parse runs its automaton over a      *)
(* sequence of characters, Build makes the command.                        *)
(*                                                                         *)
(* Characters are strings.  A command's name is one character: letters are *)
(* told apart only by the comparison with the known names.                 *)
(***************************************************************************)
EXTENDS Integers, Sequences

CONSTANTS
  Width,  \* bits of an unsigned field
  Char    \* the characters

SP == " "
CR == "\r"
LF == "\n"
Digit == {"0", "1", "2", "3", "4", "5", "6", "7", "8", "9"}

DigitValue == [d \in Digit |-> (CHOOSE i \in 1..10 : d = <<"0", "1", "2", "3", "4", "5", "6", "7", "8", "9">>[i]) - 1]

(* 32 in the code.  That the power is a positive number is arithmetic, stated *)
(* because the provers know nothing of powers.                                *)
ASSUME WidthAssumption == Width \in Nat /\ 2^Width \in Nat \ {0}

(* "-" is the sign of a time, "?" what is found behind the end of an array. *)
ASSUME CharAssumption == {SP, CR, LF, "-", "?"} \cup Digit \subseteq Char

PutNames == {<<"set">>, <<"add">>, <<"append">>, <<"prepend">>}
GetNames == {<<"get">>, <<"gets">>}

Unsigned == 0..(2^Width - 1)

(* The fields; `thrown' marks a parser whose Parse ended in an exception. *)
ParserFields ==
  [state : {"sName", "spKey", "sgKey", "spFlags", "spExprTimeStart", "spExprTime", "spBytes", "sLF"},
   name : Seq(Char), keys : Seq(Seq(Char)), curKey : Seq(Char), flags : Unsigned,
   exprtime : Int, bytes : Unsigned, negative : BOOLEAN, parse_complete : BOOLEAN,
   thrown : BOOLEAN]

(* The fields as the constructor leaves them *)
NewParser ==
  [state |-> "sName", name |-> <<>>, keys |-> <<>>, curKey |-> <<>>, flags |-> 0,
   exprtime |-> 0, bytes |-> 0, negative |-> FALSE, parse_complete |-> FALSE,
   thrown |-> FALSE]

(* Reset leaves `negative' alone, which is assigned before it is read. *)
Reset(p) == [NewParser EXCEPT !.negative = p.negative]

Throw(p) == [p EXCEPT !.thrown = TRUE]

(* Mutant: the field is as wide as it needs to be. *)
AddDigit_Wide(v, c) == v * 10 + DigitValue[c]

(* A digit is added to an unsigned field; the test for overflow compares     *)
(* with the old value, and so misses some.                                   *)
AddDigit(v, c) == (v * 10 + DigitValue[c]) % 2^Width

(* Mutant: a value that does not grow is taken for an overflow. *)
Overflows_NotGreater(v, c) == AddDigit(v, c) <= v

Overflows(v, c) == AddDigit(v, c) < v

(* case sName: the end of the command's name *)
EndOfName(p) ==
  IF p.name \in PutNames THEN [p EXCEPT !.state = "spKey"]
  ELSE IF p.name \in GetNames THEN [p EXCEPT !.state = "sgKey"]
  ELSE IF p.name = <<"stats">> THEN [p EXCEPT !.state = "sLF"]
  ELSE Throw(p)

(* case sgKey: the end of a key, and with CR of the line *)
EndOfKey(p, c) ==
  [p EXCEPT !.keys = Append(@, p.curKey), !.curKey = <<>>,
            !.state = IF c = CR THEN "sLF" ELSE "sgKey"]

(* case spExprTime: a digit is added as it is, without a factor of ten *)
AddToTime(p, c) ==
  [p EXCEPT !.exprtime = IF p.negative THEN @ - DigitValue[c] ELSE @ + DigitValue[c]]

(* One turn of the loop in Parse. *)
Consume(p, c) ==
  CASE p.state = "sName" ->
         IF c \in {SP, CR} THEN EndOfName(p) ELSE [p EXCEPT !.name = Append(@, c)]
    [] p.state = "spKey" ->
         IF c = SP THEN [p EXCEPT !.state = "spFlags", !.keys = Append(@, p.curKey)]
                   ELSE [p EXCEPT !.curKey = Append(@, c)]
    [] p.state = "sgKey" ->
         IF c \in {SP, CR} THEN EndOfKey(p, c) ELSE [p EXCEPT !.curKey = Append(@, c)]
    [] p.state = "spFlags" ->
         IF c = SP THEN [p EXCEPT !.state = "spExprTimeStart", !.negative = FALSE]
         ELSE IF c \notin Digit THEN p
         ELSE IF Overflows(p.flags, c) THEN Throw(p)
         ELSE [p EXCEPT !.flags = AddDigit(@, c)]
    [] p.state = "spExprTimeStart" ->
         IF c = "-" THEN [p EXCEPT !.state = "spExprTime", !.negative = TRUE]
         ELSE IF c \in Digit
         THEN [p EXCEPT !.state = "spExprTime", !.exprtime = DigitValue[c]]
         ELSE p
    [] p.state = "spExprTime" ->
         IF c = SP THEN [p EXCEPT !.state = "spBytes"]
         ELSE IF c \in Digit THEN AddToTime(p, c) ELSE p
    [] p.state = "spBytes" ->
         IF c = CR THEN [p EXCEPT !.state = "sLF"]
         ELSE IF c \notin Digit THEN p
         ELSE IF Overflows(p.bytes, c) THEN Throw(p)
         ELSE [p EXCEPT !.bytes = AddDigit(@, c)]
    [] p.state = "sLF" ->
         IF c = LF THEN [p EXCEPT !.parse_complete = TRUE] ELSE Throw(p)

(* The loop goes on until the command is complete or an exception ends it. *)
Done(p) == p.parse_complete \/ p.thrown

Advance(r, c) ==
  IF Done(r.parser) THEN r ELSE [parser |-> Consume(r.parser, c), parsed |-> r.parsed + 1]

(* Parse: the parser afterwards and the number of characters consumed. *)
Parse(p, input) ==
  LET run[n \in 0..Len(input)] ==
        IF n = 0 THEN [parser |-> p, parsed |-> 0] ELSE Advance(run[n - 1], input[n])
  IN  run[Len(input)]

(* Build knows fewer names than Parse. *)
CanBuild(p) == p.name \in {<<"set">>, <<"add">>, <<"append">>, <<"get">>, <<"stats">>}

Build(p) == [name |-> p.name, keys |-> p.keys, flags |-> p.flags, exprtime |-> p.exprtime]
=============================================================================
