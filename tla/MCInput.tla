------------------------------ MODULE MCInput ------------------------------
(* Instances of ConnectionInput for TLC. *)
EXTENDS ConnectionInput

Chars ==
  {SP, CR, LF, "-", "?", "set", "get", "gets", "stats", "k", "x", "y", "a", "b"} \cup Digit

Put(flags, exptime, bytes, data) ==
  [name |-> <<"set">>, keys |-> <<<<"k">>>>, flags |-> flags, exptime |-> exptime, bytes |-> bytes,
   data |-> data]

Line(name, keys) ==
  [name |-> name, keys |-> keys, flags |-> <<"0">>, exptime |-> <<"0">>, bytes |-> <<"0">>,
   data |-> <<>>]

Requests ==
  {Put(<<"0">>, <<"0">>, <<"2">>, <<"a", "b">>),
   Put(<<"6", "3">>, <<"-", "1">>, <<"0", "1">>, <<"a">>), Put(<<"7", "0">>, <<"6", "0">>, <<"1">>, <<"a">>),
   Put(<<"0">>, <<"0">>, <<"0">>, <<>>),
   Line(<<"get">>, <<<<"k">>, <<"x", "y">>>>), Line(<<"stats">>, <<>>),
   Line(<<"gets">>, <<<<"k">>>>), Line(<<"x">>, <<>>)}
=============================================================================
