------------------------------- MODULE MCText -------------------------------
(* Files of a few lines: every short word in the place of the arguments.   *)
EXTENDS Text

CONSTANTS MaxArguments, MaxLiteral

DigitValues == ("0" :> 0) @@ ("1" :> 1) @@ ("3" :> 3) @@ ("9" :> 9)
Words(symbols, max) == UNION {[1..n -> symbols] : n \in 0..max}

(* OUT with any arguments made of blanks, commas, quotes, a backslash, the *)
(* letter of an escape and another, with a line before and after it.       *)
OutLine(w) == <<"OUT", " ">> \o w
OutFiles ==
  {<<<<"OUT", " ", "1">>, <<" ", "\r">>, OutLine(w)>> :
     w \in Words({" ", ",", "\"", "'", "\\", "n", "q"}, MaxArguments)}

(* A variable of any type with any literal, printed.                       *)
VarLine(type, w) == <<"VAR", " ", "$s", ",", type, ",">> \o w
VarFiles ==
  {<<VarLine(type, w), <<" ">>, OutLine(<<"$s", " ", ",", "'", "n", "'">>)>> :
     type \in {"NUMERIC", "REAL", "CHAR", "STRING"},
     w \in Words({"\"", "'", "\\", "n", "0", "1", "."}, MaxLiteral)}

(* Sized strings, constants as arguments, faulty declarations.             *)
SizedFiles ==
  {<<VarLine("STRING", size \o <<",">> \o w), OutLine(<<"$s">>)>> :
     size \in {<<"0">>, <<"1", "q">>, <<"3">>, <<"9">>, <<"3", "0">>, <<"q">>},
     w \in Words({"\"", "n", "0"}, MaxArguments)}
OtherFiles ==
  {<<OutLine(w)>> : w \in Words({"'", "\\", "0", "1", "."}, MaxLiteral)}
    \cup
  {<<VarLine("REAL", <<"1", ".">>), l, <<"OUT">>>> :
     l \in {VarLine("REAL", <<".", "1">>), VarLine("OUT", <<"1">>), <<"VAR", " ", "1">>,
            OutLine(<<"OUT">>), OutLine(<<"$t">>), <<"NOP">>,
            <<"OUT", "\t", " ", "1">>}}

AllFiles == OutFiles \cup VarFiles \cup SizedFiles \cup OtherFiles
=============================================================================
