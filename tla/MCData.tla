------------------------------- MODULE MCData -------------------------------
(* One thread computing with all small numbers, and two threads using the  *)
(* same variables with and without LOCK.                                   *)
EXTENDS Data

CONSTANTS t1, t2, MaxNumber

VarTypes ==
  [i |-> "NUMERIC", j |-> "NUMERIC", n |-> "NUMERIC", l |-> "NUMERIC", r |-> "REAL",
   c |-> "CHAR", d |-> "CHAR", s |-> "STRING", p |-> "STRING", k |-> "STRING"]
VarSizes == [s |-> 4, p |-> 3, k |-> 4]
Garbage == {-LongMax - 1}

(* Strings are made of 1, 2 and 3; c is 9 and d is 8.                      *)
Values(i, j, r) ==
  [i |-> i, j |-> j, n |-> 1, l |-> 1, r |-> r, c |-> 9, d |-> 8, s |-> 1, p |-> 2, k |-> 3]
Buffers(s) == <<s, <<3>>, <<1, 2>>>>

Ins(op, args) == [op |-> op, args |-> args]
Case(one, two, values, s) ==
  [script |-> (t1 :> one) @@ (t2 :> two), value |-> values, heap |-> Buffers(s)]

Numbers == -MaxNumber..MaxNumber
Arithmetic ==
  {Case(<<Ins(op, <<d, "i", "j">>)>>, <<>>, Values(i, j, 0), <<>>) :
     op \in {"ADD", "SUB", "MUL", "DIV"}, d \in {"n", "r"}, i \in Numbers, j \in Numbers}
    \cup
  {Case(<<Ins(op, <<"n", "r", "j">>), Ins("DIV", <<"r", "r", "n">>)>>, <<>>,
        Values(0, j, r), <<>>) :
     op \in {"ADD", "MUL", "DIV"}, j \in {-1, 0, 7}, r \in {-3 * Unit, 5, Unit \div 2}}
    \cup
  {Case(<<Ins("ADD", <<"i", "i", "j", "i">>), Ins("MUL", <<"n", "j", "i", "j">>)>>, <<>>,
        Values(i, 3, 0), <<>>) : i \in Numbers}
    \cup
  {Case(<<Ins("ADD", <<"i", "i", "n", "j">>)>>, <<>>, Values(i, j, 0), <<>>) :
     i \in Numbers, j \in Numbers}
    \cup
  {Case(<<Ins("ASSIGN", a)>>, <<>>, Values(1, 2, Unit), <<1, 2>>) :
     a \in {<<"i", "j">>, <<"r", "r">>, <<"c", "c">>, <<"s", "s">>, <<"p", "s">>,
            <<"k", "s">>, <<"s", "p">>}}
    \cup
  {Case(<<Ins(op, <<"n", "c", "i">>)>>, <<>>, Values(1, 2, 0), <<1>>) : op \in {"ADD", "DIV"}}

(* Jumps over one line, to the label l, and misused operations.            *)
Jumps ==
  {Case(<<Ins(op, <<"l", "i", "j">>), Ins("SLEEP", <<"i">>)>>, <<>>, Values(i, j, 0), <<>>) :
     op \in Comparisons, i \in Numbers, j \in Numbers}
    \cup
  {Case(<<Ins(op, <<"l", "i">>), Ins("SLEEP", <<"i">>)>>, <<>>, Values(i, 0, 0), <<>>) :
     op \in Tests, i \in Numbers}
    \cup
  {Case(<<Ins("JMPGT", <<"l", "r", "r">>), Ins("JMP", <<"l">>)>>, <<>>, Values(0, 0, r), <<>>) :
     r \in {0, Unit}}
Misuses ==
  {Case(<<Ins(op, <<"i", "r">>)>>, <<>>, Values(0, 0, 0), <<>>) :
     op \in {"ADD", "DIV", "ASSIGN", "SLEEP", "GET_STR_CHAR", "JMPLT", "LOCK"}}

(* What a thread does with the strings s and p.                            *)
StringOps(index, char) ==
  {<<Ins("SET_STR_CHAR", <<"s", index, char>>)>>, <<Ins("GET_STR_CHAR", <<"s", index, char>>)>>,
   <<Ins("ASSIGN", <<"s", "p">>)>>, <<Ins("ASSIGN", <<"s", "k">>)>>,
   <<Ins("ASSIGN", <<"p", "s">>)>>, <<Ins("OUT", <<"s">>)>>, <<Ins("ASSIGN", <<"s", "s">>)>>}
One == StringOps("i", "c")
Two == StringOps("j", "d")
Locked(ops, v) == <<Ins("LOCK", <<v>>)>> \o ops \o <<Ins("UNLOCK", <<v>>)>>
Both(ops) == Locked(Locked(ops, "s"), "p")

StringCases ==
  {Case(one, two, Values(i, 0, 0), s) :
     one \in One, two \in Two, i \in {0, 1}, s \in {<<>>, <<1, 2, 3>>}}
    \cup
  {Case(Both(one), Both(two), Values(i, 1, 0), <<1, 2, 3>>) :
     one \in One, two \in Two, i \in {-1, 0, 1, 3}}
    \cup
  {Case(Locked(<<Ins("SET_STR_CHAR", <<"s", "i", "c">>)>>, "s"),
        Locked(<<Ins("SET_STR_CHAR", <<"s", "j", "d">>), Ins("OUT", <<"s">>)>>, "s"),
        Values(i, 2, 0), <<1, 2, 3>>) : i \in {0, 2, IntRange + 1}}

(* A divisor another thread sets to 0, and misuse of LOCK.                 *)
SharedCases ==
  {Case(one, two, Values(1, 0, 2 * Unit), <<1>>) :
     one \in {<<Ins("DIV", <<"r", "i", "n">>)>>, Locked(<<Ins("DIV", <<"r", "i", "n">>)>>, "n")},
     two \in {<<Ins("ASSIGN", <<"n", "j">>)>>, Locked(<<Ins("ASSIGN", <<"n", "j">>)>>, "n"),
              <<Ins("UNLOCK", <<"n">>)>>, <<Ins("LOCK", <<"n">>), Ins("LOCK", <<"n">>)>>}}

AllStarts == Arithmetic \cup Jumps \cup Misuses \cup StringCases \cup SharedCases
=============================================================================
