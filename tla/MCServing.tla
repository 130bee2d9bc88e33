----------------------------- MODULE MCServing -----------------------------
(* Two clients started twice: correct ones with all faults, with one whose *)
(* program takes too long, and all command lines without faults.           *)
EXTENDS Serving, TLC

CONSTANTS a, b

Host == <<"host">>
Port == <<"7">>
PortNumbers == {Port}
Args(name) == <<Host, Port, name>>
Good(name) == Args(<<name, ".", "mis">>)
GoodArgs == (a :> Good("p")) @@ (b :> Args(<<"d", "/", "q", ".", "mis">>))

CommandLines ==
  {<<Host>>, <<<<"-f">>, Host, Port>>, <<Host, Host, <<"p", ".", "mis">>>>,
   <<<<"-f">>, Host, Port, <<"p", ".", "mis">>>>,
   <<Host, Port, <<"p", ".", "mis">>, <<"-f">>>>}
    \cup
  {Args(n) : n \in {<<"p">>, <<"p", ".">>, <<"p", ".", "misc">>, <<".", "mis">>,
     <<"d", "/", "p", ".", "mis">>, <<"d", ".", "mis", "/", "x">>,
     <<"d", ".", "mis", "/", "q", ".", "r", ".", "mis">>, <<"/", "p", ".", "r">>}}

World(args, faults, fatal, slow, fds) ==
  [args |-> args, faults |-> faults, fatal |-> fatal, slow |-> slow, fds |-> fds]
AllWorlds ==
  {World(GoodArgs, faults, fatal, {}, fds) :
     faults \in SUBSET {"setup", "accept", "create"}, fatal \in {{}, {b}}, fds \in 2..4}
    \cup
  {World(GoodArgs, faults, {}, {b}, fds) : faults \in {{}, {"create"}}, fds \in {3, 5}}
    \cup
  {World((a :> x) @@ (b :> y), {}, {}, {}, 4) :
     x \in CommandLines, y \in CommandLines}
=============================================================================
