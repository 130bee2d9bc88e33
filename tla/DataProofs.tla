----------------------------- MODULE DataProofs -----------------------------
(***************************************************************************)
(* What becomes of the buffers of STRING variables, for any threads,       *)
(* programs, types and sizes, with LOCK or without.                        *)
(*                                                                         *)
(* A buffer comes from the constructor, from set, or from the calloc of    *)
(* SET_STR_CHAR; Private says that these never meet, InPlan how far a      *)
(* thread is in its instruction, and Copying who is between doDelete and   *)
(* strcpy.                                                                 *)
(*                                                                         *)
(* Then, of programs that LOCK the strings they share: what they read      *)
(* through a pointer is the string as it is.                               *)
(***************************************************************************)
EXTENDS Data, Lemmas, TLAPS

Active(t) == ip[t] \in DOMAIN script[t] /\ ~Misused(Cur(t))

TypeInv ==
  /\ script \in [Threads -> Seq(Instruction)]
  /\ DOMAIN ip = Threads /\ DOMAIN step = Threads /\ DOMAIN got = Threads
  /\ DOMAIN value = Vars
  /\ fresh \in Nat
  /\ copying \subseteq Threads

(* What a SET_STR_CHAR has read before each step of SetCharPlan.           *)
Collected == <<0, 1, 2, 3, 3, 4, 4>>
Listed(s) == Len(s) \in Nat /\ s = [i \in 1..Len(s) |-> s[i]]

InPlan ==
  \A t \in Threads :
    /\ Active(t) => step[t] \in 1..Len(Plan(Cur(t)))
    /\ Active(t) /\ Cur(t).op = "SET_STR_CHAR" =>
         Listed(got[t]) /\ Len(got[t]) = Collected[step[t]]
    /\ ip[t] \in DOMAIN script[t] /\ Misused(Cur(t)) => got[t] = <<>>

Copying ==
  /\ \A t \in copying :
       /\ Active(t) /\ Now(t).do = "set" /\ Now(t).as = "string"
       /\ Var(t) \in Strings
  /\ \A t, u \in copying : Var(t) = Var(u) => t = u

HasCopy(t) ==
  ip[t] \in DOMAIN script[t] /\ Cur(t).op = "SET_STR_CHAR" /\ Len(got[t]) = 4

Private ==
  /\ \A v \in Strings : value[v] \in Nat /\ value[v] < fresh
  /\ \A a \in DOMAIN heap : a \in Nat /\ a < fresh
  /\ \A t \in Threads : HasCopy(t) =>
       /\ got[t][4] \in Nat /\ got[t][4] < fresh
       /\ \A v \in Strings : got[t][4] # value[v]

IInv == TypeInv /\ InPlan /\ Copying /\ Private /\ BuffersPrivate

-----------------------------------------------------------------------------
(* Sequences.                                                              *)
LEMMA Grow ==
  ASSUME NEW s, NEW x, Listed(s)
  PROVE  /\ Listed(Append(s, x)) /\ Len(Append(s, x)) = Len(s) + 1
         /\ Append(s, x)[Len(s) + 1] = x
         /\ \A i \in 1..Len(s) : Append(s, x)[i] = s[i]
<1> DEFINE S == {s[i] : i \in 1..Len(s)} \cup {x}
<1>1. s \in Seq(S)
  BY DEF Listed
<1>2. /\ Append(s, x) \in Seq(S) /\ Len(Append(s, x)) = Len(s) + 1
      /\ Append(s, x)[Len(s) + 1] = x
      /\ \A i \in 1..Len(s) : Append(s, x)[i] = s[i]
  BY <1>1
<1>3. Listed(Append(s, x))
  <2>1. \A q \in Seq(S) : Len(q) \in Nat /\ q = [i \in 1..Len(q) |-> q[i]]
    OBVIOUS
  <2> QED
    BY <1>2, <2>1, Zenon DEF Listed
<1> QED
  BY <1>2, <1>3

(* The plan of each instruction.                                           *)
LEMMA PlanOf ==
  ASSUME NEW ins
  PROVE  /\ ins.op \in {"ADD", "MUL", "SUB"} =>
              Plan(ins) = [i \in 1..Len(ins.args) |->
                             IF i < Len(ins.args) THEN Do("get", i + 1, "double")
                             ELSE Do("set", 1, "double")]
         /\ ins.op = "DIV" => Plan(ins) = DivPlan
         /\ ins.op = "ASSIGN" => Plan(ins) = AssignPlan(Type[ins.args[1]])
         /\ ins.op = "SET_STR_CHAR" => Plan(ins) = SetCharPlan
         /\ ins.op = "GET_STR_CHAR" => Plan(ins) = GetCharPlan
         /\ ins.op = "OUT" => Plan(ins) = OutPlan
         /\ ins.op = "SLEEP" => Plan(ins) = <<Do("get", 1, "int"), Raw("sleep")>>
         /\ ins.op \in {"JMP"} \cup Tests \cup Comparisons =>
              Plan(ins) = JumpPlan(ins.op) \o <<Do("get", 1, "int"), Raw("jump")>>
         /\ ins.op \in {"LOCK", "UNLOCK"} => Plan(ins) = <<Do(ins.op, 1, "owner")>>
BY DEF Plan, Tests, Comparisons

LEMMA JoinedPlans ==
  ASSUME NEW S, NEW a \in Seq(S), NEW b \in Seq(S), Len(b) = 2
  PROVE  /\ Len(a) = 2 => /\ Len(a \o b) = 4
                          /\ (a \o b)[1] = a[1] /\ (a \o b)[2] = a[2]
                          /\ (a \o b)[3] = b[1] /\ (a \o b)[4] = b[2]
         /\ Len(a) = 3 => /\ Len(a \o b) = 5
                          /\ (a \o b)[1] = a[1] /\ (a \o b)[2] = a[2] /\ (a \o b)[3] = a[3]
                          /\ (a \o b)[4] = b[1] /\ (a \o b)[5] = b[2]
<1>1. /\ Len(a \o b) = Len(a) + Len(b)
      /\ \A i \in 1..Len(a) : (a \o b)[i] = a[i]
      /\ \A i \in 1..Len(b) : (a \o b)[Len(a) + i] = b[i]
  BY ConcatParts
<1>2. (a \o b)[Len(a) + 1] = b[1] /\ (a \o b)[Len(a) + 2] = b[2]
  BY <1>1
<1>3. CASE Len(a) = 2
  BY <1>1, <1>2, <1>3
<1>4. CASE Len(a) = 3
  BY <1>1, <1>2, <1>4
<1> QED
  BY <1>3, <1>4

LEMMA JumpPlans ==
  ASSUME NEW ins
  PROVE  /\ ins.op = "JMP" => Plan(ins) = <<Do("get", 1, "int"), Raw("jump")>>
         /\ ins.op \in Tests =>
              /\ Len(Plan(ins)) = 4
              /\ Plan(ins)[1] = Do("get", 2, "double") /\ Plan(ins)[2] = Raw("branch")
              /\ Plan(ins)[3] = Do("get", 1, "int") /\ Plan(ins)[4] = Raw("jump")
         /\ ins.op \in Comparisons =>
              /\ Len(Plan(ins)) = 5
              /\ Plan(ins)[1] = Do("get", 2, "double") /\ Plan(ins)[2] = Do("get", 3, "double")
              /\ Plan(ins)[3] = Raw("branch")
              /\ Plan(ins)[4] = Do("get", 1, "int") /\ Plan(ins)[5] = Raw("jump")
<1>1. ASSUME ins.op = "JMP" PROVE Plan(ins) = <<Do("get", 1, "int"), Raw("jump")>>
  <2> DEFINE S == {Do("get", 1, "int"), Raw("jump")}
             b == <<Do("get", 1, "int"), Raw("jump")>>
  <2>1. JumpPlan(ins.op) = <<>>
    BY <1>1 DEF JumpPlan, Tests, Comparisons
  <2>2. Plan(ins) = <<>> \o b
    BY <1>1, <2>1, PlanOf
  <2>3. b \in Seq(S) /\ <<>> \in Seq(S)
    OBVIOUS
  <2>4. Plan(ins) = b
    BY <2>2, <2>3
  <2> QED
    BY <2>4
<1>2. ASSUME ins.op \in Tests
      PROVE  /\ Len(Plan(ins)) = 4
             /\ Plan(ins)[1] = Do("get", 2, "double") /\ Plan(ins)[2] = Raw("branch")
             /\ Plan(ins)[3] = Do("get", 1, "int") /\ Plan(ins)[4] = Raw("jump")
  <2> DEFINE S == {Do("get", 2, "double"), Raw("branch"), Do("get", 1, "int"), Raw("jump")}
             a == <<Do("get", 2, "double"), Raw("branch")>>
             b == <<Do("get", 1, "int"), Raw("jump")>>
  <2>1. JumpPlan(ins.op) = a
    BY <1>2 DEF JumpPlan, Tests, Comparisons
  <2>2. Plan(ins) = a \o b
    BY <1>2, <2>1, PlanOf
  <2>3. a \in Seq(S) /\ b \in Seq(S) /\ Len(a) = 2 /\ Len(b) = 2
    OBVIOUS
  <2>4. /\ Len(a \o b) = 4
        /\ (a \o b)[1] = a[1] /\ (a \o b)[2] = a[2]
        /\ (a \o b)[3] = b[1] /\ (a \o b)[4] = b[2]
    BY <2>3, JoinedPlans
  <2> QED
    BY <2>2, <2>4
<1>3. ASSUME ins.op \in Comparisons
      PROVE  /\ Len(Plan(ins)) = 5
             /\ Plan(ins)[1] = Do("get", 2, "double") /\ Plan(ins)[2] = Do("get", 3, "double")
             /\ Plan(ins)[3] = Raw("branch")
             /\ Plan(ins)[4] = Do("get", 1, "int") /\ Plan(ins)[5] = Raw("jump")
  <2> DEFINE S == {Do("get", 2, "double"), Do("get", 3, "double"), Raw("branch"),
                   Do("get", 1, "int"), Raw("jump")}
             a == <<Do("get", 2, "double"), Do("get", 3, "double"), Raw("branch")>>
             b == <<Do("get", 1, "int"), Raw("jump")>>
  <2>1. JumpPlan(ins.op) = a
    BY <1>3 DEF JumpPlan, Tests, Comparisons
  <2>2. Plan(ins) = a \o b
    BY <1>3, <2>1, PlanOf
  <2>3. a \in Seq(S) /\ b \in Seq(S) /\ Len(a) = 3 /\ Len(b) = 2
    OBVIOUS
  <2>4. /\ Len(a \o b) = 5
        /\ (a \o b)[1] = a[1] /\ (a \o b)[2] = a[2] /\ (a \o b)[3] = a[3]
        /\ (a \o b)[4] = b[1] /\ (a \o b)[5] = b[2]
    BY <2>3, JoinedPlans
  <2> QED
    BY <2>2, <2>4
<1> QED
  BY <1>1, <1>2, <1>3

(* The plans, and what their steps say about the instruction.              *)
LEMMA Plans ==
  ASSUME NEW ins \in Instruction, ~Misused(ins), NEW k \in 1..Len(Plan(ins))
  PROVE  /\ ins.op = "SET_STR_CHAR" => Plan(ins) = SetCharPlan
         /\ Plan(ins)[k].do \in {"copy", "free"} => ins.op = "SET_STR_CHAR"
         /\ Plan(ins)[k].do \in {"LOCK", "UNLOCK", "sleep", "jump", "print", "branch", "length",
                                 "char", "zero", "fits", "fetch"} => ins.op # "SET_STR_CHAR"
         /\ Plan(ins)[k].do = "char" => Len(Plan(ins)) = 5
         /\ Plan(ins)[k].do \in {"get", "zero", "branch", "fits", "bounds", "copy", "fetch",
                                 "length"} => k + 1 \in 1..Len(Plan(ins))
         /\ Plan(ins)[k].do = "set" => Plan(ins)[k].arg \in 1..Len(ins.args)
         /\ Plan(ins)[k].do = "set" /\ Plan(ins)[k].as # "string" => ins.op # "SET_STR_CHAR"
         /\ Plan(ins)[k].do = "set" /\ Plan(ins)[k].as = "string" =>
              \/ ins.op = "SET_STR_CHAR" /\ k = 6
              \/ ins.op = "ASSIGN"
<1>1. ins.op \in Operations /\ ins.args \in Seq(Vars) /\ Len(ins.args) \in Nat
  BY DEF Instruction
<1>2. Len(ins.args) \in Arities(ins.op)
  BY DEF Misused
<1>3. CASE ins.op \in {"ADD", "MUL", "SUB"}
  <2>1. Plan(ins) = [i \in 1..Len(ins.args) |-> IF i < Len(ins.args) THEN Do("get", i + 1, "double")
                                     ELSE Do("set", 1, "double")]
    BY <1>3, PlanOf
  <2>2. Len(ins.args) >= 1
    BY <1>1, <1>2, <1>3 DEF Arities, Tests, Comparisons
  <2>3. Len(Plan(ins)) = Len(ins.args)
    BY <1>1, <2>1
  <2>4. Plan(ins)[k] = IF k < Len(ins.args) THEN Do("get", k + 1, "double")
                                     ELSE Do("set", 1, "double")
    BY <2>1, <2>3
  <2> QED
    BY <1>1, <1>3, <2>2, <2>3, <2>4 DEF Do
<1>4. CASE ins.op = "DIV"
  <2>1. Plan(ins) = DivPlan /\ Len(ins.args) = 3
    BY <1>1, <1>2, <1>4, PlanOf DEF Arities, Tests, Comparisons
  <2> QED
    BY <1>4, <2>1 DEF DivPlan, Do, Raw
<1>5. CASE ins.op = "ASSIGN"
  <2>1. Plan(ins) = AssignPlan(Type[ins.args[1]]) /\ Len(ins.args) = 2
    BY <1>1, <1>2, <1>5, PlanOf DEF Arities, Tests, Comparisons
  <2>2. ins.args[1] \in Vars
    BY <1>1, <2>1
  <2>3. Type[ins.args[1]] \in {"NUMERIC", "REAL", "CHAR", "STRING"}
    BY <2>2, DataAssumption
  <2> QED
    BY <1>5, <2>1, <2>3 DEF AssignPlan, Do, Raw
<1>6. CASE ins.op = "SET_STR_CHAR"
  <2>1. Plan(ins) = SetCharPlan /\ Len(ins.args) = 3
    BY <1>1, <1>2, <1>6, PlanOf DEF Arities, Tests, Comparisons
  <2>2. k \in 1..7
    BY <2>1 DEF SetCharPlan
  <2> QED
    BY <1>6, <2>1, <2>2 DEF SetCharPlan, Do, Raw
<1>7. CASE ins.op = "GET_STR_CHAR"
  <2>1. Plan(ins) = GetCharPlan /\ Len(ins.args) = 3
    BY <1>1, <1>2, <1>7, PlanOf DEF Arities, Tests, Comparisons
  <2> QED
    BY <1>7, <2>1 DEF GetCharPlan, Do, Raw
<1>8. CASE ins.op = "OUT"
  <2>1. Plan(ins) = OutPlan
    BY <1>8, PlanOf
  <2> QED
    BY <1>8, <2>1 DEF OutPlan, Do, Raw
<1>9. CASE ins.op = "SLEEP"
  <2>1. Plan(ins) = <<Do("get", 1, "int"), Raw("sleep")>>
    BY <1>9, PlanOf
  <2> QED
    BY <1>9, <2>1 DEF Do, Raw
<1>10. CASE ins.op = "JMP"
  BY <1>10, JumpPlans DEF Do, Raw
<1>11. CASE ins.op \in Tests
  <2>1. k \in 1..4
    BY <1>11, JumpPlans
  <2> QED
    BY <1>11, <2>1, JumpPlans DEF Do, Raw, Tests
<1>12. CASE ins.op \in Comparisons
  <2>1. k \in 1..5
    BY <1>12, JumpPlans
  <2> QED
    BY <1>12, <2>1, JumpPlans DEF Do, Raw, Comparisons
<1>13. CASE ins.op \in {"LOCK", "UNLOCK"}
  <2>1. Plan(ins) = <<Do(ins.op, 1, "owner")>>
    BY <1>13, PlanOf
  <2> QED
    BY <1>13, <2>1 DEF Do
<1> QED
  BY <1>1, <1>3, <1>4, <1>5, <1>6, <1>7, <1>8, <1>9, <1>10, <1>11, <1>12, <1>13 DEF Operations

LEMMA PlanNotEmpty ==
  ASSUME NEW ins \in Instruction, ~Misused(ins)
  PROVE  Len(Plan(ins)) \in Nat \ {0}
<1>1. ins.op \in Operations /\ ins.args \in Seq(Vars) /\ Len(ins.args) \in Nat
  BY DEF Instruction
<1>2. Len(ins.args) \in Arities(ins.op)
  BY DEF Misused
<1>3. CASE ins.op \in {"ADD", "MUL", "SUB"}
  <2>1. Len(ins.args) >= 1
    BY <1>1, <1>2, <1>3 DEF Arities, Tests, Comparisons
  <2> QED
    BY <1>1, <1>3, <2>1, PlanOf
<1>4. CASE ins.op = "DIV"
  BY <1>4, PlanOf DEF DivPlan
<1>5. CASE ins.op = "ASSIGN"
  <2>1. Len(ins.args) = 2
    BY <1>1, <1>2, <1>5 DEF Arities, Tests, Comparisons
  <2>2. Type[ins.args[1]] \in {"NUMERIC", "REAL", "CHAR", "STRING"}
    BY <1>1, <2>1, DataAssumption
  <2>3. Plan(ins) = AssignPlan(Type[ins.args[1]])
    BY <1>5, PlanOf
  <2> QED
    BY <2>2, <2>3 DEF AssignPlan
<1>6. CASE ins.op \in {"SET_STR_CHAR", "GET_STR_CHAR", "OUT"}
  <2>1. Plan(ins) \in {SetCharPlan, GetCharPlan, OutPlan}
    BY <1>6, PlanOf
  <2>2. Len(SetCharPlan) > 0
    BY DEF SetCharPlan
  <2>3. Len(GetCharPlan) > 0
    BY DEF GetCharPlan
  <2>4. Len(OutPlan) > 0
    BY DEF OutPlan
  <2> QED
    BY <2>1, <2>2, <2>3, <2>4
<1>8. CASE ins.op \in {"SLEEP", "LOCK", "UNLOCK"}
  <2>1. Len(Plan(ins)) \in {1, 2}
    BY <1>8, PlanOf
  <2> QED
    BY <2>1
<1>7. CASE ins.op \in {"JMP"} \cup Tests \cup Comparisons
  <2>1. Len(Plan(ins)) \in {2, 4, 5}
    BY <1>7, JumpPlans
  <2> QED
    BY <2>1
<1> QED
  BY <1>1, <1>3, <1>4, <1>5, <1>6, <1>7, <1>8 DEF Operations

(* What is known of an instruction that runs.                              *)
LEMMA Running ==
  ASSUME TypeInv, InPlan, NEW t \in Threads, Active(t)
  PROVE  /\ Cur(t) \in Instruction /\ ~Misused(Cur(t))
         /\ step[t] \in 1..Len(Plan(Cur(t)))
         /\ Now(t) = Plan(Cur(t))[step[t]]
<1>1. script[t] \in Seq(Instruction) /\ ip[t] \in DOMAIN script[t]
  BY DEF TypeInv, Active
<1>2. Cur(t) \in Instruction
  BY <1>1 DEF Cur
<1> QED
  BY <1>2 DEF Active, InPlan, Now

-----------------------------------------------------------------------------
(* How threads move through their plans.                                   *)
OthersStay(t) ==
  /\ DOMAIN ip' = Threads /\ DOMAIN step' = Threads /\ DOMAIN got' = Threads
  /\ \A u \in Threads \ {t} : ip'[u] = ip[u] /\ step'[u] = step[u] /\ got'[u] = got[u]

Planned(t) ==
  /\ Active(t) => step[t] \in 1..Len(Plan(Cur(t)))
  /\ Active(t) /\ Cur(t).op = "SET_STR_CHAR" =>
       Listed(got[t]) /\ Len(got[t]) = Collected[step[t]]
  /\ ip[t] \in DOMAIN script[t] /\ Misused(Cur(t)) => got[t] = <<>>

LEMMA OthersPlanned ==
  ASSUME InPlan, NEW t \in Threads, OthersStay(t), script' = script, Planned(t)'
  PROVE  InPlan'
<1> SUFFICES ASSUME NEW u \in Threads PROVE Planned(u)'
  BY DEF InPlan, Planned
<1>1. CASE u = t
  BY <1>1
<1>2. CASE u # t
  <2>1. Planned(u)
    BY DEF InPlan, Planned
  <2>2. ip'[u] = ip[u] /\ step'[u] = step[u] /\ got'[u] = got[u]
    BY <1>2 DEF OthersStay
  <2> QED
    BY <2>1, <2>2 DEF Planned, Active, Cur
<1> QED
  BY <1>1, <1>2

LEMMA GoMoves ==
  ASSUME TypeInv, InPlan, script' = script, NEW t \in Threads, Active(t), NEW r, Go(t, r),
         step[t] + 1 \in 1..Len(Plan(Cur(t))),
         Cur(t).op = "SET_STR_CHAR" => Listed(r) /\ Len(r) = Collected[step[t] + 1]
  PROVE  /\ OthersStay(t) /\ InPlan' /\ got'[t] = r /\ ip' = ip
<1>1. OthersStay(t)
  BY DEF Go, TypeInv, OthersStay
<1>2. got'[t] = r /\ step'[t] = step[t] + 1 /\ ip'[t] = ip[t]
  BY DEF Go, TypeInv
<1>3. Active(t)' /\ Cur(t)' = Cur(t)
  BY <1>2 DEF Active, Cur
<1>4. Planned(t)'
  BY <1>2, <1>3 DEF Planned, Active
<1> QED
  BY <1>1, <1>2, <1>4, OthersPlanned DEF Go

LEMMA GoToMoves ==
  ASSUME TypeInv, InPlan, script' = script, NEW t \in Threads, NEW i, GoTo(t, i)
  PROVE  OthersStay(t) /\ InPlan' /\ got'[t] = <<>>
<1>1. OthersStay(t)
  BY DEF GoTo, TypeInv, OthersStay
<1>2. got'[t] = <<>> /\ step'[t] = 1
  BY DEF GoTo, TypeInv
<1>3. Planned(t)'
  <2>1. ASSUME Active(t)' PROVE Cur(t)' \in Instruction /\ ~Misused(Cur(t)')
    <3>1. script'[t] \in Seq(Instruction) /\ ip'[t] \in DOMAIN script'[t]
      BY <2>1 DEF TypeInv, Active
    <3> QED
      BY <2>1, <3>1 DEF Cur, Active
  <2>2. Active(t)' => 1 \in 1..Len(Plan(Cur(t)'))
    BY <2>1, PlanNotEmpty
  <2>3. Listed(<<>>) /\ Len(<<>>) = 0 /\ Collected[1] = 0
    BY DEF Listed, Collected
  <2> QED
    BY <1>2, <2>2, <2>3 DEF Planned
<1> QED
  BY <1>1, <1>2, <1>3, OthersPlanned

(* Copies are where they were, except that t may make or lose one.         *)
LEMMA OtherCopies ==
  ASSUME NEW t \in Threads, OthersStay(t), script' = script
  PROVE  \A u \in Threads \ {t} :
           /\ HasCopy(u)' <=> HasCopy(u)
           /\ got'[u] = got[u]
           /\ Active(u)' <=> Active(u)
           /\ Cur(u)' = Cur(u) /\ Now(u)' = Now(u) /\ Var(u)' = Var(u)
<1> SUFFICES ASSUME NEW u \in Threads \ {t}
             PROVE  /\ HasCopy(u)' <=> HasCopy(u)
                    /\ got'[u] = got[u]
                    /\ Active(u)' <=> Active(u)
                    /\ Cur(u)' = Cur(u) /\ Now(u)' = Now(u) /\ Var(u)' = Var(u)
  OBVIOUS
<1>1. ip'[u] = ip[u] /\ step'[u] = step[u] /\ got'[u] = got[u]
  BY DEF OthersStay
<1>2. Cur(u)' = Cur(u)
  BY <1>1 DEF Cur
<1>3. Now(u)' = Now(u)
  BY <1>1, <1>2 DEF Now
<1>4. Var(u)' = Var(u)
  BY <1>2, <1>3 DEF Var
<1> QED
  BY <1>1, <1>2, <1>3, <1>4 DEF HasCopy, Active

(* A step that leaves the buffers alone.                                   *)
LEMMA BuffersUntouched ==
  ASSUME IInv, UNCHANGED <<script, heap, fresh, copying>>,
         DOMAIN value' = Vars, \A v \in Strings : value'[v] = value[v],
         NEW t \in Threads, OthersStay(t), InPlan',
         t \notin copying \/ (ip' = ip /\ step' = step /\ got' = got),
         HasCopy(t)' <=> HasCopy(t), HasCopy(t) => got'[t][4] = got[t][4]
  PROVE  IInv'
<1>1. TypeInv'
  BY DEF IInv, TypeInv, OthersStay
<1>2. \A u \in copying : (Active(u)' <=> Active(u)) /\ Now(u)' = Now(u) /\ Var(u)' = Var(u)
  <2> SUFFICES ASSUME NEW u \in copying
               PROVE  (Active(u)' <=> Active(u)) /\ Now(u)' = Now(u) /\ Var(u)' = Var(u)
    OBVIOUS
  <2>1. CASE u # t
    <3>1. u \in Threads \ {t}
      BY <2>1 DEF IInv, TypeInv
    <3> QED
      BY <3>1, OtherCopies
  <2>2. CASE u = t
    BY <2>2 DEF Active, Now, Var, Cur
  <2> QED
    BY <2>1, <2>2
<1>3. Copying'
  BY <1>2 DEF IInv, Copying
<1>4. \A u \in Threads : (HasCopy(u)' <=> HasCopy(u)) /\ (HasCopy(u) => got'[u][4] = got[u][4])
  BY OtherCopies
<1>5. Private'
  BY <1>4 DEF IInv, Private
<1>6. \A a : Held(a) => Held(a)'
  BY <1>4 DEF Held, HasCopy
<1>7. BuffersPrivate'
  BY <1>2, <1>6 DEF IInv, BuffersPrivate
<1> QED
  BY <1>1, <1>3, <1>5, <1>7 DEF IInv

LEMMA Stays ==
  ASSUME IInv, UNCHANGED <<script, value, heap, fresh, copying, ip, step, got>>
  PROVE  IInv'
<1>1. TypeInv' /\ InPlan'
  BY DEF IInv, TypeInv, InPlan, Active, Cur
<1>2. \A t : (Active(t)' <=> Active(t)) /\ Cur(t)' = Cur(t) /\ Now(t)' = Now(t)
             /\ Var(t)' = Var(t) /\ (HasCopy(t)' <=> HasCopy(t))
  BY DEF Active, Cur, Now, Var, HasCopy
<1>3. Copying' /\ Private'
  BY <1>2 DEF IInv, Copying, Private
<1>4. BuffersPrivate'
  BY <1>2 DEF IInv, BuffersPrivate, Held
<1> QED
  BY <1>1, <1>3, <1>4 DEF IInv

(* What SET_STR_CHAR has at each of its steps.                             *)
LEMMA SetCharSteps ==
  ASSUME TypeInv, InPlan, NEW t \in Threads, Active(t), Cur(t).op = "SET_STR_CHAR"
  PROVE  /\ step[t] \in 1..7 /\ Len(Plan(Cur(t))) = 7
         /\ Listed(got[t]) /\ Len(got[t]) = Collected[step[t]]
         /\ Now(t).do = "get" => step[t] \in 1..3
         /\ Now(t).do = "bounds" => step[t] = 4
         /\ Now(t).do = "copy" => step[t] = 5
         /\ Now(t).do = "set" => step[t] = 6
         /\ Now(t).do = "free" => step[t] = 7
<1>1. Plan(Cur(t)) = SetCharPlan
  BY PlanOf
<1>2. step[t] \in 1..7 /\ Len(Plan(Cur(t))) = 7
  BY <1>1, Running DEF SetCharPlan
<1>3. Listed(got[t]) /\ Len(got[t]) = Collected[step[t]]
  BY DEF InPlan
<1>4. Now(t) = SetCharPlan[step[t]]
  BY <1>1 DEF Now
<1> QED
  BY <1>2, <1>3, <1>4 DEF SetCharPlan, Do, Raw

LEMMA GoesOn ==
  ASSUME IInv, UNCHANGED <<script, value, heap, fresh, copying>>,
         NEW t \in Threads, Active(t), t \notin copying, NEW r, Go(t, r),
         step[t] + 1 \in 1..Len(Plan(Cur(t))),
         Cur(t).op = "SET_STR_CHAR" =>
           step[t] \in 1..4 /\ Listed(r) /\ Len(r) = Collected[step[t] + 1]
  PROVE  IInv'
<1>1. OthersStay(t) /\ InPlan' /\ got'[t] = r /\ ip' = ip
  BY GoMoves DEF IInv
<1>0. \A k \in 1..4 : Collected[k] # 4 /\ Collected[k + 1] # 4
  BY DEF Collected
<1>2. ~HasCopy(t)
  BY <1>0, SetCharSteps DEF IInv, HasCopy
<1>3. ~HasCopy(t)'
  <2>1. Cur(t)' = Cur(t)
    BY <1>1 DEF Cur
  <2> QED
    BY <1>0, <1>1, <2>1 DEF HasCopy
<1>4. DOMAIN value' = Vars /\ \A v \in Strings : value'[v] = value[v]
  BY DEF IInv, TypeInv
<1> QED
  BY <1>1, <1>2, <1>3, <1>4, BuffersUntouched

LEMMA Leaves ==
  ASSUME IInv, UNCHANGED <<script, heap, fresh, copying>>,
         DOMAIN value' = Vars, \A v \in Strings : value'[v] = value[v],
         NEW t \in Threads, Active(t), t \notin copying, NEW i, GoTo(t, i),
         Cur(t).op # "SET_STR_CHAR"
  PROVE  IInv'
<1>1. OthersStay(t) /\ InPlan' /\ got'[t] = <<>>
  BY GoToMoves DEF IInv
<1>2. ~HasCopy(t) /\ ~HasCopy(t)'
  BY <1>1 DEF HasCopy
<1> QED
  BY <1>1, <1>2, BuffersUntouched

-----------------------------------------------------------------------------
(* The steps.                                                              *)
(* The steps that do nothing to the buffers.                               *)
LEMMA QuietSteps ==
  ASSUME IInv, NEW t \in Threads,
         \/ Reject(t) \/ Wait(t) \/ Lock(t) \/ Unlock(t) \/ Get(t) \/ Zero(t) \/ Branch(t)
         \/ Jump(t) \/ Sleep(t) \/ ReadFreed(t) \/ Fits(t) \/ Bounds(t) \/ Fetch(t)
         \/ Length(t) \/ Char(t) \/ PrintOut(t)
  PROVE  IInv'
<1> DEFINE plan == Plan(Cur(t))
           do == Now(t).do
<1>1. UNCHANGED <<script, value, heap, fresh, copying>>
  BY DEF Reject, Wait, Lock, Unlock, Get, Zero, Branch, Jump, Sleep, ReadFreed, Fits, Bounds,
         Fetch, Length, Char, PrintOut
<1>0. DOMAIN value' = Vars /\ \A v \in Strings : value'[v] = value[v]
  BY <1>1 DEF IInv, TypeInv
<1>2. CASE UNCHANGED <<ip, step, got>>
  BY <1>1, <1>2, Stays
<1>3. ASSUME ~(UNCHANGED <<ip, step, got>>)
      PROVE  Active(t) /\ t \notin copying
  <2>1. Active(t) /\ do # "set"
    BY <1>3 DEF Reject, Wait, Lock, Unlock, Get, Zero, Branch, Jump, Sleep, ReadFreed, Fits,
                Bounds, Fetch, Length, Char, PrintOut, At, Live, Runs, Awake, Active, Throw,
                BadRead
  <2> QED
    BY <2>1 DEF IInv, Copying
<1>4. ASSUME Active(t)
      PROVE  /\ do \in {"LOCK", "UNLOCK", "sleep", "jump", "print", "branch", "length", "char",
                       "zero", "fits", "fetch"} => Cur(t).op # "SET_STR_CHAR"
             /\ do = "char" => Len(plan) = 5
             /\ do \in {"get", "zero", "branch", "fits", "bounds", "fetch", "length"} =>
                  step[t] + 1 \in 1..Len(plan)
  BY <1>4, Running, Plans DEF IInv
<1>5. ASSUME NEW i, GoTo(t, i), do \in {"LOCK", "UNLOCK", "sleep", "jump", "print", "branch", "length"},
             ~(UNCHANGED <<ip, step, got>>)
      PROVE  IInv'
  BY <1>0, <1>1, <1>3, <1>4, <1>5, Leaves
<1>6. ASSUME NEW r, Go(t, r), do \in {"zero", "branch", "fits", "fetch", "length"},
             ~(UNCHANGED <<ip, step, got>>)
      PROVE  IInv'
  BY <1>1, <1>3, <1>4, <1>6, GoesOn
<1>7. ASSUME Get(t), ~(UNCHANGED <<ip, step, got>>) PROVE IInv'
  <2>1. PICK x : Go(t, Append(got[t], x))
    BY <1>7 DEF Get, Throw
  <2>2. do = "get"
    BY <1>7 DEF Get, At
  <2>3. ASSUME Cur(t).op = "SET_STR_CHAR"
        PROVE  /\ step[t] \in 1..4 /\ Listed(Append(got[t], x))
               /\ Len(Append(got[t], x)) = Collected[step[t] + 1]
    <3>1. step[t] \in 1..3 /\ Listed(got[t]) /\ Len(got[t]) = Collected[step[t]]
      BY <1>3, <1>7, <2>2, <2>3, SetCharSteps DEF IInv
    <3>2. Collected[step[t] + 1] = Collected[step[t]] + 1
      BY <3>1 DEF Collected
    <3> QED
      BY <3>1, <3>2, Grow
  <2> QED
    BY <1>1, <1>3, <1>4, <1>7, <2>1, <2>2, <2>3, GoesOn
<1>8. ASSUME Bounds(t), ~(UNCHANGED <<ip, step, got>>) PROVE IInv'
  <2>1. Go(t, got[t]) /\ do = "bounds"
    BY <1>8 DEF Bounds, Live, At, Throw
  <2>2. Cur(t).op = "SET_STR_CHAR" =>
          step[t] \in 1..4 /\ Listed(got[t]) /\ Len(got[t]) = Collected[step[t] + 1]
    BY <1>3, <1>8, <2>1, SetCharSteps DEF IInv, Collected
  <2> QED
    BY <1>1, <1>3, <1>4, <1>8, <2>1, <2>2, GoesOn
<1>9. ASSUME Char(t), ~(UNCHANGED <<ip, step, got>>) PROVE IInv'
  <2>1. do = "char"
    BY <1>9 DEF Char, Live, At
  <2>2. /\ ip' = ip
        /\ got' = [got EXCEPT ![t] = SubSeq(@, 1, 2)]
        /\ \E k \in {3, 5} : step' = [step EXCEPT ![t] = k]
    BY <1>9 DEF Char, BadRead
  <2>3. OthersStay(t)
    BY <2>2 DEF OthersStay, IInv, TypeInv
  <2>4. Cur(t)' = Cur(t) /\ (Active(t)' <=> Active(t)) /\ step'[t] \in {3, 5}
    BY <1>1, <2>2 DEF Cur, Active, IInv, TypeInv
  <2>5. Active(t) /\ Cur(t).op # "SET_STR_CHAR" /\ Len(plan) = 5
    BY <1>3, <1>4, <1>9, <2>1
  <2>6. Planned(t)'
    <3>1. Active(t)' /\ Cur(t)'.op # "SET_STR_CHAR" /\ step'[t] \in 1..Len(Plan(Cur(t)'))
      BY <2>4, <2>5
    <3> QED
      BY <3>1 DEF Planned, Active
  <2>7. InPlan'
    BY <1>1, <2>3, <2>6, OthersPlanned DEF IInv
  <2>8. ~HasCopy(t) /\ ~HasCopy(t)'
    BY <2>4, <2>5 DEF HasCopy
  <2> QED
    BY <1>0, <1>1, <1>3, <1>9, <2>3, <2>7, <2>8, BuffersUntouched
<1>10. CASE Lock(t) \/ Unlock(t) \/ Jump(t) \/ Sleep(t) \/ PrintOut(t)
  <2>1. UNCHANGED <<ip, step, got>> \/ \E i : GoTo(t, i)
    BY <1>10 DEF Lock, Unlock, Jump, Sleep, PrintOut, Finish, Throw
  <2>2. do \in {"LOCK", "UNLOCK", "sleep", "jump", "print"}
    BY <1>10 DEF Lock, Unlock, Jump, Sleep, PrintOut, At
  <2> QED
    BY <1>2, <1>5, <2>1, <2>2
<1>11. CASE Zero(t) \/ Branch(t) \/ Fits(t) \/ Fetch(t) \/ Length(t)
  <2>1. UNCHANGED <<ip, step, got>> \/ (\E r : Go(t, r))
          \/ (do \in {"branch", "length"} /\ \E i : GoTo(t, i))
    BY <1>11 DEF Zero, Branch, Fits, Fetch, Length, Finish, Throw, BadRead, At, Live
  <2>2. do \in {"zero", "branch", "fits", "fetch", "length"}
    BY <1>11 DEF Zero, Branch, Fits, Fetch, Length, At, Live
  <2> QED
    BY <1>2, <1>5, <1>6, <2>1, <2>2
<1>12. CASE Reject(t) \/ Wait(t) \/ ReadFreed(t)
  BY <1>2, <1>12 DEF Reject, Wait, ReadFreed, Throw, BadRead
<1> QED
  BY <1>2, <1>7, <1>8, <1>9, <1>10, <1>11, <1>12

(* A thread at a setter, and its variable.                                 *)
LEMMA SettersVariable ==
  ASSUME IInv, NEW t \in Threads, At(t, "set")
  PROVE  /\ Active(t) /\ Var(t) \in Vars
         /\ Now(t).as # "string" => Cur(t).op # "SET_STR_CHAR"
         /\ Now(t).as = "string" => Cur(t).op \in {"SET_STR_CHAR", "ASSIGN"}
         /\ ~Refused(t) => (Type[Var(t)] = "STRING" <=> Now(t).as = "string")
<1>1. Active(t) /\ Now(t).do = "set"
  BY DEF At, Runs, Awake, Active
<1>2. /\ Cur(t) \in Instruction /\ Now(t).arg \in 1..Len(Cur(t).args)
      /\ Now(t).as # "string" => Cur(t).op # "SET_STR_CHAR"
      /\ Now(t).as = "string" => Cur(t).op \in {"SET_STR_CHAR", "ASSIGN"}
  BY <1>1, Running, Plans DEF IInv
<1>3. Var(t) \in Vars
  BY <1>2 DEF Var, Instruction
<1>4. Refused(t) <=> (Var(t) \in Consts \/ ~Accepts(Type[Var(t)], Now(t).as))
  BY <1>1 DEF Refused
<1>5. Type[Var(t)] \in {"NUMERIC", "REAL", "CHAR", "STRING"}
  BY <1>3, DataAssumption
<1> QED
  BY <1>1, <1>2, <1>3, <1>4, <1>5 DEF Accepts

(* A number or a character is not an address.                              *)
LEMMA SetStep ==
  ASSUME IInv, NEW t \in Threads, Set(t)
  PROVE  IInv'
<1>1. UNCHANGED <<script, heap, fresh, copying>> /\ At(t, "set") /\ Now(t).as # "string"
  BY DEF Set
<1>2. CASE Refused(t)
  BY <1>1, <1>2, Stays DEF Set, Throw
<1>3. CASE ~Refused(t)
  <2>1. PICK y : value' = [value EXCEPT ![Var(t)] = y]
    BY <1>3 DEF Set
  <2>2. GoTo(t, ip[t] + 1)
    BY <1>3 DEF Set, Finish
  <2>3. Var(t) \notin Strings /\ Cur(t).op # "SET_STR_CHAR" /\ Active(t)
    BY <1>1, <1>3, SettersVariable DEF Strings
  <2>4. DOMAIN value' = Vars /\ \A v \in Strings : value'[v] = value[v]
    BY <2>1, <2>3 DEF IInv, TypeInv, Strings
  <2>5. t \notin copying
    BY <1>1 DEF IInv, Copying
  <2> QED
    BY <1>1, <2>2, <2>3, <2>4, <2>5, Leaves
<1> QED
  BY <1>2, <1>3

(* doDelete frees the variable's buffer, and the variable has none until   *)
(* Replace.                                                                *)
LEMMA FreeStep ==
  ASSUME IInv, NEW t \in Threads, Free(t)
  PROVE  IInv'
<1>1. At(t, "set") /\ Now(t).as = "string" /\ t \notin copying /\ UNCHANGED <<script, value, fresh>>
  BY DEF Free
<1>2. CASE Refused(t)
  BY <1>1, <1>2, Stays DEF Free, Throw
<1>3. CASE ~Refused(t)
  <2> DEFINE v == Var(t)
  <2>1. /\ Open(t, v) /\ copying' = copying \cup {t} /\ UNCHANGED <<ip, step, got>>
        /\ heap' = Restrict(heap, DOMAIN heap \ {value[v]})
    BY <1>3 DEF Free
  <2>2. v \in Strings /\ Active(t) /\ Now(t).do = "set"
    BY <1>1, <1>3, SettersVariable DEF Strings, At
  <2>3. DOMAIN heap' = DOMAIN heap \ {value[v]}
    BY <2>1 DEF Restrict
  <2>4. \A u : (Active(u)' <=> Active(u)) /\ Cur(u)' = Cur(u) /\ Now(u)' = Now(u)
               /\ Var(u)' = Var(u) /\ (HasCopy(u)' <=> HasCopy(u)) /\ got'[u] = got[u]
    BY <1>1, <2>1 DEF Active, Cur, Now, Var, HasCopy
  <2>5. TypeInv' /\ InPlan'
    BY <1>1, <2>1, <2>4 DEF IInv, TypeInv, InPlan, Active, Cur
  <2>6. Copying'
    BY <1>1, <2>1, <2>2, <2>4 DEF IInv, Copying, Open, MutexFree
  <2>7. Private'
    BY <1>1, <2>3, <2>4 DEF IInv, Private
  <2>8. \A a : Held(a) => Held(a)'
    BY <1>1, <2>1 DEF Held, Cur
  <2>9. \A u \in Strings : u # v => value[u] # value[v]
    BY <2>2 DEF IInv, BuffersPrivate
  <2>10. BuffersPrivate'
    <3>1. \A a \in DOMAIN heap' : Held(a)'
      BY <2>3, <2>8 DEF IInv, BuffersPrivate
    <3>2. \A w \in Strings :
            value[w] \in DOMAIN heap' <=> ~\E u \in copying \cup {t} : Var(u) = w
      BY <2>2, <2>3, <2>9 DEF IInv, BuffersPrivate
    <3> QED
      BY <1>1, <2>1, <2>4, <3>1, <3>2 DEF IInv, BuffersPrivate
  <2> QED
    BY <2>5, <2>6, <2>7, <2>10 DEF IInv
<1> QED
  BY <1>2, <1>3

(* set gives the variable a buffer that nobody has.                        *)
LEMMA ReplaceStep ==
  ASSUME IInv, NEW t \in Threads, Replace(t)
  PROVE  IInv'
<1> DEFINE v == Var(t)
           p == got[t][Len(got[t])]
<1>1. t \in copying /\ UNCHANGED script
  BY DEF Replace
<1>2. CASE p \notin DOMAIN heap
  BY <1>2, Stays DEF Replace, BadRead
<1>3. CASE p \in DOMAIN heap
  <2>1. NewBuffer(v, p) /\ copying' = copying \ {t}
    BY <1>3 DEF Replace
  <2>2. Active(t) /\ Now(t).do = "set" /\ Now(t).as = "string" /\ v \in Strings
    BY <1>1 DEF IInv, Copying
  <2>3. (/\ Cur(t).op = "ASSIGN" /\ GoTo(t, ip[t] + 1))
          \/ (Cur(t).op = "SET_STR_CHAR" /\ Go(t, got[t]))
    <3>1. Cur(t).op \in {"SET_STR_CHAR", "ASSIGN"}
      BY <2>2, Running, Plans DEF IInv
    <3> QED
      BY <1>3, <3>1 DEF Replace, Finish
  <2>4. /\ OthersStay(t) /\ InPlan' /\ (HasCopy(t)' <=> HasCopy(t))
        /\ HasCopy(t) => got'[t] = got[t]
    <3>1. CASE Cur(t).op = "ASSIGN" /\ GoTo(t, ip[t] + 1)
      <4>1. OthersStay(t) /\ InPlan' /\ got'[t] = <<>>
        BY <1>1, <3>1, GoToMoves DEF IInv
      <4>2. ~HasCopy(t) /\ ~HasCopy(t)'
        BY <3>1, <4>1 DEF HasCopy
      <4> QED
        BY <4>1, <4>2
    <3>2. CASE Cur(t).op = "SET_STR_CHAR" /\ Go(t, got[t])
      <4>0. /\ step[t] = 6 /\ Len(Plan(Cur(t))) = 7 /\ Listed(got[t])
            /\ Len(got[t]) = Collected[step[t]]
        BY <2>2, <3>2, SetCharSteps DEF IInv
      <4>1. /\ step[t] + 1 \in 1..Len(Plan(Cur(t))) /\ Listed(got[t])
            /\ Len(got[t]) = Collected[step[t] + 1]
        BY <4>0 DEF Collected
      <4>2. OthersStay(t) /\ InPlan' /\ got'[t] = got[t] /\ ip' = ip
        BY <1>1, <2>2, <3>2, <4>1, GoMoves DEF IInv
      <4> QED
        BY <1>1, <4>2 DEF HasCopy, Cur
    <3> QED
      BY <2>3, <3>1, <3>2
  <2>5. /\ DOMAIN heap' = DOMAIN heap \cup {fresh} /\ fresh' = fresh + 1
        /\ value' = [value EXCEPT ![v] = fresh]
    BY <2>1 DEF NewBuffer
  <2>6. /\ fresh \in Nat /\ DOMAIN value' = Vars /\ value'[v] = fresh
        /\ \A w \in Strings : w # v => value'[w] = value[w]
    BY <2>2, <2>5 DEF IInv, TypeInv, Strings
  <2>7. TypeInv'
    BY <1>1, <2>1, <2>4, <2>5, <2>6 DEF IInv, TypeInv, OthersStay
  <2>8. \A u \in copying \ {t} :
          /\ u \in Threads /\ (Active(u)' <=> Active(u)) /\ Now(u)' = Now(u)
          /\ Var(u)' = Var(u) /\ Var(u) # v
    BY <1>1, <2>4, OtherCopies DEF IInv, TypeInv, Copying
  <2>9. Copying'
    BY <2>1, <2>8 DEF IInv, Copying
  <2>10. \A u \in Threads : (HasCopy(u)' <=> HasCopy(u)) /\ (HasCopy(u) => got'[u] = got[u])
    BY <1>1, <2>4, OtherCopies
  <2>11. Private'
    <3>1. \A w \in Strings : value'[w] \in Nat /\ value'[w] < fresh + 1
      BY <2>6 DEF IInv, Private
    <3>2. \A a \in DOMAIN heap \cup {fresh} : a \in Nat /\ a < fresh + 1
      BY <2>6 DEF IInv, Private
    <3>3. ASSUME NEW u \in Threads, HasCopy(u)
          PROVE  /\ got[u][4] \in Nat /\ got[u][4] < fresh + 1
                 /\ \A w \in Strings : got[u][4] # value'[w]
      <4>1. got[u][4] \in Nat /\ got[u][4] < fresh /\ \A w \in Strings : got[u][4] # value[w]
        BY <3>3 DEF IInv, Private
      <4> QED
        BY <2>6, <4>1
    <3> QED
      BY <2>5, <2>10, <3>1, <3>2, <3>3 DEF Private
  <2>12. \A w \in Strings : w # v => value[w] # fresh /\ value[w] # value[v]
    BY <2>2, <2>6 DEF IInv, Private, BuffersPrivate
  <2>13. \A u, w \in Strings : u # w => value'[u] # value'[w]
    BY <2>6, <2>12 DEF IInv, BuffersPrivate
  <2>14. \A w \in Strings : value'[w] \in DOMAIN heap' <=> ~\E u \in copying' : Var(u)' = w
    <3>1. \A w \in Strings : w # v =>
            (value[w] \in DOMAIN heap <=> ~\E u \in copying \ {t} : Var(u) = w)
      BY DEF IInv, BuffersPrivate
    <3>2. \A u \in copying' : Var(u)' = Var(u) /\ Var(u) # v
      BY <2>1, <2>8
    <3> QED
      BY <2>1, <2>5, <2>6, <2>12, <3>1, <3>2
  <2>15. ASSUME NEW a \in DOMAIN heap' PROVE Held(a)'
    <3>1. CASE a = fresh
      BY <2>2, <2>6, <3>1 DEF Held
    <3>2. CASE a # fresh
      <4>1. a \in DOMAIN heap
        BY <2>5, <3>2
      <4>2. a # value[v]
        BY <1>1, <2>2, <4>1 DEF IInv, BuffersPrivate
      <4>3. (\E w \in Strings : value[w] = a) \/ (\E u \in Threads : HasCopy(u) /\ got[u][4] = a)
        BY <4>1 DEF IInv, BuffersPrivate, Held, HasCopy
      <4>4. CASE \E w \in Strings : value[w] = a
        BY <2>6, <4>2, <4>4 DEF Held
      <4>5. CASE \E u \in Threads : HasCopy(u) /\ got[u][4] = a
        BY <2>10, <4>5 DEF Held, HasCopy
      <4> QED
        BY <4>3, <4>4, <4>5
    <3> QED
      BY <3>1, <3>2
  <2>16. BuffersPrivate'
    BY <2>13, <2>14, <2>15 DEF BuffersPrivate
  <2> QED
    BY <2>4, <2>7, <2>9, <2>11, <2>16 DEF IInv
<1> QED
  BY <1>2, <1>3

(* SET_STR_CHAR allocates its copy.                                        *)
LEMMA CopyStep ==
  ASSUME IInv, NEW t \in Threads, Copy(t)
  PROVE  IInv'
<1>1. UNCHANGED <<script, value, copying>> /\ Active(t) /\ Now(t).do = "copy" /\ t \notin copying
  <2>1. UNCHANGED <<script, value, copying>> /\ Active(t) /\ Now(t).do = "copy"
    BY DEF Copy, Live, At, Runs, Awake, Active
  <2> QED
    BY <2>1 DEF IInv, Copying
<1>2. CASE UNCHANGED <<heap, fresh, ip, step, got>>
  BY <1>1, <1>2, Stays
<1>3. CASE /\ DOMAIN heap' = DOMAIN heap \cup {fresh} /\ fresh' = fresh + 1
           /\ Go(t, Append(got[t], fresh))
  <2>1. Cur(t).op = "SET_STR_CHAR"
    BY <1>1, Running, Plans DEF IInv
  <2>0. /\ step[t] = 5 /\ Len(Plan(Cur(t))) = 7 /\ Listed(got[t])
        /\ Len(got[t]) = Collected[step[t]]
    BY <1>1, <2>1, SetCharSteps DEF IInv
  <2>2. /\ step[t] + 1 \in 1..Len(Plan(Cur(t))) /\ Listed(got[t]) /\ Len(got[t]) = 3
        /\ Collected[step[t] + 1] = 4
    BY <2>0 DEF Collected
  <2>3. /\ Listed(Append(got[t], fresh)) /\ Len(Append(got[t], fresh)) = 4
        /\ Append(got[t], fresh)[4] = fresh
    <3>1. /\ Listed(Append(got[t], fresh)) /\ Len(Append(got[t], fresh)) = Len(got[t]) + 1
          /\ Append(got[t], fresh)[Len(got[t]) + 1] = fresh
      BY <2>2, Grow
    <3> QED
      BY <2>2, <3>1
  <2>5. OthersStay(t) /\ InPlan' /\ got'[t] = Append(got[t], fresh) /\ ip' = ip
    BY <1>1, <1>3, <2>2, <2>3, GoMoves DEF IInv
  <2>6. ~HasCopy(t) /\ HasCopy(t)' /\ got'[t][4] = fresh
    BY <1>1, <2>1, <2>2, <2>3, <2>5 DEF HasCopy, Cur, Active
  <2>7. TypeInv'
    BY <1>1, <1>3, <2>5 DEF IInv, TypeInv, OthersStay
  <2>8. \A u \in copying : u \in Threads \ {t}
    BY <1>1 DEF IInv, TypeInv
  <2>9. \A u \in Threads \ {t} :
          /\ HasCopy(u)' <=> HasCopy(u)
          /\ got'[u] = got[u] /\ (Active(u)' <=> Active(u))
          /\ Cur(u)' = Cur(u) /\ Now(u)' = Now(u) /\ Var(u)' = Var(u)
    BY <1>1, <2>5, OtherCopies
  <2>10. Copying'
    BY <1>1, <2>8, <2>9 DEF IInv, Copying
  <2>11. fresh \in Nat
    BY DEF IInv, TypeInv
  <2>12. Private'
    <3>1. \A w \in Strings : value[w] \in Nat /\ value[w] < fresh + 1 /\ fresh # value[w]
      BY <2>11 DEF IInv, Private
    <3>2. \A a \in DOMAIN heap \cup {fresh} : a \in Nat /\ a < fresh + 1
      BY <2>11 DEF IInv, Private
    <3>3. ASSUME NEW u \in Threads, HasCopy(u)'
          PROVE  /\ got'[u][4] \in Nat /\ got'[u][4] < fresh + 1
                 /\ \A w \in Strings : got'[u][4] # value[w]
      <4>1. CASE u = t
        BY <2>6, <2>11, <3>1, <4>1
      <4>2. CASE u # t
        <5>1. got[u][4] \in Nat /\ got[u][4] < fresh /\ \A w \in Strings : got[u][4] # value[w]
          BY <2>9, <3>3, <4>2 DEF IInv, Private
        <5> QED
          BY <2>9, <2>11, <4>2, <5>1
      <4> QED
        BY <4>1, <4>2
    <3> QED
      BY <1>1, <1>3, <3>1, <3>2, <3>3 DEF Private
  <2>13. ASSUME NEW a \in DOMAIN heap' PROVE Held(a)'
    <3>1. CASE a = fresh
      BY <2>6, <3>1 DEF Held, HasCopy
    <3>2. CASE a # fresh
      <4>1. (\E w \in Strings : value[w] = a) \/ (\E u \in Threads : HasCopy(u) /\ got[u][4] = a)
        BY <1>3, <3>2 DEF IInv, BuffersPrivate, Held, HasCopy
      <4>2. CASE \E w \in Strings : value[w] = a
        BY <1>1, <4>2 DEF Held
      <4>3. CASE \E u \in Threads : HasCopy(u) /\ got[u][4] = a
        <5>1. PICK u \in Threads : HasCopy(u) /\ got[u][4] = a
          BY <4>3
        <5>2. HasCopy(u)' /\ got'[u][4] = a
          BY <2>6, <2>9, <5>1
        <5> QED
          BY <5>2 DEF Held, HasCopy
      <4> QED
        BY <4>1, <4>2, <4>3
    <3> QED
      BY <3>1, <3>2
  <2>14. \A w \in Strings : value[w] \in DOMAIN heap' <=> ~\E u \in copying : Var(u)' = w
    <3>1. \A w \in Strings : value[w] # fresh
      BY <2>11 DEF IInv, Private
    <3> QED
      BY <1>3, <2>8, <2>9, <3>1 DEF IInv, BuffersPrivate
  <2>15. BuffersPrivate'
    BY <1>1, <2>13, <2>14 DEF IInv, BuffersPrivate
  <2> QED
    BY <2>5, <2>7, <2>10, <2>12, <2>15 DEF IInv
<1> QED
  BY <1>2, <1>3 DEF Copy, BadRead

(* SET_STR_CHAR frees its copy, which no variable has.                     *)
LEMMA FreeCopyStep ==
  ASSUME IInv, NEW t \in Threads, FreeCopy(t)
  PROVE  IInv'
<1>1. /\ UNCHANGED <<script, value, fresh, copying>> /\ Active(t) /\ Now(t).do = "free"
      /\ GoTo(t, ip[t] + 1) /\ t \notin copying
  <2>1. /\ UNCHANGED <<script, value, fresh, copying>> /\ Active(t) /\ Now(t).do = "free"
        /\ GoTo(t, ip[t] + 1)
    BY DEF FreeCopy, At, Runs, Awake, Active, Finish
  <2> QED
    BY <2>1 DEF IInv, Copying
<1> DEFINE c == got[t][4]
<1>2. DOMAIN heap' = DOMAIN heap \ {c}
  BY DEF FreeCopy, Restrict
<1>3. HasCopy(t)
  <2>1. Cur(t).op = "SET_STR_CHAR"
    BY <1>1, Running, Plans DEF IInv
  <2>2. step[t] = 7 /\ Len(got[t]) = Collected[step[t]]
    BY <1>1, <2>1, SetCharSteps DEF IInv
  <2>3. Len(got[t]) = 4
    BY <2>2 DEF Collected
  <2> QED
    BY <1>1, <2>1, <2>3 DEF HasCopy, Active
<1>4. OthersStay(t) /\ InPlan' /\ got'[t] = <<>>
  BY <1>1, GoToMoves DEF IInv
<1>5. ~HasCopy(t)'
  BY <1>4 DEF HasCopy
<1>6. TypeInv'
  BY <1>1, <1>4 DEF IInv, TypeInv, OthersStay
<1>7. \A u \in Threads \ {t} :
        /\ HasCopy(u)' <=> HasCopy(u)
        /\ got'[u] = got[u] /\ (Active(u)' <=> Active(u))
        /\ Cur(u)' = Cur(u) /\ Now(u)' = Now(u) /\ Var(u)' = Var(u)
  BY <1>1, <1>4, OtherCopies
<1>8. \A u \in copying : u \in Threads \ {t}
  BY <1>1 DEF IInv, TypeInv
<1>9. Copying'
  BY <1>1, <1>7, <1>8 DEF IInv, Copying
<1>10. Private'
  <2>1. \A u \in Threads : HasCopy(u)' => HasCopy(u) /\ got'[u] = got[u]
    BY <1>5, <1>7
  <2> QED
    BY <1>1, <1>2, <2>1 DEF IInv, Private
<1>11. \A w \in Strings : value[w] # c
  BY <1>3 DEF IInv, Private
<1>12. \A w \in Strings : value[w] \in DOMAIN heap' <=> ~\E u \in copying : Var(u)' = w
  BY <1>2, <1>7, <1>8, <1>11 DEF IInv, BuffersPrivate
<1>13. ASSUME NEW a \in DOMAIN heap' PROVE Held(a)'
  <2>1. (\E w \in Strings : value[w] = a)
          \/ (\E u \in Threads \ {t} : HasCopy(u) /\ got[u][4] = a)
    BY <1>2 DEF IInv, BuffersPrivate, Held, HasCopy
  <2>2. CASE \E w \in Strings : value[w] = a
    BY <1>1, <2>2 DEF Held
  <2>3. CASE \E u \in Threads \ {t} : HasCopy(u) /\ got[u][4] = a
    <3>1. PICK u \in Threads \ {t} : HasCopy(u) /\ got[u][4] = a
      BY <2>3
    <3>2. HasCopy(u)' /\ got'[u][4] = a
      BY <1>7, <3>1
    <3> QED
      BY <3>2 DEF Held, HasCopy
  <2> QED
    BY <2>1, <2>2, <2>3
<1>14. BuffersPrivate'
  BY <1>1, <1>12, <1>13 DEF IInv, BuffersPrivate
<1> QED
  BY <1>4, <1>6, <1>9, <1>10, <1>14 DEF IInv

LEMMA InitIInv == Init => IInv
<1> SUFFICES ASSUME Init PROVE IInv
  OBVIOUS
<1>1. PICK s \in Starts : /\ script = s.script /\ value = s.value /\ heap = s.heap
                          /\ fresh = Len(s.heap) + 1
  BY DEF Init
<1>2. /\ s.script \in [Threads -> Seq(Instruction)]
      /\ DOMAIN s.value = Vars
      /\ Len(s.heap) \in Nat /\ DOMAIN s.heap = 1..Len(s.heap)
      /\ DOMAIN s.heap = {s.value[v] : v \in Strings}
      /\ \A u, v \in Strings : s.value[u] = s.value[v] => u = v
  BY DataAssumption
<1>3. TypeInv
  BY <1>1, <1>2 DEF Init, TypeInv
<1>4. \A t \in Threads : got[t] = <<>> /\ step[t] = 1
  BY DEF Init
<1>5. InPlan
  <2> SUFFICES ASSUME NEW t \in Threads PROVE Planned(t)
    BY DEF InPlan, Planned
  <2>1. Active(t) => Cur(t) \in Instruction /\ ~Misused(Cur(t))
    BY <1>3 DEF TypeInv, Active, Cur
  <2>2. Active(t) => 1 \in 1..Len(Plan(Cur(t)))
    BY <2>1, PlanNotEmpty
  <2>3. Listed(<<>>) /\ Len(<<>>) = 0 /\ Collected[1] = 0
    BY DEF Listed, Collected
  <2> QED
    BY <1>4, <2>2, <2>3 DEF Planned
<1>6. copying = {}
  BY DEF Init
<1>7. \A t \in Threads : ~HasCopy(t)
  BY <1>4 DEF HasCopy
<1>8. \A v \in Strings : value[v] \in 1..Len(s.heap)
  BY <1>1, <1>2
<1>9. Private
  BY <1>1, <1>2, <1>7, <1>8 DEF Private
<1>10. BuffersPrivate
  BY <1>1, <1>2, <1>6 DEF BuffersPrivate, Held
<1> QED
  BY <1>3, <1>5, <1>6, <1>9, <1>10 DEF IInv, Copying

(* Each buffer has a holder, whoever runs what.                            *)
THEOREM Invariance == Spec => []IInv
<1>1. IInv /\ [Next]_vars => IInv'
  <2> SUFFICES ASSUME IInv, [Next]_vars PROVE IInv'
    OBVIOUS
  <2>1. ASSUME NEW t \in Threads, Step(t) PROVE IInv'
    BY <2>1, QuietSteps, CopyStep, SetStep, FreeStep, ReplaceStep, FreeCopyStep DEF Step
  <2>2. CASE UNCHANGED vars
    BY <2>2, Stays DEF vars
  <2> QED
    BY <2>1, <2>2 DEF Next
<1> QED
  BY <1>1, InitIInv, PTL DEF Spec

(* STRING variables never share a buffer, with LOCK or without; none is    *)
(* freed twice and none is left without a holder (VarString::set).         *)
THEOREM NobodySharesBuffers == Spec => []BuffersPrivate
<1>1. IInv => BuffersPrivate
  BY DEF IInv
<1> QED
  BY <1>1, Invariance, PTL

-----------------------------------------------------------------------------
(* What LOCK is for.                                                       *)

(* The programs for which it works: of every variable that is not constant *)
(* at most two threads make use, and two that do have no jumps.            *)
Jumping == {"JMP"} \cup Tests \cup Comparisons
TwoSharersNoJumps ==
  \A s \in Starts : \A v \in Vars \ Consts :
    LET users == {t \in Threads : \E i \in 1..Len(s.script[t]) :
                    \E k \in 1..Len(s.script[t][i].args) : s.script[t][i].args[k] = v}
    IN /\ \A t, u, w \in users : t = u \/ u = w \/ t = w
       /\ \A t, u \in users : t # u =>
            \A i \in 1..Len(s.script[t]) : s.script[t][i].op \notin Jumping

(* A thread is inside a variable between its first and its last use, and   *)
(* has given it up behind the last.                                        *)
Users(v) == {t \in Threads : Uses(t, v) # {}}
Shared(v) == v \in Vars \ Consts /\ \E t, u \in Users(v) : t # u
Inside(t, v) ==
  (\E i \in Uses(t, v) : i < ip[t]) /\ (\E j \in Uses(t, v) : ip[t] <= j)
GaveUp(t, v) == t \in Users(v) /\ \A j \in Uses(t, v) : j < ip[t]

Pairs ==
  \A v \in Vars \ Consts :
    /\ \A t, u, w \in Users(v) : t = u \/ u = w \/ t = w
    /\ \A t, u \in Users(v) : t # u =>
         \A i \in 1..Len(script[t]) : script[t][i].op \notin Jumping

(* Who waits, waits in front of an access; who was woken on a variable,    *)
(* was woken by one that gave it up.                                       *)
AtGate(t) == Active(t) /\ t \notin copying /\ Now(t).do \in {"get", "set", "LOCK"}
Waiting ==
  /\ DOMAIN owner = Vars /\ DOMAIN asleep = Vars /\ DOMAIN text = Threads
  /\ \A v \in Vars : \A t \in asleep[v] : t \in Threads /\ AtGate(t) /\ Var(t) = v
  /\ \A t \in woken : t \in Threads /\ AtGate(t)

Owning ==
  /\ \A v \in Vars : Shared(v) => \A t \in Users(v) :
       /\ ip[t] \in Nat
       /\ Inside(t, v) => owner[v] = t
  /\ \A t \in woken : Shared(Var(t)) => \E u \in Threads \ {t} : GaveUp(u, Var(t))

(* Buffers hold texts, and copies belong to one thread each.               *)
Buffered ==
  /\ \A a \in DOMAIN heap : Listed(heap[a])
  /\ \A t, u \in Threads :
       HasCopy(t) /\ HasCopy(u) /\ got[t][4] = got[u][4] => t = u
  /\ \A t \in copying : Var(t) \notin Consts

(* How much a thread has read before each step, what it has read is as it  *)
(* was, and what it has tested, copied or converted fits it.               *)
ReadsString(ins) ==
  \/ ins.op \in {"SET_STR_CHAR", "GET_STR_CHAR", "OUT"}
  \/ ins.op = "ASSIGN" /\ Type[ins.args[1]] = "STRING"
Source(ins) == ins.args[IF ins.op = "ASSIGN" THEN 2 ELSE 1]
Gathered(op) ==
  CASE op = "SET_STR_CHAR" -> Collected
    [] op = "GET_STR_CHAR" -> <<0, 1, 2, 2, 3>>
    [] op = "OUT" -> <<0, 1, 2, 3, 2>>
    [] op = "ASSIGN" -> <<0, 1, 1>>

PointerKept(t, v) ==
  /\ Listed(got[t]) /\ Len(got[t]) = Gathered(Cur(t).op)[step[t]]
  /\ step[t] \in 2..6 => Type[v] = "STRING" /\ got[t][1] = value[v]
Tested(t, s) ==
  /\ Cur(t).op = "GET_STR_CHAR" /\ step[t] = 4 => got[t][2] \in 0..Len(s) - 1
  /\ Cur(t).op = "SET_STR_CHAR" /\ step[t] \in 5..6 /\ t \notin copying =>
       got[t][2] \in 0..Len(s) - 1
Edits(t, s) ==
  Cur(t).op = "SET_STR_CHAR" =>
    /\ step[t] \in 3..6 => got[t][2] \in Read(Cur(t).args[2], "int")
    /\ step[t] \in 4..6 => got[t][3] \in Read(Cur(t).args[3], "char")
    /\ step[t] \in 6..7 => got[t][4] \in DOMAIN heap
    /\ step[t] = 6 /\ t \notin copying =>
         heap[got[t][4]] = [s EXCEPT ![got[t][2] + 1] = got[t][3]]
Prints(t, v, s) ==
  Cur(t).op = "OUT" =>
    /\ Listed(text[t])
    /\ step[t] \in 1..2 => text[t] = <<>>
    /\ step[t] \in 3..4 =>
         /\ got[t][2] = Len(s) /\ Len(text[t]) < Len(s)
         /\ \A i \in 1..Len(text[t]) : text[t][i] = s[i]
    /\ step[t] = 4 => got[t][3] = value[v]
    /\ step[t] = 5 => text[t] = s

Reads(t) ==
  Active(t) /\ ReadsString(Cur(t)) =>
    LET v == Source(Cur(t))
        s == heap[value[v]]
    IN PointerKept(t, v) /\ Tested(t, s) /\ Edits(t, s) /\ Prints(t, v, s)

SafeInv ==
  /\ IInv /\ Pairs /\ Waiting /\ Buffered
  /\ Guarded => sane /\ Owning /\ \A t \in Threads : Reads(t)

-----------------------------------------------------------------------------
(* Who uses what.                                                          *)

LEMMA ScriptKept ==
  ASSUME script' = script
  PROVE  /\ Guarded' <=> Guarded
         /\ Pairs' <=> Pairs
         /\ \A v : (Shared(v)' <=> Shared(v)) /\ Users(v)' = Users(v)
         /\ \A t, v : Uses(t, v)' = Uses(t, v)
<1>1. \A t, v : Uses(t, v)' = Uses(t, v)
  BY DEF Uses
<1>2. \A v : Users(v)' = Users(v)
  BY <1>1 DEF Users
<1>3. \A v : Shared(v)' <=> Shared(v)
  BY <1>2 DEF Shared
<1>4. Pairs' <=> Pairs
  BY <1>2 DEF Pairs
<1>5. \A t, v : LocksAround(t, v)' <=> LocksAround(t, v)
  BY <1>1 DEF LocksAround
<1>6. Guarded' <=> Guarded
  BY <1>1, <1>5 DEF Guarded
<1> QED
  BY <1>1, <1>2, <1>3, <1>4, <1>6

(* Two threads that share a variable lock it around their uses.            *)
LEMMA SharersLock ==
  ASSUME Guarded, Pairs, NEW v, Shared(v)
  PROVE  /\ v \in Vars
         /\ \A t \in Threads : LocksAround(t, v)
         /\ \A t \in Users(v) : \A i \in 1..Len(script[t]) : script[t][i].op \notin Jumping
<1>1. PICK t \in Users(v), u \in Users(v) : t # u
  BY DEF Shared
<1>2. v \in Vars \ Consts
  BY DEF Shared
<1>3. \A w \in Users(v) : w = t \/ w = u
  BY <1>1, <1>2 DEF Pairs
<1>4. Users(v) = {t} \cup {u}
  BY <1>1, <1>3
<1>5. Cardinality(Users(v)) = 2
  <2>1. IsFiniteSet({t}) /\ Cardinality({t}) = 1
    BY FS_Singleton
  <2>2. Cardinality({t} \cup {u}) = Cardinality({t}) + 1
    BY <1>1, <2>1, FS_AddElement
  <2> QED
    BY <1>4, <2>1, <2>2
<1>6. \A w \in Threads : LocksAround(w, v)
  BY <1>2, <1>5 DEF Guarded, Users
<1>7. \A w \in Users(v) : \A i \in 1..Len(script[w]) : script[w][i].op \notin Jumping
  <2>1. ASSUME NEW w \in Users(v), NEW x \in Users(v), w # x, NEW i \in 1..Len(script[w])
        PROVE  script[w][i].op \notin Jumping
    BY <1>2, <2>1 DEF Pairs
  <2> QED
    BY <1>1, <1>3, <2>1
<1> QED
  BY <1>2, <1>6, <1>7

LEMMA FirstUse ==
  ASSUME TypeInv, NEW t \in Threads, NEW v, Uses(t, v) # {}
  PROVE  \E i \in Uses(t, v) : \A j \in Uses(t, v) : i <= j
<1>1. Uses(t, v) \subseteq Nat
  BY DEF Uses
<1> QED
  BY <1>1, LeastNat

(* At a use that is not its LOCK a thread is inside the variable.          *)
LEMMA UseIsInside ==
  ASSUME TypeInv, Guarded, Pairs, NEW v, Shared(v), NEW t \in Threads,
         ip[t] \in Uses(t, v), Cur(t).op # "LOCK"
  PROVE  Inside(t, v) /\ t \in Users(v)
<1>1. PICK i \in Uses(t, v) : \A j \in Uses(t, v) : i <= j
  BY FirstUse
<1>2. script[t][i].op = "LOCK"
  BY <1>1, SharersLock DEF LocksAround
<1>3. i <= ip[t] /\ i # ip[t]
  BY <1>1, <1>2 DEF Cur
<1>4. i \in Nat /\ ip[t] \in Nat
  BY DEF Uses
<1> QED
  BY <1>3, <1>4 DEF Inside, Users

LEMMA LastUse ==
  ASSUME Guarded, Pairs, NEW v, Shared(v), NEW t \in Threads,
         ip[t] \in Uses(t, v), Cur(t).op = "UNLOCK"
  PROVE  \A j \in Uses(t, v) : j <= ip[t] /\ j \in Nat /\ ip[t] \in Nat
<1>1. script[t][ip[t]].op = "UNLOCK"
  BY DEF Cur
<1>2. \A j \in Uses(t, v) : j <= ip[t]
  BY <1>1, SharersLock DEF LocksAround
<1>3. \A j \in Uses(t, v) : j \in Nat
  BY DEF Uses
<1> QED
  BY <1>2, <1>3

(* While one thread is at such a use, no other is.                         *)
LEMMA Exclusive ==
  ASSUME TypeInv, Guarded, Pairs, Owning, NEW v \in Vars \ Consts,
         NEW t \in Threads, NEW u \in Threads,
         ip[t] \in Uses(t, v), ip[u] \in Uses(u, v),
         Cur(t).op # "LOCK", Cur(u).op # "LOCK"
  PROVE  t = u
<1> SUFFICES ASSUME t # u PROVE FALSE
  OBVIOUS
<1>1. Shared(v)
  BY DEF Shared, Users
<1>2. Inside(t, v) /\ t \in Users(v)
  BY <1>1, UseIsInside
<1>3. Inside(u, v) /\ u \in Users(v)
  BY <1>1, UseIsInside
<1> QED
  BY <1>1, <1>2, <1>3 DEF Owning

-----------------------------------------------------------------------------
(* What a step may change.                                                 *)

LEMMA OnlyMoves ==
  ASSUME NEW t \in Threads, Step(t)
  PROVE  /\ script' = script /\ Awake(t)
         /\ \/ UNCHANGED <<ip, step, got, text>>
            \/ Active(t) /\ \E i : GoTo(t, i) /\ (i = ip[t] + 1 \/ Now(t).do = "jump")
            \/ Active(t) /\ \E r : Go(t, r)
            \/ Active(t) /\ Char(t) /\ sane' = sane
<1>1. CASE Reject(t) \/ Wait(t) \/ ReadFreed(t)
  BY <1>1 DEF Reject, Wait, ReadFreed, Throw, BadRead, Runs
<1>2. CASE Lock(t) \/ Unlock(t) \/ Jump(t) \/ Sleep(t) \/ PrintOut(t) \/ FreeCopy(t)
  BY <1>2 DEF Lock, Unlock, Jump, Sleep, PrintOut, FreeCopy, Finish, Throw, At, Runs, Awake, Active
<1>3. CASE Get(t) \/ Zero(t) \/ Branch(t) \/ Length(t) \/ Fits(t) \/ Bounds(t)
  BY <1>3 DEF Get, Zero, Branch, Length, Fits, Bounds, Finish, Throw, Live, At, Runs, Awake, Active
<1>4. CASE Copy(t) \/ Fetch(t)
  BY <1>4 DEF Copy, Fetch, BadRead, Live, At, Runs, Awake, Active
<1>5. CASE Char(t)
  BY <1>5 DEF Char, BadRead, Live, At, Runs, Awake, Active
<1>6. CASE Set(t) \/ Free(t) \/ Replace(t)
  BY <1>6 DEF Set, Free, Replace, BadRead, Finish, Throw, At, Runs, Awake, Active
<1> QED
  BY <1>1, <1>2, <1>3, <1>4, <1>5, <1>6 DEF Step

LEMMA Frame ==
  ASSUME IInv, DOMAIN text = Threads, NEW t \in Threads, Step(t)
  PROVE  /\ script' = script /\ Awake(t) /\ OthersStay(t)
         /\ DOMAIN text' = Threads /\ \A u \in Threads \ {t} : text'[u] = text[u]
         /\ ip'[t] # ip[t] =>
              Active(t) /\ (ip'[t] = ip[t] + 1 \/ Now(t).do = "jump")
<1>1. CASE UNCHANGED <<ip, step, got, text>>
  BY <1>1, OnlyMoves DEF IInv, TypeInv, OthersStay
<1>2. ASSUME NEW i, GoTo(t, i), Active(t), i = ip[t] + 1 \/ Now(t).do = "jump"
      PROVE  /\ OthersStay(t)
             /\ DOMAIN text' = Threads /\ \A u \in Threads \ {t} : text'[u] = text[u]
             /\ ip'[t] = i
  BY <1>2 DEF GoTo, IInv, TypeInv, OthersStay
<1>3. ASSUME NEW r, Go(t, r)
      PROVE  OthersStay(t) /\ UNCHANGED <<ip, text>>
  BY <1>3 DEF Go, IInv, TypeInv, OthersStay
<1>4. ASSUME Char(t), sane' = sane, Active(t)
      PROVE  /\ OthersStay(t) /\ ip' = ip
             /\ DOMAIN text' = Threads /\ \A u \in Threads \ {t} : text'[u] = text[u]
  <2>1. sane
    BY <1>4 DEF Char, Live, At, Runs, Awake
  <2> QED
    BY <1>4, <2>1 DEF Char, BadRead, IInv, TypeInv, OthersStay
<1> QED
  BY <1>1, <1>2, <1>3, <1>4, OnlyMoves

(* Variables, buffers and gates, by the step.                              *)
LEMMA ValuesStay ==
  ASSUME NEW t \in Threads, Step(t)
  PROVE  \/ value' = value
         \/ Set(t) /\ ~Refused(t)
         \/ Replace(t)
BY DEF Step, Reject, Wait, Lock, Unlock, Get, Zero, Branch, Jump, Sleep, ReadFreed, Fits, Bounds,
       Copy, Fetch, Length, Char, PrintOut, Set, Free, FreeCopy

LEMMA GatesStay ==
  ASSUME NEW t \in Threads, Step(t)
  PROVE  /\ copying' = copying \/ Free(t) \/ Replace(t)
         /\ \/ UNCHANGED <<owner, asleep>> /\ woken' \subseteq woken
            \/ Wait(t)
            \/ Lock(t) /\ ~Refused(t)
            \/ Unlock(t) /\ owner[Var(t)] # NoOwner
<1>1. CASE Wait(t) \/ Lock(t) \/ Unlock(t) \/ Get(t) \/ Set(t) \/ Free(t) \/ Replace(t)
  BY <1>1 DEF Wait, Lock, Unlock, Get, Set, Free, Replace, Through, Locks
<1>2. CASE ~(Wait(t) \/ Lock(t) \/ Unlock(t) \/ Get(t) \/ Set(t) \/ Free(t) \/ Replace(t))
  BY <1>2 DEF Step, Reject, Zero, Branch, Jump, Sleep, ReadFreed, Fits, Bounds,
       Copy, Fetch, Length, Char, PrintOut, FreeCopy
<1> QED
  BY <1>1, <1>2

-----------------------------------------------------------------------------
(* Who waits.                                                              *)

LEMMA OthersAtGate ==
  ASSUME IInv, DOMAIN text = Threads, NEW t \in Threads, Step(t), NEW u \in Threads \ {t}
  PROVE  /\ AtGate(u)' <=> AtGate(u)
         /\ Var(u)' = Var(u) /\ Cur(u)' = Cur(u) /\ ip'[u] = ip[u]
         /\ u \in copying' <=> u \in copying
<1>1. OthersStay(t) /\ script' = script
  BY Frame
<1>2. (Active(u)' <=> Active(u)) /\ Now(u)' = Now(u) /\ Var(u)' = Var(u) /\ Cur(u)' = Cur(u)
  BY <1>1, OtherCopies
<1>3. u \in copying' <=> u \in copying
  BY GatesStay DEF Free, Replace
<1>4. ip'[u] = ip[u]
  BY <1>1 DEF OthersStay
<1> QED
  BY <1>2, <1>3, <1>4 DEF AtGate

(* The variable of an access is one of the instruction's arguments.        *)
LEMMA AccessPlans ==
  ASSUME NEW ins \in Instruction, ~Misused(ins), NEW k \in 1..Len(Plan(ins))
  PROVE  /\ Plan(ins)[k].do \in {"get", "set", "LOCK", "UNLOCK"} =>
              Plan(ins)[k].arg \in 1..Len(ins.args)
         /\ Plan(ins)[k].do \in {"LOCK", "UNLOCK"} =>
              ins.op = Plan(ins)[k].do /\ Len(ins.args) = 1 /\ Plan(ins)[k].arg = 1
         /\ ins.op \in {"LOCK", "UNLOCK"} => Plan(ins)[k].do = ins.op
         /\ Plan(ins)[k].do = "jump" => ins.op \in Jumping
<1>1. ins.op \in Operations /\ ins.args \in Seq(Vars) /\ Len(ins.args) \in Nat
  BY DEF Instruction
<1>2. Len(ins.args) \in Arities(ins.op)
  BY DEF Misused
<1>3. CASE ins.op \in {"ADD", "MUL", "SUB"}
  <2>1. Plan(ins) = [i \in 1..Len(ins.args) |-> IF i < Len(ins.args) THEN Do("get", i + 1, "double")
                                     ELSE Do("set", 1, "double")]
    BY <1>3, PlanOf
  <2>2. Len(ins.args) >= 1
    BY <1>1, <1>2, <1>3 DEF Arities, Tests, Comparisons
  <2>3. Plan(ins)[k] = IF k < Len(ins.args) THEN Do("get", k + 1, "double")
                                     ELSE Do("set", 1, "double")
    BY <1>1, <2>1
  <2>4. k \in 1..Len(ins.args)
    BY <1>1, <2>1
  <2> QED
    BY <1>1, <1>3, <2>2, <2>3, <2>4 DEF Do
<1>4. CASE ins.op = "DIV"
  <2>1. Plan(ins) = DivPlan /\ Len(ins.args) = 3
    BY <1>1, <1>2, <1>4, PlanOf DEF Arities, Tests, Comparisons
  <2> QED
    BY <1>4, <2>1 DEF DivPlan, Do, Raw
<1>5. CASE ins.op = "ASSIGN"
  <2>1. Plan(ins) = AssignPlan(Type[ins.args[1]]) /\ Len(ins.args) = 2
    BY <1>1, <1>2, <1>5, PlanOf DEF Arities, Tests, Comparisons
  <2>2. Type[ins.args[1]] \in {"NUMERIC", "REAL", "CHAR", "STRING"}
    BY <1>1, <2>1, DataAssumption
  <2> QED
    BY <1>5, <2>1, <2>2 DEF AssignPlan, Do, Raw
<1>6. CASE ins.op \in {"SET_STR_CHAR", "GET_STR_CHAR"}
  <2>1. Len(ins.args) = 3
    BY <1>1, <1>2, <1>6 DEF Arities, Tests, Comparisons
  <2>2. CASE Plan(ins) = SetCharPlan
    BY <1>6, <2>1, <2>2 DEF SetCharPlan, Do, Raw
  <2>3. CASE Plan(ins) = GetCharPlan
    BY <1>6, <2>1, <2>3 DEF GetCharPlan, Do, Raw
  <2> QED
    BY <1>6, <2>2, <2>3, PlanOf
<1>7. CASE ins.op = "OUT"
  <2>1. Plan(ins) = OutPlan
    BY <1>7, PlanOf
  <2> DEFINE n == Len(ins.args)
  <2>2. n \in 1..12
    BY <1>2, <1>7 DEF Arities, Tests, Comparisons
  <2> HIDE DEF n
  <2>3. 1 \in 1..n
    BY <2>2
  <2>4. Plan(ins)[k] \in {Do("get", 1, "string"), Raw("length"), Raw("char"), Raw("print")}
    BY <2>1 DEF OutPlan
  <2> QED
    BY <1>7, <2>3, <2>4 DEF Do, Raw, n
<1>8. CASE ins.op = "SLEEP"
  <2>1. Plan(ins) = <<Do("get", 1, "int"), Raw("sleep")>> /\ Len(ins.args) = 1
    BY <1>1, <1>2, <1>8, PlanOf DEF Arities, Tests, Comparisons
  <2> QED
    BY <1>8, <2>1 DEF Do, Raw
<1>9. CASE ins.op = "JMP"
  <2>1. Plan(ins) = <<Do("get", 1, "int"), Raw("jump")>> /\ Len(ins.args) = 1
    BY <1>1, <1>2, <1>9, JumpPlans DEF Arities, Tests, Comparisons
  <2> QED
    BY <1>9, <2>1 DEF Do, Raw, Jumping
<1>10. CASE ins.op \in Tests
  <2>1. k \in 1..4 /\ Len(ins.args) = 2
    BY <1>1, <1>2, <1>10, JumpPlans DEF Arities, Tests, Comparisons
  <2> QED
    BY <1>10, <2>1, JumpPlans DEF Do, Raw, Tests, Jumping
<1>11. CASE ins.op \in Comparisons
  <2>1. k \in 1..5 /\ Len(ins.args) = 3
    BY <1>1, <1>2, <1>11, JumpPlans DEF Arities, Tests, Comparisons
  <2> QED
    BY <1>11, <2>1, JumpPlans DEF Do, Raw, Comparisons, Jumping
<1>12. CASE ins.op \in {"LOCK", "UNLOCK"}
  <2>1. Plan(ins) = <<Do(ins.op, 1, "owner")>> /\ Len(ins.args) = 1
    BY <1>1, <1>2, <1>12, PlanOf DEF Arities, Tests, Comparisons
  <2> QED
    BY <1>12, <2>1 DEF Do
<1> QED
  BY <1>1, <1>3, <1>4, <1>5, <1>6, <1>7, <1>8, <1>9, <1>10, <1>11, <1>12 DEF Operations

LEMMA GateVariable ==
  ASSUME IInv, NEW t \in Threads, Active(t),
         Now(t).do \in {"get", "set", "LOCK", "UNLOCK"}
  PROVE  Var(t) \in Vars /\ ip[t] \in Uses(t, Var(t))
<1>1. Cur(t) \in Instruction /\ Now(t).arg \in 1..Len(Cur(t).args)
  BY Running, AccessPlans DEF IInv
<1>2. script[t] \in Seq(Instruction) /\ ip[t] \in 1..Len(script[t])
  BY DEF IInv, TypeInv, Active
<1> QED
  BY <1>1, <1>2 DEF Var, Uses, Cur, Instruction

(* Whoever was woken and does more than fail is no longer woken.           *)
LEMMA WokenMoves ==
  ASSUME IInv, Waiting, NEW t \in Threads, Step(t), t \in woken'
  PROVE  t \in woken /\ UNCHANGED <<ip, step, got, copying>>
<1>1. Awake(t)
  BY OnlyMoves
<1>2. t \in woken
  <2>1. CASE Unlock(t)
    <3>1. Active(t) /\ Now(t).do = "UNLOCK"
      BY <2>1 DEF Unlock, At, Runs, Awake, Active
    <3>3. Var(t) \in Vars
      BY <3>1, GateVariable
    <3>2. t \notin asleep[Var(t)]
      BY <1>1, <3>3 DEF Awake
    <3> QED
      BY <2>1, <3>2 DEF Unlock, Locks
  <2>2. CASE ~Unlock(t)
    BY <2>2, GatesStay DEF Lock, Wait
  <2> QED
    BY <2>1, <2>2
<1>3. AtGate(t)
  BY <1>2 DEF Waiting
<1>4. Runs(t) /\ t \notin copying /\ Now(t).do \in {"get", "set", "LOCK"}
  BY <1>1, <1>3 DEF AtGate, Active, Runs
<1>5. CASE Wait(t)
  BY <1>5 DEF Wait
<1>6. CASE Lock(t)
  <2>1. Refused(t)
    BY <1>6, t \notin woken \ {t} DEF Lock
  <2> QED
    BY <1>2, <1>6, <2>1 DEF Lock, Throw
<1>7. CASE Get(t)
  <2>1. Refused(t)
    BY <1>7, t \notin woken \ {t} DEF Get, Through
  <2> QED
    BY <1>2, <1>7, <2>1 DEF Get, Throw
<1>8. CASE Set(t)
  <2>1. Refused(t)
    BY <1>8, t \notin woken \ {t} DEF Set, Through
  <2> QED
    BY <1>2, <1>8, <2>1 DEF Set, Throw
<1>9. CASE Free(t)
  <2>1. Refused(t)
    BY <1>9, t \notin woken \ {t} DEF Free, Through
  <2> QED
    BY <1>2, <1>9, <2>1 DEF Free, Throw
<1> QED
  BY <1>2, <1>4, <1>5, <1>6, <1>7, <1>8, <1>9 DEF Step, Reject, Unlock, Zero, Branch, Jump, Sleep, ReadFreed, Fits, Bounds,
       Copy, Fetch, Length, Char, PrintOut, FreeCopy, Replace, Live, At, Runs

LEMMA WaitingStep ==
  ASSUME IInv, Waiting, NEW t \in Threads, Step(t)
  PROVE  Waiting'
<1>1. DOMAIN text = Threads /\ DOMAIN owner = Vars /\ DOMAIN asleep = Vars
  BY DEF Waiting
<1>2. DOMAIN text' = Threads
  BY <1>1, Frame
<1>3. DOMAIN owner' = Vars /\ DOMAIN asleep' = Vars
  BY <1>1, GatesStay DEF Wait, Lock, Unlock
<1>4. \A v \in Vars : t \notin asleep[v]
  BY OnlyMoves DEF Awake
<1>5. ASSUME NEW v \in Vars, NEW u \in asleep'[v]
      PROVE  u \in Threads /\ AtGate(u)' /\ Var(u)' = v
  <2>1. u \in asleep[v] \/ (Wait(t) /\ u = t /\ v = Var(t))
    BY <1>1, GatesStay DEF Wait, Lock, Unlock
  <2>2. CASE u \in asleep[v]
    <3>1. u \in Threads \ {t} /\ AtGate(u) /\ Var(u) = v
      BY <1>4, <2>2 DEF Waiting
    <3> QED
      BY <1>1, <3>1, OthersAtGate
  <2>3. CASE Wait(t) /\ u = t /\ v = Var(t)
    <3>1. AtGate(t)
      BY <2>3 DEF Wait, Runs, Awake, AtGate, Active
    <3>2. UNCHANGED <<script, ip, step, copying>>
      BY <2>3 DEF Wait
    <3> QED
      BY <2>3, <3>1, <3>2 DEF AtGate, Active, Now, Var, Cur
  <2> QED
    BY <2>1, <2>2, <2>3
<1>6. ASSUME NEW u \in woken'
      PROVE  u \in Threads /\ AtGate(u)'
  <2>1. CASE u = t
    <3>1. t \in woken /\ UNCHANGED <<ip, step, got, copying>>
      BY <1>6, <2>1, WokenMoves
    <3>2. AtGate(t)
      BY <3>1 DEF Waiting
    <3>3. script' = script
      BY <1>1, Frame
    <3> QED
      BY <2>1, <3>1, <3>2, <3>3 DEF AtGate, Active, Now, Cur
  <2>2. CASE u # t
    <3>1. u \in woken \/ \E v \in Vars : u \in asleep[v]
      <4>1. CASE Unlock(t) /\ owner[Var(t)] # NoOwner
        <5>1. u \in woken \/ u \in asleep[Var(t)]
          BY <4>1 DEF Unlock
        <5>2. Var(t) \in Vars
          BY <4>1, GateVariable DEF Unlock, At, Runs, Awake, Active
        <5> QED
          BY <5>1, <5>2
      <4>2. CASE ~(Unlock(t) /\ owner[Var(t)] # NoOwner)
        BY <4>2, GatesStay DEF Wait, Lock
      <4> QED
        BY <4>1, <4>2
    <3>2. u \in Threads \ {t} /\ AtGate(u)
      BY <2>2, <3>1 DEF Waiting
    <3> QED
      BY <1>1, <3>2, OthersAtGate
  <2> QED
    BY <2>1, <2>2
<1> QED
  BY <1>2, <1>3, <1>5, <1>6 DEF Waiting

-----------------------------------------------------------------------------
(* Who owns.                                                               *)

(* A thread that shares a variable goes from line to line.                 *)
LEMMA SharersGoOn ==
  ASSUME IInv, Guarded, Pairs, Waiting, NEW v, Shared(v), NEW t \in Users(v), Step(t)
  PROVE  ip'[t] = ip[t] \/ (ip'[t] = ip[t] + 1 /\ Active(t) /\ ip[t] \in Nat)
<1>1. t \in Threads
  BY DEF Users
<1>2. ip'[t] # ip[t] => Active(t) /\ (ip'[t] = ip[t] + 1 \/ Now(t).do = "jump")
  BY <1>1, Frame DEF Waiting
<1>3. ASSUME Active(t) PROVE Now(t).do # "jump" /\ ip[t] \in Nat
  <2>1. ip[t] \in 1..Len(script[t])
    BY <1>1, <1>3 DEF IInv, TypeInv, Active
  <2>2. Cur(t).op \notin Jumping
    BY <2>1, SharersLock DEF Cur
  <2> QED
    BY <1>1, <1>3, <2>1, <2>2, Running, AccessPlans DEF IInv
<1> QED
  BY <1>2, <1>3

(* Owners change at LOCK and UNLOCK, and that is a step forward.           *)
LEMMA OwnersChange ==
  ASSUME IInv, Waiting, NEW t \in Threads, Step(t), NEW v \in Vars, owner'[v] # owner[v]
  PROVE  /\ Active(t) /\ v = Var(t) /\ ip'[t] = ip[t] + 1 /\ ip[t] \in Uses(t, v)
         /\ \/ Lock(t) /\ ~Refused(t) /\ Cur(t).op = "LOCK" /\ owner'[v] = t
            \/ Unlock(t) /\ owner[v] # NoOwner /\ Cur(t).op = "UNLOCK"
<1>1. (Lock(t) /\ ~Refused(t)) \/ (Unlock(t) /\ owner[Var(t)] # NoOwner)
  BY GatesStay DEF Wait
<1>2. Active(t) /\ Now(t).do \in {"LOCK", "UNLOCK"}
  BY <1>1 DEF Lock, Unlock, At, Runs, Awake, Active
<1>3. Cur(t).op = Now(t).do
  BY <1>2, Running, AccessPlans DEF IInv
<1>4. Var(t) \in Vars /\ ip[t] \in Uses(t, Var(t))
  BY <1>2, GateVariable
<1>5. CASE Lock(t) /\ ~Refused(t)
  <2>1. owner' = [owner EXCEPT ![Var(t)] = t] /\ ip' = [ip EXCEPT ![t] = ip[t] + 1]
    BY <1>5 DEF Lock, Finish, GoTo
  <2>2. Now(t).do = "LOCK"
    BY <1>5 DEF Lock, At
  <2> QED
    BY <1>2, <1>3, <1>4, <1>5, <2>1, <2>2 DEF Waiting, IInv, TypeInv
<1>6. CASE Unlock(t) /\ owner[Var(t)] # NoOwner
  <2>1. owner' = [owner EXCEPT ![Var(t)] = NoOwner] /\ ip' = [ip EXCEPT ![t] = ip[t] + 1]
    BY <1>6 DEF Unlock, Finish, GoTo
  <2>2. Now(t).do = "UNLOCK"
    BY <1>6 DEF Unlock, At
  <2> QED
    BY <1>2, <1>3, <1>4, <1>6, <2>1, <2>2 DEF Waiting, IInv, TypeInv
<1> QED
  BY <1>1, <1>5, <1>6

(* Behind a LOCK is its owner.                                             *)
LEMMA LockPassed ==
  ASSUME IInv, Waiting, NEW t \in Threads, Step(t), Active(t), ip'[t] # ip[t],
         Cur(t).op = "LOCK"
  PROVE  owner'[Var(t)] = t /\ Len(Cur(t).args) = 1 /\ Var(t) = Cur(t).args[1]
<1>1. Now(t).do = "LOCK" /\ Len(Cur(t).args) = 1 /\ Now(t).arg = 1
  BY Running, AccessPlans DEF IInv
<1>2. Var(t) \in Vars
  BY <1>1, GateVariable
<1>3. Lock(t) \/ Wait(t)
  BY <1>1 DEF Step, Active, Reject, Unlock, Get, Zero, Branch, Jump, Sleep, ReadFreed, Fits,
              Bounds, Copy, Fetch, Length, Char, PrintOut, Set, Free, Replace, FreeCopy, Live,
              At, Runs, IInv, Copying
<1>4. Lock(t) /\ ~Refused(t)
  BY <1>3 DEF Lock, Wait, Throw
<1>5. owner' = [owner EXCEPT ![Var(t)] = t]
  BY <1>4 DEF Lock
<1> QED
  BY <1>1, <1>2, <1>5 DEF Waiting, Var

LEMMA InsideOwns ==
  ASSUME IInv, Guarded, Pairs, Waiting, Owning, NEW t \in Threads, Step(t),
         NEW v \in Vars, Shared(v), NEW u \in Users(v)
  PROVE  ip'[u] \in Nat /\ (Inside(u, v)' => owner'[v] = u)
<1>1. script' = script /\ OthersStay(t) /\ u \in Threads
  BY Frame DEF Waiting, Users
<1>2. Uses(u, v)' = Uses(u, v)
  BY <1>1, ScriptKept
<1>3. ip[u] \in Nat /\ (Inside(u, v) => owner[v] = u)
  BY DEF Owning
<1>4. ASSUME ip'[u] = ip[u] PROVE Inside(u, v)' <=> Inside(u, v)
  BY <1>2, <1>4 DEF Inside
<1>5. CASE u # t
  <2>1. ip'[u] = ip[u]
    BY <1>1, <1>5 DEF OthersStay
  <2>2. ASSUME Inside(u, v), owner'[v] # owner[v] PROVE FALSE
    <3>1. /\ ip[t] \in Uses(t, v) /\ t \in Users(v) /\ v = Var(t) /\ owner[v] = u
          /\ \/ Lock(t) /\ ~Refused(t)
             \/ Cur(t).op = "UNLOCK"
      BY <1>3, <2>2, OwnersChange DEF Users
    <3>2. CASE Cur(t).op = "UNLOCK"
      <4>1. Inside(t, v)
        BY <3>1, <3>2, UseIsInside DEF IInv
      <4> QED
        BY <1>5, <3>1, <4>1 DEF Owning
    <3>3. CASE Lock(t) /\ ~Refused(t)
      <4>1. t \in woken
        BY <1>1, <1>5, <3>1, <3>3, DataAssumption DEF Lock, Open
      <4>2. PICK w \in Threads \ {t} : GaveUp(w, v)
        BY <3>1, <4>1 DEF Owning
      <4>3. w = u
        BY <1>5, <3>1, <4>2 DEF Pairs, Shared, GaveUp
      <4> QED
        BY <1>3, <2>2, <4>2, <4>3 DEF Inside, GaveUp, Uses
    <3> QED
      BY <3>1, <3>2, <3>3
  <2> QED
    BY <1>3, <1>4, <2>1, <2>2
<1>6. CASE u = t
  <2>1. ip'[t] = ip[t] \/ (ip'[t] = ip[t] + 1 /\ Active(t))
    BY <1>6, SharersGoOn
  <2>2. CASE ip'[t] = ip[t]
    <3>1. owner'[v] = owner[v]
      BY <1>3, <1>6, <2>2, OwnersChange
    <3> QED
      BY <1>3, <1>4, <1>6, <2>2, <3>1
  <2>3. CASE ip'[t] = ip[t] + 1 /\ Active(t)
    <3>1. CASE ip[t] \notin Uses(t, v)
      <4>1. Inside(t, v)' => Inside(t, v)
        <5>1. \A i \in Uses(t, v) : i \in Nat /\ i # ip[t]
          BY <3>1 DEF Uses
        <5> QED
          BY <1>2, <1>3, <1>6, <2>3, <5>1 DEF Inside
      <4>2. owner'[v] = owner[v]
        BY <3>1, OwnersChange
      <4> QED
        BY <1>3, <1>6, <2>3, <4>1, <4>2
    <3>2. CASE ip[t] \in Uses(t, v) /\ Cur(t).op = "LOCK"
      <4>1. owner'[Var(t)] = t /\ Len(Cur(t).args) = 1 /\ Var(t) = Cur(t).args[1]
        BY <1>3, <1>6, <2>3, <3>2, LockPassed
      <4>2. \E k \in 1..1 : Cur(t).args[k] = v
        BY <3>2, <4>1 DEF Uses, Cur
      <4>3. Var(t) = v
        BY <4>1, <4>2
      <4> QED
        BY <1>3, <1>6, <2>3, <4>1, <4>3
    <3>3. CASE ip[t] \in Uses(t, v) /\ Cur(t).op = "UNLOCK"
      <4>1. \A j \in Uses(t, v) : j <= ip[t] /\ j \in Nat
        BY <1>1, <1>6, <3>3, LastUse
      <4>2. ~Inside(t, v)'
        BY <1>2, <1>3, <1>6, <2>3, <4>1 DEF Inside
      <4> QED
        BY <1>3, <1>6, <2>3, <4>2
    <3>4. CASE ip[t] \in Uses(t, v) /\ Cur(t).op \notin {"LOCK", "UNLOCK"}
      <4>1. owner[v] = t
        BY <1>3, <1>6, <3>4, UseIsInside DEF IInv
      <4>2. owner'[v] = owner[v]
        BY <3>4, OwnersChange
      <4> QED
        BY <1>3, <1>6, <2>3, <4>1, <4>2
    <3> QED
      BY <3>1, <3>2, <3>3, <3>4
  <2> QED
    BY <2>1, <2>2, <2>3
<1> QED
  BY <1>5, <1>6

LEMMA OwningStep ==
  ASSUME IInv, Guarded, Pairs, Waiting, Owning, NEW t \in Threads, Step(t)
  PROVE  Owning'
<1>1. script' = script /\ OthersStay(t) /\ Awake(t)
  BY Frame DEF Waiting
<1>2. \A v : (Shared(v)' <=> Shared(v)) /\ Users(v)' = Users(v)
  BY <1>1, ScriptKept
<1>3. ASSUME NEW u \in Threads, NEW v, Shared(v), GaveUp(u, v) PROVE GaveUp(u, v)'
  <2>1. Uses(u, v)' = Uses(u, v) /\ u \in Users(v) /\ v \in Vars
    BY <1>1, <1>3, ScriptKept DEF GaveUp, Shared
  <2>2. ip[u] \in Nat /\ (ip'[u] = ip[u] \/ ip'[u] = ip[u] + 1)
    <3>1. CASE u = t
      BY <1>3, <2>1, <3>1, SharersGoOn DEF Owning
    <3>2. CASE u # t
      BY <1>1, <1>3, <2>1, <3>2 DEF OthersStay, Owning
    <3> QED
      BY <3>1, <3>2
  <2>3. \A j \in Uses(u, v) : j \in Nat
    BY DEF Uses
  <2>4. \A j \in Uses(u, v) : j < ip'[u]
    BY <1>3, <2>2, <2>3 DEF GaveUp
  <2> QED
    BY <1>2, <2>1, <2>4 DEF GaveUp
<1>4. ASSUME NEW w \in woken', NEW v, v = Var(w)', Shared(v)
      PROVE  \E u \in Threads \ {w} : GaveUp(u, v)'
  <2>1. CASE w \in woken
    <3>1. w \in Threads /\ Var(w)' = Var(w)
      <4>1. CASE w = t
        <5>1. UNCHANGED <<ip, step>>
          BY <1>4, <4>1, WokenMoves
        <5> QED
          BY <1>1, <4>1, <5>1 DEF Var, Now, Cur
      <4>2. CASE w # t
        BY <2>1, <4>2, OthersAtGate DEF Waiting
      <4> QED
        BY <4>1, <4>2
    <3>2. PICK u \in Threads \ {w} : GaveUp(u, v)
      BY <1>4, <2>1, <3>1 DEF Owning
    <3> QED
      BY <1>3, <1>4, <3>1, <3>2
  <2>2. CASE w \notin woken
    <3>1. w # t
      BY <1>4, <2>2, WokenMoves
    <3>2. Unlock(t) /\ owner[Var(t)] # NoOwner /\ w \in asleep[Var(t)]
      BY <1>4, <2>2, GatesStay DEF Wait, Lock, Unlock
    <3>3. Active(t) /\ Now(t).do = "UNLOCK"
      BY <3>2 DEF Unlock, At, Runs, Awake, Active
    <3>4. Var(t) \in Vars /\ ip[t] \in Uses(t, Var(t)) /\ Cur(t).op = "UNLOCK"
      BY <3>3, GateVariable, Running, AccessPlans DEF IInv
    <3>5. w \in Threads /\ Var(w)' = Var(w) /\ Var(w) = Var(t)
      BY <3>1, <3>2, <3>4, OthersAtGate DEF Waiting
    <3>6. v = Var(t) /\ t \in Users(v)
      BY <1>4, <3>4, <3>5 DEF Users
    <3>7. ip'[t] = ip[t] + 1
      BY <3>2 DEF Unlock, Finish, GoTo, IInv, TypeInv
    <3>8. \A j \in Uses(t, v) : j <= ip[t] /\ j \in Nat /\ ip[t] \in Nat
      BY <1>4, <3>4, <3>6, LastUse
    <3>9. Uses(t, v)' = Uses(t, v)
      BY <1>1, ScriptKept
    <3>10. \A j \in Uses(t, v) : j < ip'[t]
      BY <3>7, <3>8
    <3>11. GaveUp(t, v)'
      BY <1>2, <3>6, <3>9, <3>10 DEF GaveUp
    <3> QED
      BY <3>1, <3>11
  <2> QED
    BY <2>1, <2>2
<1>5. ASSUME NEW v \in Vars, Shared(v), NEW u \in Users(v)
      PROVE  ip'[u] \in Nat /\ (Inside(u, v)' => owner'[v] = u)
  BY <1>5, InsideOwns
<1> QED
  BY <1>2, <1>4, <1>5 DEF Owning

-----------------------------------------------------------------------------
(* Instructions that read a string.                                        *)

LEMMA StringArgs ==
  ASSUME NEW ins \in Instruction, ~Misused(ins)
  PROVE  /\ ReadsString(ins) =>
              Source(ins) \in Vars /\ \E k \in 1..Len(ins.args) : ins.args[k] = Source(ins)
         /\ ins.op = "SET_STR_CHAR" => ins.args \in Seq(Vars) /\ Len(ins.args) = 3
         /\ ins.op = "ASSIGN" => /\ ins.args \in Seq(Vars) /\ Len(ins.args) = 2
                                 /\ Type[ins.args[1]] = Type[ins.args[2]]
<1>1. ins.args \in Seq(Vars) /\ Len(ins.args) \in Arities(ins.op)
  BY DEF Instruction, Misused
<1>2. ins.op \in {"SET_STR_CHAR", "GET_STR_CHAR"} => Len(ins.args) = 3
  BY <1>1 DEF Arities, Tests, Comparisons
<1>3. ins.op = "ASSIGN" => Len(ins.args) = 2 /\ Type[ins.args[1]] = Type[ins.args[2]]
  BY <1>1 DEF Arities, Tests, Comparisons, Misused
<1>4. ASSUME ins.op = "OUT" PROVE 1 \in 1..Len(ins.args)
  <2> DEFINE n == Len(ins.args)
  <2>1. n \in 1..12
    BY <1>1, <1>4 DEF Arities, Tests, Comparisons
  <2> HIDE DEF n
  <2>2. 1 \in 1..n
    BY <2>1
  <2> QED
    BY <2>2 DEF n
<1>5. ASSUME ReadsString(ins)
      PROVE  \E k \in 1..Len(ins.args) : ins.args[k] = Source(ins)
  <2>1. CASE ins.op = "ASSIGN"
    BY <1>3, <2>1 DEF Source
  <2>2. CASE ins.op \in {"SET_STR_CHAR", "GET_STR_CHAR"}
    BY <1>2, <2>2 DEF Source
  <2>3. CASE ins.op = "OUT"
    BY <1>4, <2>3 DEF Source
  <2> QED
    BY <1>5, <2>1, <2>2, <2>3 DEF ReadsString
<1> QED
  BY <1>1, <1>2, <1>3, <1>5

LEMMA StringPlans ==
  ASSUME IInv, NEW t \in Threads, Active(t)
  PROVE  /\ Cur(t).op = "SET_STR_CHAR" => step[t] \in 1..7 /\ Now(t) = SetCharPlan[step[t]]
         /\ Cur(t).op = "GET_STR_CHAR" => step[t] \in 1..5 /\ Now(t) = GetCharPlan[step[t]]
         /\ Cur(t).op = "OUT" => step[t] \in 1..5 /\ Now(t) = OutPlan[step[t]]
         /\ Cur(t).op = "ASSIGN" /\ Type[Cur(t).args[1]] = "STRING" =>
              step[t] \in 1..3 /\ Now(t) = AssignPlan("STRING")[step[t]]
<1>1. step[t] \in 1..Len(Plan(Cur(t))) /\ Now(t) = Plan(Cur(t))[step[t]]
  BY Running DEF IInv
<1>2. ASSUME Cur(t).op = "SET_STR_CHAR"
      PROVE  step[t] \in 1..7 /\ Now(t) = SetCharPlan[step[t]]
  <2>1. Plan(Cur(t)) = SetCharPlan
    BY <1>2, PlanOf
  <2>2. Len(SetCharPlan) = 7
    BY DEF SetCharPlan
  <2> QED
    BY <1>1, <2>1, <2>2
<1>3. ASSUME Cur(t).op = "GET_STR_CHAR"
      PROVE  step[t] \in 1..5 /\ Now(t) = GetCharPlan[step[t]]
  <2>1. Plan(Cur(t)) = GetCharPlan
    BY <1>3, PlanOf
  <2>2. Len(GetCharPlan) = 5
    BY DEF GetCharPlan
  <2> QED
    BY <1>1, <2>1, <2>2
<1>4. ASSUME Cur(t).op = "OUT"
      PROVE  step[t] \in 1..5 /\ Now(t) = OutPlan[step[t]]
  <2>1. Plan(Cur(t)) = OutPlan
    BY <1>4, PlanOf
  <2>2. Len(OutPlan) = 5
    BY DEF OutPlan
  <2> QED
    BY <1>1, <2>1, <2>2
<1>5. ASSUME Cur(t).op = "ASSIGN", Type[Cur(t).args[1]] = "STRING"
      PROVE  step[t] \in 1..3 /\ Now(t) = AssignPlan("STRING")[step[t]]
  <2>1. Plan(Cur(t)) = AssignPlan("STRING")
    BY <1>5, PlanOf
  <2>2. Len(AssignPlan("STRING")) = 3
    BY DEF AssignPlan
  <2> QED
    BY <1>1, <2>1, <2>2
<1> QED
  BY <1>2, <1>3, <1>4, <1>5

(* Where a thread reads through its pointer.                               *)
LEMMA RawPlans ==
  ASSUME NEW ins \in Instruction, ~Misused(ins), NEW k \in 1..Len(Plan(ins))
  PROVE  /\ Plan(ins)[k].do \in {"fits", "bounds", "copy", "fetch", "length", "char"} =>
              ReadsString(ins)
         /\ Plan(ins)[k].do = "set" /\ Plan(ins)[k].as = "string" => ReadsString(ins)
         /\ Plan(ins)[k].do = "copy" => ins.op = "SET_STR_CHAR"
         /\ Plan(ins)[k].do = "fetch" => ins.op = "GET_STR_CHAR"
         /\ Plan(ins)[k].do \in {"length", "char", "print"} => ins.op = "OUT"
<1>1. ins.op \in Operations /\ ins.args \in Seq(Vars) /\ Len(ins.args) \in Nat
  BY DEF Instruction
<1>2. Len(ins.args) \in Arities(ins.op)
  BY DEF Misused
<1>3. CASE ins.op \in {"ADD", "MUL", "SUB"}
  <2>1. Plan(ins) = [i \in 1..Len(ins.args) |-> IF i < Len(ins.args) THEN Do("get", i + 1, "double")
                                     ELSE Do("set", 1, "double")]
    BY <1>3, PlanOf
  <2>2. k \in 1..Len(ins.args)
    BY <1>1, <2>1
  <2>3. Plan(ins)[k] = IF k < Len(ins.args) THEN Do("get", k + 1, "double")
                                     ELSE Do("set", 1, "double")
    BY <1>1, <2>1, <2>2
  <2> QED
    BY <2>3 DEF Do
<1>4. CASE ins.op = "DIV"
  <2>1. Plan(ins) = DivPlan
    BY <1>4, PlanOf
  <2> QED
    BY <1>4, <2>1 DEF DivPlan, Do, Raw
<1>5. CASE ins.op = "ASSIGN"
  <2>1. Plan(ins) = AssignPlan(Type[ins.args[1]]) /\ Len(ins.args) = 2
    BY <1>1, <1>2, <1>5, PlanOf DEF Arities, Tests, Comparisons
  <2>2. Type[ins.args[1]] \in {"NUMERIC", "REAL", "CHAR", "STRING"}
    BY <1>1, <2>1, DataAssumption
  <2> QED
    BY <1>5, <2>1, <2>2 DEF AssignPlan, Do, Raw, ReadsString
<1>6. CASE ins.op \in {"SET_STR_CHAR", "GET_STR_CHAR", "OUT"}
  <2>1. Plan(ins) = IF ins.op = "SET_STR_CHAR" THEN SetCharPlan
                    ELSE IF ins.op = "GET_STR_CHAR" THEN GetCharPlan ELSE OutPlan
    BY <1>6, PlanOf
  <2>2. CASE ins.op = "SET_STR_CHAR"
    BY <2>1, <2>2 DEF SetCharPlan, Do, Raw, ReadsString
  <2>3. CASE ins.op = "GET_STR_CHAR"
    BY <2>1, <2>3 DEF GetCharPlan, Do, Raw, ReadsString
  <2>4. CASE ins.op = "OUT"
    BY <2>1, <2>4 DEF OutPlan, Do, Raw, ReadsString
  <2> QED
    BY <1>6, <2>2, <2>3, <2>4
<1>8. CASE ins.op = "SLEEP"
  <2>1. Plan(ins) = <<Do("get", 1, "int"), Raw("sleep")>>
    BY <1>8, PlanOf
  <2> QED
    BY <1>8, <2>1 DEF Do, Raw
<1>9. CASE ins.op = "JMP"
  BY <1>9, JumpPlans DEF Do, Raw
<1>10. CASE ins.op \in Tests
  <2>1. k \in 1..4
    BY <1>10, JumpPlans
  <2> QED
    BY <1>10, <2>1, JumpPlans DEF Do, Raw
<1>11. CASE ins.op \in Comparisons
  <2>1. k \in 1..5
    BY <1>11, JumpPlans
  <2> QED
    BY <1>11, <2>1, JumpPlans DEF Do, Raw
<1>12. CASE ins.op \in {"LOCK", "UNLOCK"}
  <2>1. Plan(ins) = <<Do(ins.op, 1, "owner")>>
    BY <1>12, PlanOf
  <2> QED
    BY <1>12, <2>1 DEF Do
<1> QED
  BY <1>1, <1>3, <1>4, <1>5, <1>6, <1>8, <1>9, <1>10, <1>11, <1>12 DEF Operations

(* A thread between its getString and its last use of the pointer: the     *)
(* buffer is there, and nobody else writes the variable.                   *)
LEMMA Pointing ==
  ASSUME IInv, Buffered, Guarded, Pairs, Owning, NEW t \in Threads, Reads(t), Active(t),
         ReadsString(Cur(t)), step[t] \in 2..6, t \notin copying \/ Cur(t).op = "ASSIGN"
  PROVE  /\ Source(Cur(t)) \in Strings /\ ip[t] \in Uses(t, Source(Cur(t)))
         /\ got[t][1] = value[Source(Cur(t))]
         /\ got[t][1] \in DOMAIN heap /\ Listed(heap[got[t][1]])
<1> DEFINE v == Source(Cur(t))
<1>1. Cur(t) \in Instruction /\ ~Misused(Cur(t))
  BY Running DEF IInv
<1>2. Type[v] = "STRING" /\ got[t][1] = value[v]
  BY DEF Reads, PointerKept
<1>3. v \in Strings
  BY <1>1, <1>2, StringArgs DEF Strings
<1>4. ip[t] \in Uses(t, v)
  <2>1. ip[t] \in 1..Len(script[t])
    BY DEF IInv, TypeInv, Active
  <2> QED
    BY <1>1, <2>1, StringArgs DEF Uses, Cur
<1>5. ASSUME NEW u \in copying, Var(u) = v PROVE FALSE
  <2>1. u \in Threads /\ Active(u) /\ Now(u).do = "set" /\ Now(u).as = "string" /\ v \notin Consts
    BY <1>5 DEF IInv, TypeInv, Copying, Buffered
  <2>2. Cur(u).op \in {"SET_STR_CHAR", "ASSIGN"} /\ ip[u] \in Uses(u, v) /\ v \in Vars
    BY <1>5, <2>1, Running, Plans, GateVariable DEF IInv
  <2>3. u = t
    BY <1>4, <2>1, <2>2, Exclusive DEF IInv, ReadsString
  <2>4. Cur(t).op = "ASSIGN" /\ step[t] = 3 /\ Var(t) = Cur(t).args[1]
    <3>1. Cur(t).op = "ASSIGN"
      BY <1>5, <2>3
    <3>2. step[t] \in 1..3 /\ Now(t) = AssignPlan("STRING")[step[t]]
      BY <3>1, StringPlans DEF ReadsString
    <3> QED
      BY <2>1, <2>3, <3>1, <3>2 DEF AssignPlan, Do, Raw, Var
  <2>5. Cur(t).args[1] # Cur(t).args[2]
    <3>1. ip[t] \in 1..Len(script[t])
      BY DEF IInv, TypeInv, Active
    <3> QED
      BY <2>4, <3>1 DEF Guarded, Cur
  <2> QED
    BY <1>5, <2>3, <2>4, <2>5 DEF Source
<1>6. value[v] \in DOMAIN heap
  BY <1>3, <1>5 DEF IInv, BuffersPrivate
<1> QED
  BY <1>2, <1>3, <1>4, <1>6 DEF Buffered

-----------------------------------------------------------------------------
(* What happens to the buffers.                                            *)

LEMMA ActionAt ==
  ASSUME IInv, NEW t \in Threads, Step(t), Active(t)
  PROVE  /\ Now(t).do = "get" => Get(t) \/ Wait(t)
         /\ Now(t).do = "set" => Set(t) \/ Wait(t) \/ Free(t) \/ Replace(t)
         /\ Now(t).do = "fits" => Fits(t) \/ ReadFreed(t)
         /\ Now(t).do = "bounds" => Bounds(t) \/ ReadFreed(t)
         /\ Now(t).do = "copy" => Copy(t) \/ ReadFreed(t)
         /\ Now(t).do = "fetch" => Fetch(t) \/ ReadFreed(t)
         /\ Now(t).do = "length" => Length(t) \/ ReadFreed(t)
         /\ Now(t).do = "char" => Char(t) \/ ReadFreed(t)
         /\ Now(t).do = "print" => PrintOut(t)
         /\ Now(t).do = "free" => FreeCopy(t)
<1>1. Replace(t) => Now(t).do = "set"
  BY DEF Replace, IInv, Copying
<1> QED
  BY <1>1 DEF Step, Active, Reject, Wait, Lock, Unlock, Get, Zero, Branch, Jump, Sleep, ReadFreed,
              Fits, Bounds, Copy, Fetch, Length, Char, PrintOut, Set, Free, FreeCopy, Live, At, Runs

(* Buffers come and go, and what is in one stays.                          *)
LEMMA HeapChanges ==
  ASSUME IInv, NEW t \in Threads, Step(t)
  PROVE  /\ \A a \in DOMAIN heap \cap DOMAIN heap' : heap'[a] = heap[a]
         /\ \/ heap' = heap
            \/ Free(t) /\ ~Refused(t) /\ DOMAIN heap' = DOMAIN heap \ {value[Var(t)]}
            \/ FreeCopy(t) /\ DOMAIN heap' = DOMAIN heap \ {got[t][4]}
            \/ /\ Copy(t) /\ Go(t, Append(got[t], fresh))
               /\ Live(t, "copy") /\ got[t][2] \in 0..Len(Text(t)) - 1
               /\ DOMAIN heap' = DOMAIN heap \cup {fresh} /\ heap'[fresh] = Copied(t)
            \/ /\ Replace(t) /\ got[t][Len(got[t])] \in DOMAIN heap
               /\ DOMAIN heap' = DOMAIN heap \cup {fresh}
               /\ heap'[fresh] = heap[got[t][Len(got[t])]]
<1>0. fresh \notin DOMAIN heap
  BY DEF IInv, TypeInv, Private
<1>1. CASE Free(t)
  <2>1. CASE Refused(t)
    BY <1>1, <2>1 DEF Free
  <2>2. CASE ~Refused(t)
    BY <1>1, <2>2 DEF Free, Restrict
  <2> QED
    BY <2>1, <2>2
<1>2. CASE FreeCopy(t)
  BY <1>2 DEF FreeCopy, Restrict
<1>3. CASE Copy(t)
  BY <1>0, <1>3 DEF Copy
<1>4. CASE Replace(t)
  <2>1. CASE got[t][Len(got[t])] \notin DOMAIN heap
    BY <1>4, <2>1 DEF Replace
  <2>2. CASE got[t][Len(got[t])] \in DOMAIN heap
    <3>1. NewBuffer(Var(t), got[t][Len(got[t])])
      BY <1>4, <2>2 DEF Replace
    <3> QED
      BY <1>0, <1>4, <2>2, <3>1 DEF NewBuffer
  <2> QED
    BY <2>1, <2>2
<1>5. CASE ~(Free(t) \/ FreeCopy(t) \/ Copy(t) \/ Replace(t))
  BY <1>5 DEF Step, Reject, Wait, Lock, Unlock, Get, Zero, Branch, Jump, Sleep, ReadFreed, Fits,
              Bounds, Fetch, Length, Char, PrintOut, Set
<1> QED
  BY <1>1, <1>2, <1>3, <1>4, <1>5

LEMMA ListedExcept ==
  ASSUME NEW s, Listed(s), NEW i, NEW x
  PROVE  /\ Listed([s EXCEPT ![i] = x]) /\ Len([s EXCEPT ![i] = x]) = Len(s)
<1> DEFINE n == Len(s)
           r == [s EXCEPT ![i] = x]
           f == [j \in 1..n |-> IF j = i THEN x ELSE s[j]]
<1>1. n \in Nat /\ DOMAIN s = 1..n
  BY DEF Listed
<1>2. r = f
  BY <1>1
<1> HIDE DEF n
<1>3. Len(f) = n
  BY <1>1
<1>4. f = [j \in 1..n |-> f[j]]
  OBVIOUS
<1>5. Listed(f)
  BY <1>1, <1>3, <1>4, Zenon DEF Listed
<1> QED
  BY <1>2, <1>3, <1>5 DEF n

(* A copy is made by Copy and stays with its thread.                       *)
LEMMA CopyHistory ==
  ASSUME IInv, IInv', Waiting, NEW t \in Threads, Step(t), HasCopy(t)'
  PROVE  \/ HasCopy(t) /\ got'[t][4] = got[t][4] /\ ~FreeCopy(t)
         \/ Copy(t) /\ got'[t][4] = fresh
<1>1. script' = script
  BY Frame DEF Waiting
<1>2. CASE UNCHANGED <<ip, step, got, text>>
  <2>1. ASSUME FreeCopy(t) PROVE FALSE
    <3>1. got'[t] = <<>>
      BY <2>1 DEF FreeCopy, Finish, GoTo, IInv, TypeInv
    <3> QED
      BY <3>1 DEF HasCopy
  <2> QED
    BY <1>1, <1>2, <2>1 DEF HasCopy, Cur
<1>3. ASSUME NEW i, GoTo(t, i) PROVE FALSE
  <2>1. got'[t] = <<>>
    BY <1>3 DEF GoTo, IInv, TypeInv
  <2> QED
    BY <2>1 DEF HasCopy
<1>4. ASSUME Char(t), Active(t), sane' = sane PROVE FALSE
  <2>1. Cur(t).op = "OUT"
    BY <1>4, Running, RawPlans DEF Char, Live, At, IInv
  <2>2. sane
    BY <1>4 DEF Char, Live, At, Runs, Awake
  <2>3. ip' = ip
    BY <1>4, <2>2 DEF Char, BadRead
  <2> QED
    BY <1>1, <2>1, <2>3 DEF HasCopy, Cur
<1>5. ASSUME Active(t), NEW r, Go(t, r)
      PROVE  \/ HasCopy(t) /\ got'[t][4] = got[t][4] /\ ~FreeCopy(t)
             \/ Copy(t) /\ got'[t][4] = fresh
  <2>1. ip' = ip /\ step'[t] = step[t] + 1 /\ got'[t] = r /\ Cur(t)' = Cur(t)
    BY <1>1, <1>5 DEF Go, IInv, TypeInv, Cur
  <2>2. Cur(t).op = "SET_STR_CHAR" /\ Len(r) = 4 /\ Active(t)'
    BY <1>1, <1>5, <2>1 DEF HasCopy, Active
  <2>3. /\ step[t] \in 1..7 /\ Listed(got[t]) /\ Len(got[t]) = Collected[step[t]]
        /\ Now(t) = SetCharPlan[step[t]] /\ Len(Plan(Cur(t))) = 7
    BY <1>5, <2>2, SetCharSteps, StringPlans DEF IInv
  <2>4. step[t] + 1 \in 1..7 /\ Collected[step[t] + 1] = 4
    BY <2>1, <2>2, <2>3 DEF IInv, InPlan
  <2>5. step[t] \in 5..6
    BY <2>3, <2>4 DEF Collected
  <2>6. CASE step[t] = 5
    <3>1. Now(t).do = "copy" /\ Len(got[t]) = 3
      BY <2>3, <2>6 DEF SetCharPlan, Raw, Do, Collected
    <3>2. Copy(t)
      <4>1. Copy(t) \/ ReadFreed(t)
        BY <1>5, <3>1, ActionAt
      <4>2. ~ReadFreed(t)
        BY <2>1, <2>3 DEF ReadFreed, BadRead
      <4> QED
        BY <4>1, <4>2
    <3>3. Go(t, Append(got[t], fresh))
      BY <2>1, <2>3, <3>2 DEF Copy, BadRead
    <3>4. got'[t] = Append(got[t], fresh)
      BY <3>3 DEF Go, IInv, TypeInv
    <3>5. Append(got[t], fresh)[Len(got[t]) + 1] = fresh
      BY <2>3, Grow
    <3>7. Len(got[t]) + 1 = 4
      BY <3>1
    <3>6. got'[t][4] = fresh
      BY <3>4, <3>5, <3>7, Zenon
    <3> QED
      BY <3>2, <3>6
  <2>7. CASE step[t] = 6
    <3>1. Now(t).do = "set" /\ Now(t).as = "string" /\ Len(got[t]) = 4
      BY <2>3, <2>7 DEF SetCharPlan, Raw, Do, Collected
    <3>2. Wait(t) \/ Free(t) \/ Replace(t)
      BY <1>5, <3>1, ActionAt DEF Set
    <3>3. got'[t] = got[t]
      BY <2>1, <2>2, <2>3, <3>2 DEF Wait, Free, Replace, Throw, BadRead, Go, IInv, TypeInv
    <3>4. ~FreeCopy(t)
      BY <3>1 DEF FreeCopy, At
    <3> QED
      BY <1>5, <2>2, <3>1, <3>3, <3>4 DEF HasCopy, Active
  <2> QED
    BY <2>5, <2>6, <2>7
<1> QED
  BY <1>2, <1>3, <1>4, <1>5, OnlyMoves

LEMMA BufferedStep ==
  ASSUME IInv, IInv', Waiting, Buffered, NEW t \in Threads, Step(t)
  PROVE  Buffered'
<1>1. script' = script /\ OthersStay(t)
  BY Frame DEF Waiting
<1>2. ASSUME NEW a \in DOMAIN heap' PROVE Listed(heap'[a])
  <2>1. CASE a \in DOMAIN heap
    BY <2>1, HeapChanges DEF Buffered
  <2>2. CASE a \notin DOMAIN heap
    <3>1. a = fresh
      BY <1>2, <2>2, HeapChanges
    <3>2. \/ heap'[a] = Copied(t) /\ Live(t, "copy")
          \/ heap'[a] \in {heap[b] : b \in DOMAIN heap}
      BY <1>2, <2>2, <3>1, HeapChanges
    <3>3. CASE heap'[a] = Copied(t) /\ Live(t, "copy")
      <4>1. Listed(Text(t))
        BY <3>3 DEF Live, Text, Buffered
      <4>2. Listed([Text(t) EXCEPT ![got[t][2] + 1] = got[t][3]])
        BY <4>1, ListedExcept, Zenon
      <4> QED
        BY <3>3, <4>2 DEF Copied
    <3> QED
      BY <3>2, <3>3 DEF Buffered
  <2> QED
    BY <2>1, <2>2
<1>3. \A u \in Threads \ {t} : (HasCopy(u)' <=> HasCopy(u)) /\ got'[u] = got[u]
  BY <1>1, OtherCopies
<1>4. ASSUME NEW u \in Threads \ {t}, HasCopy(t)', HasCopy(u)', got'[t][4] = got'[u][4]
      PROVE  FALSE
  <2>1. HasCopy(u) /\ got[u][4] = got'[t][4]
    BY <1>3, <1>4
  <2>2. got[u][4] \in Nat /\ got[u][4] < fresh
    BY <2>1 DEF IInv, Private
  <2>3. ~(HasCopy(t) /\ got'[t][4] = got[t][4])
    BY <2>1 DEF Buffered
  <2>4. got'[t][4] = fresh
    BY <1>4, <2>3, CopyHistory
  <2> QED
    BY <2>1, <2>2, <2>4
<1>5. ASSUME NEW u \in Threads, NEW w \in Threads,
             HasCopy(u)', HasCopy(w)', got'[u][4] = got'[w][4]
      PROVE  u = w
  <2>1. CASE u # t /\ w # t
    BY <1>3, <1>5, <2>1 DEF Buffered
  <2>2. CASE u = t \/ w = t
    BY <1>4, <1>5, <2>2
  <2> QED
    BY <2>1, <2>2
<1>6. ASSUME NEW u \in copying' PROVE Var(u)' \notin Consts
  <2>1. u \in Threads
    BY <1>6 DEF IInv, TypeInv
  <2>2. CASE u # t
    <3>1. u \in copying /\ Var(u)' = Var(u)
      BY <1>6, <2>1, <2>2, OthersAtGate DEF Waiting
    <3> QED
      BY <3>1 DEF Buffered
  <2>3. CASE u = t /\ t \in copying
    <3>1. copying' = copying
      BY <1>6, <2>3, GatesStay, t \notin copying \ {t} DEF Free, Replace
    <3>2. Now(t).do = "set" /\ Active(t)
      BY <2>3 DEF IInv, Copying
    <3>3. Set(t) \/ Wait(t) \/ Free(t) \/ Replace(t)
      BY <3>2, ActionAt
    <3>4. Replace(t)
      BY <2>3, <3>3 DEF Wait, Free, Set, IInv, Copying
    <3>5. UNCHANGED <<ip, step>>
      BY <1>6, <2>3, <3>4, t \notin copying \ {t} DEF Replace, BadRead
    <3> QED
      BY <1>1, <2>3, <3>5 DEF Var, Now, Cur, Buffered
  <2>4. CASE u = t /\ t \notin copying
    <3>1. Free(t) /\ ~Refused(t)
      BY <1>6, <2>4, GatesStay DEF Free, Replace
    <3>2. UNCHANGED <<ip, step>> /\ At(t, "set")
      BY <3>1 DEF Free
    <3>3. Var(t) \notin Consts
      BY <3>1, <3>2 DEF Refused, At
    <3> QED
      BY <1>1, <2>4, <3>2, <3>3 DEF Var, Now, Cur
  <2> QED
    BY <2>1, <2>2, <2>3, <2>4
<1> QED
  BY <1>2, <1>5, <1>6 DEF Buffered

-----------------------------------------------------------------------------
(* Nothing that was freed is read, and nothing outside a buffer.           *)

(* A raw read finds the text of the variable in its buffer.                *)
LEMMA RawReads ==
  ASSUME SafeInv, Guarded, NEW t \in Threads, Active(t),
         Now(t).do \in {"fits", "bounds", "copy", "fetch", "length", "char"}
  PROVE  /\ ReadsString(Cur(t)) /\ Source(Cur(t)) \in Strings
         /\ Pointer(t) \in DOMAIN heap /\ Listed(Text(t))
         /\ Text(t) = heap[value[Source(Cur(t))]]
<1>1. IInv /\ Pairs /\ Buffered /\ Owning /\ Reads(t)
  BY DEF SafeInv
<1>2. ReadsString(Cur(t)) /\ (Now(t).do \in {"length", "char"} => Cur(t).op = "OUT")
  BY <1>1, Running, RawPlans DEF IInv
<1>3. t \notin copying
  BY <1>1 DEF IInv, Copying
<1>4. step[t] \in 2..6 /\ (Now(t).do = "char" => step[t] = 4)
  <2>1. CASE Cur(t).op = "SET_STR_CHAR"
    <3>1. step[t] \in 1..7 /\ Now(t) = SetCharPlan[step[t]]
      BY <1>1, <2>1, StringPlans
    <3> QED
      BY <1>2, <2>1, <3>1 DEF SetCharPlan, Do, Raw
  <2>2. CASE Cur(t).op = "GET_STR_CHAR"
    <3>1. step[t] \in 1..5 /\ Now(t) = GetCharPlan[step[t]]
      BY <1>1, <2>2, StringPlans
    <3> QED
      BY <1>2, <2>2, <3>1 DEF GetCharPlan, Do, Raw
  <2>3. CASE Cur(t).op = "OUT"
    <3>1. step[t] \in 1..5 /\ Now(t) = OutPlan[step[t]]
      BY <1>1, <2>3, StringPlans
    <3> QED
      BY <1>2, <2>3, <3>1 DEF OutPlan, Do, Raw
  <2>4. CASE Cur(t).op = "ASSIGN" /\ Type[Cur(t).args[1]] = "STRING"
    <3>1. step[t] \in 1..3 /\ Now(t) = AssignPlan("STRING")[step[t]]
      BY <1>1, <2>4, StringPlans
    <3> QED
      BY <1>2, <2>4, <3>1 DEF AssignPlan, Do, Raw
  <2> QED
    BY <1>2, <2>1, <2>2, <2>3, <2>4 DEF ReadsString
<1>5. /\ Source(Cur(t)) \in Strings /\ got[t][1] = value[Source(Cur(t))]
      /\ got[t][1] \in DOMAIN heap /\ Listed(heap[got[t][1]])
  BY <1>1, <1>2, <1>3, <1>4, Pointing
<1>6. Pointer(t) = got[t][1]
  <2>1. CASE Now(t).do = "char"
    <3>1. got[t][3] = value[Source(Cur(t))]
      BY <1>1, <1>2, <1>4, <2>1 DEF Reads, Prints
    <3> QED
      BY <1>5, <2>1, <3>1 DEF Pointer
  <2>2. CASE Now(t).do # "char"
    BY <2>2 DEF Pointer
  <2> QED
    BY <2>1, <2>2
<1> QED
  BY <1>2, <1>5, <1>6 DEF Text

LEMMA SaneStep ==
  ASSUME SafeInv, Guarded, NEW t \in Threads, Step(t)
  PROVE  sane'
<1> DEFINE v == Source(Cur(t))
           s == heap[value[v]]
<1>1. IInv /\ Pairs /\ Buffered /\ Owning /\ Reads(t) /\ sane
  BY DEF SafeInv
<1>2. CASE ReadFreed(t)
  <2>1. /\ Active(t) /\ Now(t).do \in {"fits", "bounds", "copy", "fetch", "length", "char"}
        /\ Pointer(t) \notin DOMAIN heap
    BY <1>2 DEF ReadFreed, Runs, Awake, Active
  <2> QED
    BY <2>1, RawReads
<1>3. CASE Copy(t)
  <2>1. Active(t) /\ Now(t).do = "copy"
    BY <1>3 DEF Copy, Live, At, Runs, Awake, Active
  <2>2. Cur(t).op = "SET_STR_CHAR"
    BY <1>1, <2>1, Running, RawPlans DEF IInv
  <2>3. step[t] = 5 /\ t \notin copying
    BY <1>1, <2>1, <2>2, SetCharSteps DEF IInv, Copying
  <2>4. Text(t) = s /\ ReadsString(Cur(t))
    BY <2>1, RawReads
  <2>5. got[t][2] \in 0..Len(Text(t)) - 1
    BY <1>1, <2>1, <2>2, <2>3, <2>4 DEF Reads, Tested
  <2> QED
    BY <1>1, <1>3, <2>5 DEF Copy, Go
<1>4. CASE Fetch(t)
  <2>1. Active(t) /\ Now(t).do = "fetch"
    BY <1>4 DEF Fetch, Live, At, Runs, Awake, Active
  <2>2. Cur(t).op = "GET_STR_CHAR"
    BY <1>1, <2>1, Running, RawPlans DEF IInv
  <2>3. step[t] = 4
    <3>1. step[t] \in 1..5 /\ Now(t) = GetCharPlan[step[t]]
      BY <1>1, <2>1, <2>2, StringPlans
    <3> QED
      BY <2>1, <3>1 DEF GetCharPlan, Do, Raw
  <2>4. Text(t) = s /\ ReadsString(Cur(t))
    BY <2>1, RawReads
  <2>5. got[t][2] \in 0..Len(Text(t)) - 1
    BY <1>1, <2>1, <2>2, <2>3, <2>4 DEF Reads, Tested
  <2> QED
    BY <1>1, <1>4, <2>5 DEF Fetch, Go
<1>5. CASE Char(t)
  <2>1. Active(t) /\ Now(t).do = "char"
    BY <1>5 DEF Char, Live, At, Runs, Awake, Active
  <2>2. Cur(t).op = "OUT"
    BY <1>1, <2>1, Running, RawPlans DEF IInv
  <2>3. step[t] = 4
    <3>1. step[t] \in 1..5 /\ Now(t) = OutPlan[step[t]]
      BY <1>1, <2>1, <2>2, StringPlans
    <3> QED
      BY <2>1, <3>1 DEF OutPlan, Do, Raw
  <2>4. Text(t) = s /\ ReadsString(Cur(t)) /\ Listed(Text(t))
    BY <2>1, RawReads
  <2>5. Len(text[t]) < Len(Text(t)) /\ Len(text[t]) \in Nat /\ Len(Text(t)) \in Nat
    BY <1>1, <2>1, <2>2, <2>3, <2>4 DEF Reads, Prints, Listed
  <2>6. ~(Len(text[t]) + 1 > Len(Text(t)))
    BY <2>5
  <2> QED
    BY <1>1, <1>5, <2>6, Zenon DEF Char
<1>6. CASE Replace(t)
  <2>1. t \in copying /\ Active(t) /\ Now(t).do = "set" /\ Now(t).as = "string"
    BY <1>1, <1>6 DEF Replace, IInv, Copying
  <2>2. Cur(t).op \in {"SET_STR_CHAR", "ASSIGN"} /\ ReadsString(Cur(t))
    BY <1>1, <2>1, Running, Plans, RawPlans DEF IInv
  <2>3. got[t][Len(got[t])] \in DOMAIN heap
    <3>1. CASE Cur(t).op = "SET_STR_CHAR"
      <4>1. step[t] = 6 /\ Len(got[t]) = Collected[step[t]]
        BY <1>1, <2>1, <3>1, SetCharSteps DEF IInv
      <4>2. Len(got[t]) = 4
        BY <4>1 DEF Collected
      <4>3. got[t][4] \in DOMAIN heap
        BY <1>1, <2>1, <2>2, <3>1, <4>1 DEF Reads, Edits
      <4> QED
        BY <4>2, <4>3
    <3>2. CASE Cur(t).op = "ASSIGN"
      <4>1. step[t] \in 1..3 /\ Now(t) = AssignPlan("STRING")[step[t]]
        BY <1>1, <2>1, <2>2, <3>2, StringPlans DEF ReadsString
      <4>2. step[t] = 3
        BY <2>1, <4>1 DEF AssignPlan, Do, Raw
      <4>3. Len(got[t]) = 1
        BY <1>1, <2>1, <2>2, <3>2, <4>2 DEF Reads, PointerKept, Gathered
      <4>4. got[t][1] \in DOMAIN heap
        BY <1>1, <2>1, <2>2, <3>2, <4>2, Pointing
      <4> QED
        BY <4>3, <4>4
    <3> QED
      BY <2>2, <3>1, <3>2
  <2> QED
    BY <1>1, <1>6, <2>3 DEF Replace, Finish, Go, GoTo
<1>7. CASE ~(ReadFreed(t) \/ Copy(t) \/ Fetch(t) \/ Char(t) \/ Replace(t))
  <2>1. CASE Reject(t) \/ Wait(t) \/ Lock(t) \/ Unlock(t) \/ Get(t) \/ Zero(t)
    BY <1>1, <2>1 DEF Reject, Wait, Lock, Unlock, Get, Zero, Throw, Go, GoTo, Finish
  <2>2. CASE Branch(t) \/ Jump(t) \/ Sleep(t) \/ Fits(t) \/ Bounds(t) \/ Length(t) \/ PrintOut(t)
    BY <1>1, <2>2 DEF Branch, Jump, Sleep, Fits, Bounds, Length, PrintOut, Throw, Go, GoTo, Finish
  <2>3. CASE Set(t) \/ Free(t) \/ FreeCopy(t)
    BY <1>1, <2>3 DEF Set, Free, FreeCopy, Throw, Go, GoTo, Finish
  <2> QED
    BY <1>7, <2>1, <2>2, <2>3 DEF Step
<1> QED
  BY <1>2, <1>3, <1>4, <1>5, <1>6, <1>7

-----------------------------------------------------------------------------
(* What another thread has read stays as it was.                           *)

LEMMA Writers ==
  ASSUME IInv, Buffered, NEW t \in Threads,
         (Set(t) /\ ~Refused(t)) \/ (Free(t) /\ ~Refused(t)) \/ Replace(t)
  PROVE  /\ Active(t) /\ Now(t).do = "set" /\ Cur(t).op # "LOCK"
         /\ Var(t) \in Vars \ Consts /\ ip[t] \in Uses(t, Var(t))
<1>1. Active(t) /\ Now(t).do = "set"
  BY DEF Set, Free, Replace, At, Runs, Awake, Active, IInv, Copying
<1>2. Var(t) \in Vars /\ ip[t] \in Uses(t, Var(t))
  BY <1>1, GateVariable
<1>3. Cur(t).op # "LOCK"
  BY <1>1, Running, AccessPlans DEF IInv
<1>4. Var(t) \notin Consts
  <2>1. CASE Replace(t)
    BY <2>1 DEF Replace, Buffered
  <2>2. CASE ~Replace(t)
    BY <1>1, <2>2 DEF Refused
  <2> QED
    BY <2>1, <2>2
<1> QED
  BY <1>1, <1>2, <1>3, <1>4

LEMMA KeptVariable ==
  ASSUME SafeInv, Guarded, NEW t \in Threads, Step(t), NEW u \in Threads \ {t},
         NEW v \in Vars, ip[u] \in Uses(u, v), Cur(u).op # "LOCK"
  PROVE  /\ value'[v] = value[v]
         /\ v \in Strings /\ value[v] \in DOMAIN heap =>
              value[v] \in DOMAIN heap' /\ heap'[value[v]] = heap[value[v]]
<1>1. IInv /\ Pairs /\ Buffered /\ Owning
  BY DEF SafeInv
<1>2. ASSUME (Set(t) /\ ~Refused(t)) \/ (Free(t) /\ ~Refused(t)) \/ Replace(t)
      PROVE  Var(t) # v
  BY <1>1, <1>2, Writers, Exclusive DEF IInv
<1>3. value'[v] = value[v]
  <2>1. CASE value' = value
    BY <2>1
  <2>2. CASE Set(t) /\ ~Refused(t)
    <3>1. PICK y : value' = [value EXCEPT ![Var(t)] = y]
      BY <2>2 DEF Set
    <3> QED
      BY <1>1, <1>2, <2>2, <3>1 DEF IInv, TypeInv
  <2>3. CASE Replace(t)
    <3>1. value' = value \/ value' = [value EXCEPT ![Var(t)] = fresh]
      BY <2>3 DEF Replace, NewBuffer
    <3> QED
      BY <1>1, <1>2, <2>3, <3>1 DEF IInv, TypeInv
  <2> QED
    BY <2>1, <2>2, <2>3, ValuesStay
<1>4. ASSUME v \in Strings, value[v] \in DOMAIN heap
      PROVE  value[v] \in DOMAIN heap'
  <2>1. CASE Free(t) /\ ~Refused(t) /\ DOMAIN heap' = DOMAIN heap \ {value[Var(t)]}
    <3>1. Var(t) \in Strings
      BY <1>1, <2>1, SettersVariable DEF Free, Strings
    <3>2. value[Var(t)] # value[v]
      BY <1>1, <1>2, <1>4, <2>1, <3>1 DEF IInv, BuffersPrivate
    <3> QED
      BY <1>4, <2>1, <3>2
  <2>2. CASE FreeCopy(t) /\ DOMAIN heap' = DOMAIN heap \ {got[t][4]}
    <3>1. Active(t) /\ Now(t).do = "free"
      BY <2>2 DEF FreeCopy, At, Runs, Awake, Active
    <3>2. Cur(t).op = "SET_STR_CHAR"
      BY <1>1, <3>1, Running, Plans DEF IInv
    <3>3. step[t] = 7 /\ Len(got[t]) = Collected[step[t]]
      BY <1>1, <3>1, <3>2, SetCharSteps DEF IInv
    <3>4. HasCopy(t)
      BY <3>1, <3>2, <3>3 DEF HasCopy, Active, Collected
    <3> QED
      BY <1>1, <1>4, <2>2, <3>4 DEF IInv, Private
  <2> QED
    BY <1>1, <1>4, <2>1, <2>2, HeapChanges
<1> QED
  BY <1>1, <1>3, <1>4, HeapChanges

LEMMA KeptCopy ==
  ASSUME SafeInv, IInv', NEW t \in Threads, Step(t), NEW u \in Threads \ {t},
         HasCopy(u), got[u][4] \in DOMAIN heap
  PROVE  got[u][4] \in DOMAIN heap' /\ heap'[got[u][4]] = heap[got[u][4]]
<1>1. IInv /\ Buffered
  BY DEF SafeInv
<1>2. got[u][4] \in DOMAIN heap'
  <2>1. CASE Free(t) /\ ~Refused(t) /\ DOMAIN heap' = DOMAIN heap \ {value[Var(t)]}
    <3>1. Var(t) \in Strings
      BY <1>1, <2>1, SettersVariable DEF Free, Strings
    <3> QED
      BY <1>1, <2>1, <3>1 DEF IInv, Private
  <2>2. CASE FreeCopy(t) /\ DOMAIN heap' = DOMAIN heap \ {got[t][4]}
    <3>1. Active(t) /\ Now(t).do = "free"
      BY <2>2 DEF FreeCopy, At, Runs, Awake, Active
    <3>2. Cur(t).op = "SET_STR_CHAR"
      BY <1>1, <3>1, Running, Plans DEF IInv
    <3>3. step[t] = 7 /\ Len(got[t]) = Collected[step[t]]
      BY <1>1, <3>1, <3>2, SetCharSteps DEF IInv
    <3>4. HasCopy(t)
      BY <3>1, <3>2, <3>3 DEF HasCopy, Active, Collected
    <3> QED
      BY <1>1, <2>2, <3>4 DEF Buffered
  <2> QED
    BY <1>1, <2>1, <2>2, HeapChanges
<1> QED
  BY <1>1, <1>2, HeapChanges

LEMMA CopyingReads ==
  ASSUME IInv, NEW t \in copying
  PROVE  Cur(t).op \in {"SET_STR_CHAR", "ASSIGN"} /\ Active(t)
<1>1. t \in Threads /\ Active(t) /\ Now(t).do = "set" /\ Now(t).as = "string"
  BY DEF IInv, TypeInv, Copying
<1> QED
  BY <1>1, Running, Plans DEF IInv

LEMMA ArgumentUsed ==
  ASSUME TypeInv, NEW t \in Threads, ip[t] \in DOMAIN script[t],
         NEW k \in 1..Len(Cur(t).args)
  PROVE  ip[t] \in Uses(t, Cur(t).args[k])
<1>1. ip[t] \in 1..Len(script[t])
  BY DEF TypeInv
<1> QED
  BY <1>1 DEF Uses, Cur

LEMMA ReadKept ==
  ASSUME NEW v, NEW as, value'[v] = value[v]
  PROVE  Read(v, as)' = Read(v, as)
BY DEF Read

LEMMA OthersRead ==
  ASSUME SafeInv, Guarded, IInv', NEW t \in Threads, Step(t), NEW u \in Threads \ {t}
  PROVE  Reads(u)'
<1> DEFINE v == Source(Cur(u))
           s == heap[value[v]]
<1>1. IInv /\ Pairs /\ Waiting /\ Buffered /\ Owning /\ Reads(u)
  BY DEF SafeInv
<1>2. /\ script' = script /\ step'[u] = step[u] /\ got'[u] = got[u] /\ text'[u] = text[u]
      /\ Cur(u)' = Cur(u) /\ (Active(u)' <=> Active(u)) /\ (u \in copying' <=> u \in copying)
  <2>1. script' = script /\ OthersStay(t) /\ text'[u] = text[u]
    BY <1>1, Frame DEF Waiting
  <2> QED
    BY <1>1, <2>1, OtherCopies, OthersAtGate DEF Waiting, OthersStay
<1> SUFFICES ASSUME Active(u), ReadsString(Cur(u))
             PROVE  PointerKept(u, v)' /\ Tested(u, s)' /\ Edits(u, s)' /\ Prints(u, v, s)'
  BY <1>2 DEF Reads
<1>3. PointerKept(u, v) /\ Tested(u, s) /\ Edits(u, s) /\ Prints(u, v, s)
  BY <1>1 DEF Reads
<1>4. Cur(u) \in Instruction /\ ~Misused(Cur(u)) /\ ip[u] \in DOMAIN script[u]
  BY <1>1, Running DEF IInv, Active
<1>5. ASSUME NEW k \in 1..Len(Cur(u).args), Cur(u).args[k] \in Vars
      PROVE  /\ value'[Cur(u).args[k]] = value[Cur(u).args[k]]
             /\ Cur(u).args[k] \in Strings /\ value[Cur(u).args[k]] \in DOMAIN heap =>
                  /\ value[Cur(u).args[k]] \in DOMAIN heap'
                  /\ heap'[value[Cur(u).args[k]]] = heap[value[Cur(u).args[k]]]
  <2>1. Cur(u).op # "LOCK" /\ ip[u] \in Uses(u, Cur(u).args[k])
    BY <1>1, <1>4, ArgumentUsed DEF ReadsString, IInv
  <2> QED
    BY <1>5, <2>1, KeptVariable
<1>6. /\ v' = v /\ value'[v] = value[v]
      /\ v \in Strings /\ value[v] \in DOMAIN heap => heap'[value[v]] = heap[value[v]]
  <2>1. v \in Vars /\ \E k \in 1..Len(Cur(u).args) : Cur(u).args[k] = v
    BY <1>4, StringArgs
  <2>2. v' = v
    BY <1>2 DEF Source
  <2> QED
    BY <1>5, <2>1, <2>2
<1>7. PointerKept(u, v)'
  BY <1>2, <1>3, <1>6 DEF PointerKept
<1>8. ASSUME step[u] \in 2..6, u \notin copying PROVE s' = s
  <2>1. v \in Strings /\ value[v] \in DOMAIN heap
    BY <1>1, <1>8, Pointing
  <2> QED
    BY <1>6, <2>1
<1>9. u \in copying => Cur(u).op \in {"SET_STR_CHAR", "ASSIGN"}
  BY <1>1, CopyingReads
<1>10. Tested(u, s)'
  <2>1. CASE Cur(u).op = "GET_STR_CHAR" /\ step[u] = 4
    <3>1. s' = s
      BY <1>8, <1>9, <2>1
    <3> QED
      BY <1>2, <1>3, <2>1, <3>1 DEF Tested
  <2>2. CASE Cur(u).op = "SET_STR_CHAR" /\ step[u] \in 5..6 /\ u \notin copying
    <3>1. s' = s
      BY <1>8, <2>2
    <3> QED
      BY <1>2, <1>3, <2>2, <3>1 DEF Tested
  <2> QED
    BY <1>2, <2>1, <2>2 DEF Tested
<1>11. Edits(u, s)'
  <2> SUFFICES ASSUME Cur(u).op = "SET_STR_CHAR" PROVE Edits(u, s)'
    BY <1>2 DEF Edits
  <2>1. Cur(u).args \in Seq(Vars) /\ Len(Cur(u).args) = 3
    BY <1>4, StringArgs
  <2>2. /\ value'[Cur(u).args[2]] = value[Cur(u).args[2]]
        /\ value'[Cur(u).args[3]] = value[Cur(u).args[3]]
    BY <1>5, <2>1
  <2>3. /\ Read(Cur(u).args[2], "int")' = Read(Cur(u).args[2], "int")
        /\ Read(Cur(u).args[3], "char")' = Read(Cur(u).args[3], "char")
    BY <1>2, <2>2, ReadKept
  <2>4. ASSUME step[u] \in 6..7
        PROVE  got[u][4] \in DOMAIN heap' /\ heap'[got[u][4]] = heap[got[u][4]]
    <3>1. got[u][4] \in DOMAIN heap
      BY <1>3, <2>4 DEF Edits
    <3>2. Len(got[u]) = 4
      <4>1. Len(got[u]) = Collected[step[u]]
        BY <1>1 DEF IInv, InPlan
      <4> QED
        BY <2>4, <4>1 DEF Collected
    <3>3. HasCopy(u)
      BY <1>4, <3>2 DEF HasCopy
    <3> QED
      BY <1>1, <3>1, <3>3, KeptCopy
  <2>5. ASSUME step[u] = 6, u \notin copying
        PROVE  s' = s /\ heap[got[u][4]] = [s EXCEPT ![got[u][2] + 1] = got[u][3]]
    BY <1>3, <1>8, <2>5 DEF Edits
  <2> QED
    BY <1>2, <1>3, <2>3, <2>4, <2>5 DEF Edits
<1>12. Prints(u, v, s)'
  <2> SUFFICES ASSUME Cur(u).op = "OUT" PROVE Prints(u, v, s)'
    BY <1>2 DEF Prints
  <2>1. step[u] \in 2..6 => s' = s
    BY <1>8, <1>9
  <2> QED
    BY <1>2, <1>3, <1>6, <2>1 DEF Prints
<1> QED
  BY <1>7, <1>10, <1>11, <1>12

-----------------------------------------------------------------------------
(* What a thread itself reads, from step to step.                          *)

LEMMA UnmovedReads ==
  ASSUME NEW t \in Threads, Reads(t),
         UNCHANGED <<script, ip, step, got, text, value, heap, copying>>
  PROVE  Reads(t)'
<1> DEFINE v == Source(Cur(t))
           s == heap[value[v]]
<1>1. Cur(t)' = Cur(t) /\ (Active(t)' <=> Active(t))
  BY DEF Cur, Active
<1>2. v' = v /\ s' = s
  BY <1>1 DEF Source
<1> SUFFICES ASSUME Active(t), ReadsString(Cur(t))
             PROVE  PointerKept(t, v)' /\ Tested(t, s)' /\ Edits(t, s)' /\ Prints(t, v, s)'
  BY <1>1 DEF Reads
<1>3. PointerKept(t, v) /\ Tested(t, s) /\ Edits(t, s) /\ Prints(t, v, s)
  BY DEF Reads
<1>4. PointerKept(t, v)' /\ Tested(t, s)' /\ Prints(t, v, s)'
  BY <1>1, <1>2, <1>3 DEF PointerKept, Tested, Prints
<1>5. Edits(t, s)'
  <2>1. /\ Read(Cur(t).args[2], "int")' = Read(Cur(t).args[2], "int")
        /\ Read(Cur(t).args[3], "char")' = Read(Cur(t).args[3], "char")
    BY <1>1, ReadKept
  <2> QED
    BY <1>1, <1>2, <1>3, <2>1 DEF Edits
<1> QED
  BY <1>4, <1>5

LEMMA RestartReads ==
  ASSUME IInv, DOMAIN text = Threads, NEW t \in Threads, NEW i, GoTo(t, i)
  PROVE  Reads(t)'
<1> DEFINE v == Source(Cur(t))
           s == heap[value[v]]
<1> SUFFICES ASSUME ReadsString(Cur(t))'
             PROVE  PointerKept(t, v)' /\ Tested(t, s)' /\ Edits(t, s)' /\ Prints(t, v, s)'
  BY DEF Reads
<1>1. step'[t] = 1 /\ got'[t] = <<>> /\ text'[t] = <<>>
  BY DEF GoTo, IInv, TypeInv
<1>2. Listed(<<>>) /\ Len(<<>>) = 0
  BY DEF Listed
<1>3. Gathered(Cur(t)'.op)[1] = 0
  BY DEF Gathered, ReadsString, Collected
<1>4. PointerKept(t, v)'
  BY <1>1, <1>2, <1>3 DEF PointerKept
<1>5. Tested(t, s)' /\ Edits(t, s)' /\ Prints(t, v, s)'
  BY <1>1, <1>2 DEF Tested, Edits, Prints
<1> QED
  BY <1>4, <1>5

(* doDelete takes the variable's buffer, not the copy.                     *)
LEMMA FreeReads ==
  ASSUME SafeInv, Guarded, IInv', NEW t \in Threads, Free(t), ~Refused(t)
  PROVE  Reads(t)'
<1> DEFINE v == Source(Cur(t))
           s == heap[value[v]]
<1>1. /\ UNCHANGED <<script, ip, step, got, text, value>> /\ copying' = copying \cup {t}
      /\ DOMAIN heap' = DOMAIN heap \ {value[Var(t)]}
  BY DEF Free, Restrict
<1>2. IInv /\ Reads(t) /\ Active(t)
  BY DEF SafeInv, Free, At, Runs, Awake, Active
<1>3. Cur(t).op \in {"SET_STR_CHAR", "ASSIGN"} /\ Var(t) \in Strings
  BY <1>2, SettersVariable DEF Free, Strings
<1>4. Cur(t)' = Cur(t) /\ (Active(t)' <=> Active(t)) /\ v' = v
  BY <1>1 DEF Cur, Active, Source
<1> SUFFICES ASSUME ReadsString(Cur(t))
             PROVE  PointerKept(t, v)' /\ Tested(t, s)' /\ Edits(t, s)' /\ Prints(t, v, s)'
  BY <1>4 DEF Reads
<1>5. PointerKept(t, v) /\ Edits(t, s)
  BY <1>2 DEF Reads
<1>6. PointerKept(t, v)'
  BY <1>1, <1>4, <1>5 DEF PointerKept
<1>7. Tested(t, s)' /\ Prints(t, v, s)'
  BY <1>1, <1>3, <1>4 DEF Tested, Prints
<1>8. Edits(t, s)'
  <2> SUFFICES ASSUME Cur(t).op = "SET_STR_CHAR" PROVE Edits(t, s)'
    BY <1>4 DEF Edits
  <2>1. /\ Read(Cur(t).args[2], "int")' = Read(Cur(t).args[2], "int")
        /\ Read(Cur(t).args[3], "char")' = Read(Cur(t).args[3], "char")
    BY <1>1, <1>4, ReadKept
  <2>2. ASSUME step[t] \in 6..7 PROVE got[t][4] \in DOMAIN heap'
    <3>1. Len(got[t]) = 4
      <4>1. Len(got[t]) = Collected[step[t]]
        BY <1>2 DEF IInv, InPlan
      <4> QED
        BY <2>2, <4>1 DEF Collected
    <3>2. HasCopy(t)
      BY <1>2, <3>1 DEF HasCopy, Active
    <3>3. got[t][4] # value[Var(t)]
      BY <1>2, <1>3, <3>2 DEF IInv, Private
    <3>4. got[t][4] \in DOMAIN heap
      BY <1>5, <2>2 DEF Edits
    <3> QED
      BY <1>1, <3>3, <3>4
  <2>3. t \in copying'
    BY <1>1
  <2> QED
    BY <1>1, <1>4, <1>5, <2>1, <2>2, <2>3 DEF Edits
<1> QED
  BY <1>6, <1>7, <1>8

(* A step to the next step of the plan.                                    *)
LEMMA Advance ==
  ASSUME IInv, NEW t \in Threads, Step(t), Active(t), NEW r, Go(t, r)
  PROVE  /\ Cur(t)' = Cur(t) /\ Active(t)' /\ step'[t] = step[t] + 1 /\ step'[t] # step[t]
         /\ got'[t] = r /\ text' = text
         /\ Now(t).do = "get" =>
              /\ UNCHANGED <<value, heap, copying>>
              /\ \E x \in Read(Var(t), Now(t).as) : r = Append(got[t], x)
         /\ Now(t).do \in {"fits", "bounds"} =>
              /\ UNCHANGED <<value, heap, copying>>
              /\ r = got[t]
              /\ Now(t).do = "bounds" => InBounds(got[t][2], Text(t))
         /\ Now(t).do \in {"length", "fetch"} =>
              /\ UNCHANGED <<value, heap, copying>>
              /\ \E x : r = Append(got[t], x)
              /\ Now(t).do = "length" => Text(t) # <<>> /\ r = Append(got[t], Len(Text(t)))
         /\ Now(t).do = "copy" => Copy(t)
         /\ Now(t).do = "set" => Replace(t) /\ r = got[t]
         /\ Now(t).do = "char" => Char(t)
         /\ Now(t).do \notin {"print", "free"}
<1>1. script' = script /\ step[t] \in Nat
  BY OnlyMoves, Running DEF IInv
<1>2. /\ ip' = ip /\ step'[t] = step[t] + 1 /\ got'[t] = r /\ text' = text
      /\ step'[t] # step[t] /\ sane' = sane
  BY <1>1 DEF Go, IInv, TypeInv
<1>3. Cur(t)' = Cur(t) /\ Active(t)'
  BY <1>1, <1>2 DEF Cur, Active
<1>4. sane
  BY OnlyMoves DEF Awake
<1>5. ~ReadFreed(t) /\ ~Wait(t)
  BY <1>2, <1>4 DEF ReadFreed, BadRead, Wait
<1>0. ~(\E i : GoTo(t, i))
  <2> SUFFICES ASSUME NEW i, GoTo(t, i) PROVE FALSE
    OBVIOUS
  <2>1. step'[t] = 1
    BY DEF GoTo, IInv, TypeInv
  <2>2. step[t] >= 1
    BY Running DEF IInv
  <2> QED
    BY <1>1, <1>2, <2>1, <2>2
<1>6. ASSUME Now(t).do = "get"
      PROVE  /\ UNCHANGED <<value, heap, copying>>
             /\ \E x \in Read(Var(t), Now(t).as) : r = Append(got[t], x)
  <2>1. Get(t)
    BY <1>5, <1>6, ActionAt
  <2>2. PICK x \in Read(Var(t), Now(t).as) : Go(t, Append(got[t], x))
    BY <1>2, <2>1 DEF Get, Throw
  <2>3. got'[t] = Append(got[t], x)
    BY <2>2 DEF Go, IInv, TypeInv
  <2> QED
    BY <1>2, <2>1, <2>3 DEF Get
<1>7. ASSUME Now(t).do \in {"fits", "bounds"}
      PROVE  /\ UNCHANGED <<value, heap, copying>>
             /\ r = got[t]
             /\ Now(t).do = "bounds" => InBounds(got[t][2], Text(t))
  <2>1. Fits(t) \/ (Now(t).do = "bounds" /\ Bounds(t))
    BY <1>5, <1>7, ActionAt
  <2>2. Go(t, got[t])
    BY <1>2, <2>1 DEF Fits, Bounds, Throw
  <2>3. got'[t] = got[t]
    BY <2>2 DEF Go, IInv, TypeInv
  <2>4. Fits(t) => Now(t).do = "fits"
    BY DEF Fits, Live, At
  <2> QED
    BY <1>2, <2>1, <2>3, <2>4 DEF Fits, Bounds, Throw
<1>8. ASSUME Now(t).do = "length"
      PROVE  /\ UNCHANGED <<value, heap, copying>>
             /\ Text(t) # <<>> /\ r = Append(got[t], Len(Text(t)))
  <2>1. Length(t)
    BY <1>5, <1>8, ActionAt
  <2>2. ~Finish(t)
    BY <1>0 DEF Finish
  <2>3. Text(t) # <<>> /\ Go(t, Append(got[t], Len(Text(t))))
    BY <2>1, <2>2 DEF Length
  <2>4. got'[t] = Append(got[t], Len(Text(t)))
    BY <2>3 DEF Go, IInv, TypeInv
  <2> QED
    BY <1>2, <2>1, <2>3, <2>4 DEF Length
<1>9. ASSUME Now(t).do = "fetch"
      PROVE  UNCHANGED <<value, heap, copying>> /\ \E x : r = Append(got[t], x)
  <2>1. Fetch(t)
    BY <1>5, <1>9, ActionAt
  <2>2. PICK x : Go(t, Append(got[t], x))
    BY <1>2, <1>4, <2>1 DEF Fetch, BadRead
  <2>3. got'[t] = Append(got[t], x)
    BY <2>2 DEF Go, IInv, TypeInv
  <2> QED
    BY <1>2, <2>1, <2>3 DEF Fetch
<1>10. Now(t).do = "copy" => Copy(t)
  BY <1>5, ActionAt
<1>11. ASSUME Now(t).do = "set" PROVE Replace(t) /\ r = got[t]
  <2>1. ~Set(t) /\ ~Free(t)
    BY <1>2, <1>0 DEF Set, Free, Throw, Finish
  <2>2. Replace(t)
    BY <1>5, <1>11, <2>1, ActionAt
  <2>3. Go(t, got[t])
    BY <1>2, <1>4, <1>0, <2>2 DEF Replace, BadRead, Finish
  <2>4. got'[t] = got[t]
    BY <2>3 DEF Go, IInv, TypeInv
  <2> QED
    BY <1>2, <2>2, <2>4
<1>12. Now(t).do \notin {"print", "free"} /\ (Now(t).do = "char" => Char(t))
  BY <1>5, <1>0, ActionAt DEF PrintOut, FreeCopy, Finish
<1> QED
  BY <1>2, <1>3, <1>6, <1>7, <1>8, <1>9, <1>10, <1>11, <1>12

(* Both ways in which what was read grows.                                 *)
LEMMA StillGot ==
  ASSUME NEW g, Listed(g), NEW r, r = g \/ \E x : r = Append(g, x)
  PROVE  /\ Listed(r) /\ \A i \in 1..Len(g) : r[i] = g[i]
         /\ \A x : r = Append(g, x) => r[Len(g) + 1] = x /\ Len(r) = Len(g) + 1
<1>1. \A x : /\ Listed(Append(g, x)) /\ Len(Append(g, x)) = Len(g) + 1
             /\ Append(g, x)[Len(g) + 1] = x
             /\ \A i \in 1..Len(g) : Append(g, x)[i] = g[i]
  BY Grow
<1> QED
  BY <1>1

LEMMA SetCharReads ==
  ASSUME SafeInv, Guarded, IInv', NEW t \in Threads, Step(t), Active(t),
         NEW r, Go(t, r), Cur(t).op = "SET_STR_CHAR"
  PROVE  Reads(t)'
<1> DEFINE v == Cur(t).args[1]
           s == heap[value[v]]
<1>1. IInv /\ Reads(t)
  BY DEF SafeInv
<1>2. /\ Cur(t)' = Cur(t) /\ Active(t)' /\ step'[t] = step[t] + 1 /\ got'[t] = r
      /\ text' = text
  BY <1>1, Advance
<1>3. /\ step[t] \in 1..7 /\ Listed(got[t]) /\ Len(got[t]) = Collected[step[t]]
      /\ Now(t) = SetCharPlan[step[t]]
  BY <1>1, SetCharSteps, StringPlans DEF IInv
<1>4. ReadsString(Cur(t)) /\ Source(Cur(t)) = v /\ v' = v
  BY <1>2 DEF ReadsString, Source
<1>5. Listed(r) /\ Len(r) = Collected[step[t] + 1]
  BY <1>2 DEF IInv, InPlan
<1>6. PointerKept(t, v) /\ Tested(t, s) /\ Edits(t, s)
  BY <1>1, <1>4 DEF Reads
<1>7. Gathered("SET_STR_CHAR") = Collected
  BY DEF Gathered
<1> SUFFICES PointerKept(t, v)' /\ Tested(t, s)' /\ Edits(t, s)'
  <2>1. Prints(t, v, s)'
    BY <1>2 DEF Prints
  <2> QED
    BY <1>2, <1>4, <2>1 DEF Reads, Source
<1>8. step[t] # 7
  BY <1>1, <1>3, Advance DEF SetCharPlan, Do, Raw
<1>9. CASE step[t] = 1
  <2>1. Now(t) = Do("get", 1, "string")
    BY <1>3, <1>9 DEF SetCharPlan
  <2>2. /\ UNCHANGED <<value, heap, copying>>
        /\ \E x \in Read(v, "string") : r = Append(got[t], x)
    BY <1>1, <2>1, Advance DEF Do, Var
  <2>3. Type[v] = "STRING" /\ r = Append(got[t], value[v])
    BY <2>2 DEF Read
  <2>4. Len(got[t]) = 0
    BY <1>3, <1>9 DEF Collected
  <2>5. r[1] = value[v]
    <3>1. r[Len(got[t]) + 1] = value[v]
      BY <1>3, <2>3, StillGot
    <3> QED
      BY <2>4, <3>1
  <2>6. PointerKept(t, v)'
    BY <1>2, <1>4, <1>5, <1>7, <1>9, <2>2, <2>3, <2>5 DEF PointerKept
  <2> QED
    BY <1>2, <1>9, <2>6 DEF Tested, Edits
<1>10. CASE step[t] = 2
  <2>1. Now(t) = Do("get", 2, "int")
    BY <1>3, <1>10 DEF SetCharPlan
  <2>2. /\ UNCHANGED <<value, heap, copying>>
        /\ \E x \in Read(Cur(t).args[2], "int") : r = Append(got[t], x)
    BY <1>1, <2>1, Advance DEF Do, Var
  <2>3. PICK x \in Read(Cur(t).args[2], "int") : r = Append(got[t], x)
    BY <2>2
  <2>4. Len(got[t]) = 1
    BY <1>3, <1>10 DEF Collected
  <2>5. r[1] = got[t][1] /\ r[2] = x
    <3>1. r[Len(got[t]) + 1] = x /\ \A i \in 1..Len(got[t]) : r[i] = got[t][i]
      BY <1>3, <2>3, StillGot
    <3> QED
      BY <2>4, <3>1
  <2>6. PointerKept(t, v)'
    BY <1>2, <1>4, <1>5, <1>6, <1>7, <1>10, <2>2, <2>5 DEF PointerKept
  <2>7. Read(Cur(t).args[2], "int")' = Read(Cur(t).args[2], "int")
    BY <1>2, <2>2, ReadKept
  <2> QED
    BY <1>2, <1>10, <2>3, <2>5, <2>6, <2>7 DEF Tested, Edits
<1>11. CASE step[t] = 3
  <2>1. Now(t) = Do("get", 3, "char")
    BY <1>3, <1>11 DEF SetCharPlan
  <2>2. /\ UNCHANGED <<value, heap, copying>>
        /\ \E x \in Read(Cur(t).args[3], "char") : r = Append(got[t], x)
    BY <1>1, <2>1, Advance DEF Do, Var
  <2>3. PICK x \in Read(Cur(t).args[3], "char") : r = Append(got[t], x)
    BY <2>2
  <2>4. Len(got[t]) = 2
    BY <1>3, <1>11 DEF Collected
  <2>5. r[1] = got[t][1] /\ r[2] = got[t][2] /\ r[3] = x
    <3>1. r[Len(got[t]) + 1] = x /\ \A i \in 1..Len(got[t]) : r[i] = got[t][i]
      BY <1>3, <2>3, StillGot
    <3> QED
      BY <2>4, <3>1
  <2>6. PointerKept(t, v)'
    BY <1>2, <1>4, <1>5, <1>6, <1>7, <1>11, <2>2, <2>5 DEF PointerKept
  <2>7. /\ Read(Cur(t).args[2], "int")' = Read(Cur(t).args[2], "int")
        /\ Read(Cur(t).args[3], "char")' = Read(Cur(t).args[3], "char")
    BY <1>2, <2>2, ReadKept
  <2> QED
    BY <1>2, <1>6, <1>11, <2>3, <2>5, <2>6, <2>7 DEF Tested, Edits
<1>12. CASE step[t] = 4
  <2>1. Now(t).do = "bounds"
    BY <1>3, <1>12 DEF SetCharPlan, Raw, Do
  <2>2. /\ UNCHANGED <<value, heap, copying>> /\ r = got[t]
        /\ InBounds(got[t][2], Text(t))
    BY <1>1, <2>1, Advance
  <2>3. Text(t) = s
    BY <1>4, <2>1, RawReads
  <2>4. s' = s
    BY <1>4, <2>2
  <2>5. PointerKept(t, v)'
    BY <1>2, <1>4, <1>5, <1>6, <1>7, <1>12, <2>2 DEF PointerKept
  <2>6. /\ Read(Cur(t).args[2], "int")' = Read(Cur(t).args[2], "int")
        /\ Read(Cur(t).args[3], "char")' = Read(Cur(t).args[3], "char")
    BY <1>2, <2>2, ReadKept
  <2>7. Tested(t, s)'
    BY <1>2, <1>12, <2>2, <2>3, <2>4 DEF Tested, InBounds
  <2> QED
    BY <1>2, <1>6, <1>12, <2>2, <2>5, <2>6, <2>7 DEF Edits
<1>13. CASE step[t] = 5
  <2>1. Now(t).do = "copy"
    BY <1>3, <1>13 DEF SetCharPlan, Raw, Do
  <2>2. Copy(t)
    BY <1>1, <2>1, Advance
  <2>3. value' = value /\ copying' = copying
    BY <2>2 DEF Copy
  <2>4. fresh \notin DOMAIN heap
    BY <1>1 DEF IInv, TypeInv, Private
  <2>5. /\ DOMAIN heap' = DOMAIN heap \cup {fresh} /\ heap'[fresh] = Copied(t)
        /\ \A a \in DOMAIN heap : heap'[a] = heap[a]
        /\ Go(t, Append(got[t], fresh)) /\ got[t][2] \in 0..Len(Text(t)) - 1
    <3>1. ~BadRead
      BY <1>2, <1>13 DEF BadRead
    <3> QED
      BY <2>2, <2>4, <3>1 DEF Copy
  <2>6. r = Append(got[t], fresh)
    <3>1. got'[t] = Append(got[t], fresh)
      BY <1>1, <2>5 DEF Go, IInv, TypeInv
    <3> QED
      BY <1>2, <3>1
  <2>7. Len(got[t]) = 3
    BY <1>3, <1>13 DEF Collected
  <2>8. r[1] = got[t][1] /\ r[2] = got[t][2] /\ r[3] = got[t][3] /\ r[4] = fresh
    <3>1. r[Len(got[t]) + 1] = fresh /\ \A i \in 1..Len(got[t]) : r[i] = got[t][i]
      BY <1>3, <2>6, StillGot
    <3> QED
      BY <2>7, <3>1
  <2>9. Text(t) = s /\ Pointer(t) \in DOMAIN heap /\ v \in Strings
    BY <1>4, <2>1, RawReads
  <2>10. value[v] \in DOMAIN heap
    <3>1. Pointer(t) = got[t][1] /\ got[t][1] = value[v]
      BY <1>6, <1>13, <2>1 DEF Pointer, PointerKept
    <3> QED
      BY <2>9, <3>1
  <2>11. s' = s
    BY <1>4, <2>3, <2>5, <2>10
  <2>12. PointerKept(t, v)'
    BY <1>2, <1>4, <1>5, <1>6, <1>7, <1>13, <2>3, <2>8 DEF PointerKept
  <2>13. /\ Read(Cur(t).args[2], "int")' = Read(Cur(t).args[2], "int")
         /\ Read(Cur(t).args[3], "char")' = Read(Cur(t).args[3], "char")
    BY <1>2, <2>3, ReadKept
  <2>14. Tested(t, s)'
    BY <1>2, <1>13, <2>5, <2>8, <2>9, <2>11 DEF Tested
  <2>15. Copied(t) = [s EXCEPT ![got[t][2] + 1] = got[t][3]]
    BY <2>9 DEF Copied
  <2>16. Edits(t, s)'
    BY <1>2, <1>6, <1>13, <2>5, <2>8, <2>11, <2>13, <2>15 DEF Edits
  <2> QED
    BY <2>12, <2>14, <2>16
<1>14. CASE step[t] = 6
  <2>1. Now(t).do = "set"
    BY <1>3, <1>14 DEF SetCharPlan, Raw, Do
  <2>2. Replace(t) /\ r = got[t]
    BY <1>1, <2>1, Advance
  <2>3. DOMAIN heap \subseteq DOMAIN heap'
    BY <2>2 DEF Replace, NewBuffer
  <2>4. PointerKept(t, v)'
    BY <1>2, <1>4, <1>5, <1>7, <1>14 DEF PointerKept
  <2> QED
    BY <1>2, <1>6, <1>14, <2>2, <2>3, <2>4 DEF Tested, Edits
<1> QED
  BY <1>3, <1>8, <1>9, <1>10, <1>11, <1>12, <1>13, <1>14

LEMMA GetCharReads ==
  ASSUME SafeInv, Guarded, NEW t \in Threads, Step(t), Active(t),
         NEW r, Go(t, r), Cur(t).op = "GET_STR_CHAR"
  PROVE  Reads(t)'
<1> DEFINE v == Cur(t).args[1]
           s == heap[value[v]]
<1>1. IInv /\ Reads(t)
  BY DEF SafeInv
<1>2. /\ Cur(t)' = Cur(t) /\ Active(t)' /\ step'[t] = step[t] + 1 /\ got'[t] = r
  BY <1>1, Advance
<1>3. ReadsString(Cur(t)) /\ Source(Cur(t)) = v /\ v' = v
  BY <1>2 DEF ReadsString, Source
<1>4. PointerKept(t, v) /\ Tested(t, s)
  BY <1>1, <1>3 DEF Reads
<1>5. step[t] \in 1..5 /\ Now(t) = GetCharPlan[step[t]]
  BY <1>1, StringPlans
<1>6. Gathered("GET_STR_CHAR") = <<0, 1, 2, 2, 3>>
  BY DEF Gathered
<1>7. Listed(got[t])
  BY <1>4 DEF PointerKept
<1>20. Len(got[t]) = <<0, 1, 2, 2, 3>>[step[t]]
  BY <1>4, <1>6 DEF PointerKept
<1> SUFFICES PointerKept(t, v)' /\ Tested(t, s)'
  <2>1. Edits(t, s)' /\ Prints(t, v, s)'
    BY <1>2 DEF Edits, Prints
  <2> QED
    BY <1>2, <1>3, <2>1 DEF Reads, Source
<1>8. CASE step[t] = 1
  <2>1. Now(t) = Do("get", 1, "string")
    BY <1>5, <1>8 DEF GetCharPlan
  <2>2. UNCHANGED <<value, heap, copying>> /\ \E x \in Read(v, "string") : r = Append(got[t], x)
    BY <1>1, <2>1, Advance DEF Do, Var
  <2>3. Type[v] = "STRING" /\ r = Append(got[t], value[v])
    BY <2>2 DEF Read
  <2>4. Len(got[t]) = 0
    BY <1>20, <1>8
  <2>5. Listed(r) /\ Len(r) = 1 /\ r[1] = value[v]
    <3>1. Listed(r) /\ r[Len(got[t]) + 1] = value[v] /\ Len(r) = Len(got[t]) + 1
      BY <1>7, <2>3, Grow
    <3> QED
      BY <2>4, <3>1
  <2>6. PointerKept(t, v)'
    BY <1>2, <1>3, <1>6, <1>8, <2>2, <2>3, <2>5 DEF PointerKept
  <2> QED
    BY <1>2, <1>8, <2>6 DEF Tested
<1>9. CASE step[t] = 2
  <2>1. Now(t) = Do("get", 2, "int")
    BY <1>5, <1>9 DEF GetCharPlan
  <2>2. UNCHANGED <<value, heap, copying>> /\ \E x : r = Append(got[t], x)
    BY <1>1, <2>1, Advance DEF Do
  <2>3. PICK x : r = Append(got[t], x)
    BY <2>2
  <2>4. Len(got[t]) = 1
    BY <1>20, <1>9
  <2>5. Listed(r) /\ Len(r) = 2 /\ r[1] = got[t][1]
    <3>1. Listed(r) /\ Len(r) = Len(got[t]) + 1 /\ \A i \in 1..Len(got[t]) : r[i] = got[t][i]
      BY <1>7, <2>3, Grow
    <3> QED
      BY <2>4, <3>1
  <2>6. PointerKept(t, v)'
    BY <1>2, <1>3, <1>4, <1>6, <1>9, <2>2, <2>5 DEF PointerKept
  <2> QED
    BY <1>2, <1>9, <2>6 DEF Tested
<1>10. CASE step[t] = 3
  <2>1. Now(t).do = "bounds"
    BY <1>5, <1>10 DEF GetCharPlan, Raw, Do
  <2>2. /\ UNCHANGED <<value, heap, copying>> /\ r = got[t]
        /\ InBounds(got[t][2], Text(t))
    BY <1>1, <2>1, Advance
  <2>3. Text(t) = s
    BY <1>3, <2>1, RawReads
  <2>4. s' = s
    BY <1>3, <2>2
  <2>5. PointerKept(t, v)'
    BY <1>2, <1>3, <1>4, <1>6, <1>7, <1>10, <1>20, <2>2 DEF PointerKept
  <2> QED
    BY <1>2, <1>10, <2>2, <2>3, <2>4, <2>5 DEF Tested, InBounds
<1>11. CASE step[t] = 4
  <2>1. Now(t).do = "fetch"
    BY <1>5, <1>11 DEF GetCharPlan, Raw, Do
  <2>2. UNCHANGED <<value, heap, copying>> /\ \E x : r = Append(got[t], x)
    BY <1>1, <2>1, Advance
  <2>3. PICK x : r = Append(got[t], x)
    BY <2>2
  <2>4. Len(got[t]) = 2
    BY <1>20, <1>11
  <2>5. Listed(r) /\ Len(r) = 3 /\ r[1] = got[t][1]
    <3>1. Listed(r) /\ Len(r) = Len(got[t]) + 1 /\ \A i \in 1..Len(got[t]) : r[i] = got[t][i]
      BY <1>7, <2>3, Grow
    <3> QED
      BY <2>4, <3>1
  <2>6. PointerKept(t, v)'
    BY <1>2, <1>3, <1>4, <1>6, <1>11, <2>2, <2>5 DEF PointerKept
  <2> QED
    BY <1>2, <1>11, <2>6 DEF Tested
<1>12. CASE step[t] = 5
  <2>1. Now(t) = Do("set", 3, "char")
    BY <1>5, <1>12 DEF GetCharPlan
  <2>2. Replace(t)
    BY <1>1, <2>1, Advance DEF Do
  <2> QED
    BY <1>1, <2>1, <2>2 DEF Replace, IInv, Copying, Do
<1> QED
  BY <1>5, <1>8, <1>9, <1>10, <1>11, <1>12

LEMMA AssignReads ==
  ASSUME SafeInv, Guarded, NEW t \in Threads, Step(t), Active(t),
         NEW r, Go(t, r), Cur(t).op = "ASSIGN", Type[Cur(t).args[1]] = "STRING"
  PROVE  Reads(t)'
<1> DEFINE v == Cur(t).args[2]
           s == heap[value[v]]
<1>1. IInv /\ Reads(t)
  BY DEF SafeInv
<1>2. /\ Cur(t)' = Cur(t) /\ Active(t)' /\ step'[t] = step[t] + 1 /\ got'[t] = r
  BY <1>1, Advance
<1>3. ReadsString(Cur(t)) /\ Source(Cur(t)) = v /\ v' = v
  BY <1>2 DEF ReadsString, Source
<1>4. PointerKept(t, v)
  BY <1>1, <1>3 DEF Reads
<1>5. step[t] \in 1..3 /\ Now(t) = AssignPlan("STRING")[step[t]]
  BY <1>1, StringPlans
<1>6. Gathered("ASSIGN") = <<0, 1, 1>>
  BY DEF Gathered
<1>7. Listed(got[t])
  BY <1>4 DEF PointerKept
<1>20. Len(got[t]) = <<0, 1, 1>>[step[t]]
  BY <1>4, <1>6 DEF PointerKept
<1> SUFFICES PointerKept(t, v)'
  <2>1. Tested(t, s)' /\ Edits(t, s)' /\ Prints(t, v, s)'
    BY <1>2 DEF Tested, Edits, Prints
  <2> QED
    BY <1>2, <1>3, <2>1 DEF Reads, Source
<1>8. CASE step[t] = 1
  <2>1. Now(t) = Do("get", 2, "string")
    BY <1>5, <1>8 DEF AssignPlan
  <2>2. UNCHANGED <<value, heap, copying>> /\ \E x \in Read(v, "string") : r = Append(got[t], x)
    BY <1>1, <2>1, Advance DEF Do, Var
  <2>3. Type[v] = "STRING" /\ r = Append(got[t], value[v])
    BY <2>2 DEF Read
  <2>4. Len(got[t]) = 0
    BY <1>20, <1>8
  <2>5. Listed(r) /\ Len(r) = 1 /\ r[1] = value[v]
    <3>1. Listed(r) /\ r[Len(got[t]) + 1] = value[v] /\ Len(r) = Len(got[t]) + 1
      BY <1>7, <2>3, Grow
    <3> QED
      BY <2>4, <3>1
  <2> QED
    BY <1>2, <1>3, <1>6, <1>8, <2>2, <2>3, <2>5 DEF PointerKept
<1>9. CASE step[t] = 2
  <2>1. Now(t).do = "fits"
    BY <1>5, <1>9 DEF AssignPlan, Raw, Do
  <2>2. UNCHANGED <<value, heap, copying>> /\ r = got[t]
    BY <1>1, <2>1, Advance
  <2> QED
    BY <1>2, <1>3, <1>4, <1>6, <1>7, <1>9, <1>20, <2>2 DEF PointerKept
<1>10. CASE step[t] = 3
  <2>1. Now(t).do = "set"
    BY <1>5, <1>10 DEF AssignPlan, Do
  <2>2. Replace(t)
    BY <1>1, <2>1, Advance
  <2>3. step'[t] \in {1, step[t]}
    BY <1>1, <2>2 DEF Replace, BadRead, Finish, GoTo, IInv, TypeInv
  <2> QED
    BY <1>2, <1>10, <2>3
<1> QED
  BY <1>5, <1>8, <1>9, <1>10

LEMMA ListedSeq ==
  ASSUME NEW g, Listed(g)
  PROVE  g \in Seq({g[i] : i \in 1..Len(g)})
BY DEF Listed

(* OUT has the characters of the text before the one it asks for.          *)
LEMMA FirstTwo ==
  ASSUME NEW g, Listed(g), Len(g) = 3
  PROVE  /\ Listed(SubSeq(g, 1, 2)) /\ Len(SubSeq(g, 1, 2)) = 2
         /\ SubSeq(g, 1, 2)[1] = g[1] /\ SubSeq(g, 1, 2)[2] = g[2]
<1> DEFINE S == {g[i] : i \in 1..Len(g)}
           q == SubSeq(g, 1, 2)
<1>1. g \in Seq(S)
  BY ListedSeq
<1>2. q \in Seq(S) /\ Len(q) = 2 /\ q[1] = g[1] /\ q[2] = g[2]
  BY <1>1
<1>3. \A p \in Seq(S) : Len(p) \in Nat /\ p = [i \in 1..Len(p) |-> p[i]]
  OBVIOUS
<1>4. Listed(q)
  BY <1>2, <1>3, Zenon DEF Listed
<1> QED
  BY <1>2, <1>4

LEMMA SameText ==
  ASSUME NEW p, NEW q, Listed(p), Listed(q), Len(p) = Len(q),
         \A i \in 1..Len(p) : p[i] = q[i]
  PROVE  p = q
BY DEF Listed

LEMMA CharReads ==
  ASSUME SafeInv, Guarded, NEW t \in Threads, Char(t), Active(t)
  PROVE  Reads(t)'
<1> DEFINE v == Cur(t).args[1]
           s == heap[value[v]]
           i == Len(text[t]) + 1
           c == Append(text[t], s[i])
<1>1. IInv /\ Reads(t) /\ Waiting
  BY DEF SafeInv
<1>2. Now(t).do = "char"
  BY DEF Char, Live, At
<1>3. Cur(t).op = "OUT"
  BY <1>1, <1>2, Running, RawPlans DEF IInv
<1>4. step[t] = 4
  <2>1. step[t] \in 1..5 /\ Now(t) = OutPlan[step[t]]
    BY <1>1, <1>3, StringPlans
  <2> QED
    BY <1>2, <2>1 DEF OutPlan, Do, Raw
<1>5. ReadsString(Cur(t)) /\ Source(Cur(t)) = v
  BY <1>3 DEF ReadsString, Source
<1>6. PointerKept(t, v) /\ Prints(t, v, s)
  BY <1>1, <1>5 DEF Reads
<1>7. Text(t) = s /\ Listed(s)
  BY <1>2, <1>5, RawReads
<1>8. /\ Listed(text[t]) /\ got[t][2] = Len(s) /\ Len(text[t]) < Len(s)
      /\ \A j \in 1..Len(text[t]) : text[t][j] = s[j]
  BY <1>3, <1>4, <1>6 DEF Prints
<1>9. Listed(got[t]) /\ Len(got[t]) = 3 /\ Type[v] = "STRING" /\ got[t][1] = value[v]
  BY <1>3, <1>4, <1>6 DEF PointerKept, Gathered
<1>10. Len(s) \in Nat /\ Len(text[t]) \in Nat
  BY <1>7, <1>8 DEF Listed
<1>11. ~(i > Len(Text(t)))
  BY <1>7, <1>8, <1>10
<1>12. /\ text' = [text EXCEPT ![t] = Append(text[t], Text(t)[i])]
       /\ got' = [got EXCEPT ![t] = SubSeq(got[t], 1, 2)]
       /\ step' = [step EXCEPT ![t] = IF i = got[t][2] THEN 5 ELSE 3]
       /\ UNCHANGED <<script, ip, value, heap, copying>>
  BY <1>11, Zenon DEF Char
<1>13. text'[t] = c /\ step'[t] = IF i = Len(s) THEN 5 ELSE 3
  BY <1>1, <1>7, <1>8, <1>12 DEF IInv, TypeInv, Waiting
<1>14. got'[t] = SubSeq(got[t], 1, 2)
  BY <1>1, <1>12 DEF IInv, TypeInv
<1>15. Listed(got'[t]) /\ Len(got'[t]) = 2 /\ got'[t][1] = value[v] /\ got'[t][2] = Len(s)
  BY <1>8, <1>9, <1>14, FirstTwo
<1>16. Cur(t)' = Cur(t) /\ v' = v /\ s' = s
  BY <1>12 DEF Cur
<1>17. /\ Listed(c) /\ Len(c) = i /\ \A j \in 1..Len(text[t]) : c[j] = text[t][j]
       /\ c[i] = s[i]
  BY <1>8, Grow
<1>18. ASSUME NEW j \in 1..i PROVE c[j] = s[j]
  <2>1. CASE j \in 1..Len(text[t])
    <3>1. c[j] = text[t][j]
      BY <1>17, <2>1
    <3> QED
      BY <1>8, <2>1, <3>1
  <2>2. CASE j = i
    BY <1>17, <2>2
  <2> QED
    BY <1>10, <2>1, <2>2
<1>19. PointerKept(t, v)'
  <2>1. Gathered("OUT")[3] = 2 /\ Gathered("OUT")[5] = 2
    BY DEF Gathered
  <2>2. Len(got'[t]) = Gathered("OUT")[step'[t]]
    BY <1>13, <1>15, <2>1
  <2> QED
    BY <1>3, <1>9, <1>12, <1>15, <1>16, <2>2 DEF PointerKept
<1>20. Prints(t, v, s)'
  <2>1. CASE i = Len(s)
    <3>1. step'[t] = 5
      BY <1>13, <2>1
    <3>2. c = s
      BY <1>7, <1>17, <1>18, <2>1, SameText
    <3> QED
      BY <1>13, <1>16, <1>17, <3>1, <3>2 DEF Prints
  <2>2. CASE i # Len(s)
    <3>1. step'[t] = 3 /\ i < Len(s)
      BY <1>8, <1>10, <1>13, <2>2
    <3>2. /\ Listed(text'[t]) /\ Len(text'[t]) = i
          /\ \A j \in 1..Len(text'[t]) : text'[t][j] = s[j]
      BY <1>13, <1>17, <1>18
    <3> QED
      BY <1>15, <1>16, <3>1, <3>2 DEF Prints
  <2> QED
    BY <2>1, <2>2
<1>21. Tested(t, s)' /\ Edits(t, s)'
  BY <1>3, <1>16 DEF Tested, Edits
<1> QED
  BY <1>3, <1>16, <1>19, <1>20, <1>21 DEF Reads, Source

LEMMA OutReads ==
  ASSUME SafeInv, Guarded, NEW t \in Threads, Step(t), Active(t),
         NEW r, Go(t, r), Cur(t).op = "OUT"
  PROVE  Reads(t)'
<1> DEFINE v == Cur(t).args[1]
           s == heap[value[v]]
<1>1. IInv /\ Reads(t)
  BY DEF SafeInv
<1>2. /\ Cur(t)' = Cur(t) /\ Active(t)' /\ step'[t] = step[t] + 1 /\ got'[t] = r
      /\ text' = text
  BY <1>1, Advance
<1>3. ReadsString(Cur(t)) /\ Source(Cur(t)) = v /\ v' = v
  BY <1>2 DEF ReadsString, Source
<1>4. PointerKept(t, v) /\ Prints(t, v, s)
  BY <1>1, <1>3 DEF Reads
<1>5. step[t] \in 1..5 /\ Now(t) = OutPlan[step[t]]
  BY <1>1, StringPlans
<1>6. Gathered("OUT") = <<0, 1, 2, 3, 2>>
  BY DEF Gathered
<1>7. Listed(got[t])
  BY <1>4 DEF PointerKept
<1>20. Len(got[t]) = <<0, 1, 2, 3, 2>>[step[t]]
  BY <1>4, <1>6 DEF PointerKept
<1>0. ASSUME PointerKept(t, v)', Prints(t, v, s)' PROVE Reads(t)'
  <2>1. Edits(t, s)' /\ Tested(t, s)'
    BY <1>2 DEF Edits, Tested
  <2> QED
    BY <1>0, <1>2, <1>3, <2>1 DEF Reads, Source
<1>8. CASE step[t] = 1
  <2>1. Now(t) = Do("get", 1, "string")
    BY <1>5, <1>8 DEF OutPlan
  <2>2. UNCHANGED <<value, heap, copying>> /\ \E x \in Read(v, "string") : r = Append(got[t], x)
    BY <1>1, <2>1, Advance DEF Do, Var
  <2>3. Type[v] = "STRING" /\ r = Append(got[t], value[v])
    BY <2>2 DEF Read
  <2>4. Len(got[t]) = 0
    BY <1>20, <1>8
  <2>5. Listed(r) /\ Len(r) = 1 /\ r[1] = value[v]
    <3>1. Listed(r) /\ r[Len(got[t]) + 1] = value[v] /\ Len(r) = Len(got[t]) + 1
      BY <1>7, <2>3, Grow
    <3> QED
      BY <2>4, <3>1
  <2>6. PointerKept(t, v)'
    BY <1>2, <1>3, <1>6, <1>8, <2>2, <2>3, <2>5 DEF PointerKept
  <2>7. Prints(t, v, s)'
    BY <1>2, <1>4, <1>8 DEF Prints
  <2> QED
    BY <1>0, <2>6, <2>7
<1>9. CASE step[t] = 2
  <2>1. Now(t).do = "length"
    BY <1>5, <1>9 DEF OutPlan, Raw, Do
  <2>2. /\ UNCHANGED <<value, heap, copying>>
        /\ Text(t) # <<>> /\ r = Append(got[t], Len(Text(t)))
    BY <1>1, <2>1, Advance
  <2>3. Text(t) = s /\ Listed(s)
    BY <1>3, <2>1, RawReads
  <2>4. Len(got[t]) = 1
    BY <1>20, <1>9
  <2>5. Listed(r) /\ Len(r) = 2 /\ r[1] = got[t][1] /\ r[2] = Len(s)
    <3>1. /\ Listed(r) /\ Len(r) = Len(got[t]) + 1 /\ r[Len(got[t]) + 1] = Len(Text(t))
          /\ \A i \in 1..Len(got[t]) : r[i] = got[t][i]
      BY <1>7, <2>2, Grow
    <3> QED
      BY <2>3, <2>4, <3>1
  <2>6. PointerKept(t, v)'
    BY <1>2, <1>3, <1>4, <1>6, <1>9, <2>2, <2>5 DEF PointerKept
  <2>7. text[t] = <<>> /\ Listed(text[t]) /\ Len(text[t]) = 0
    BY <1>4, <1>9 DEF Prints
  <2>8. Len(s) > 0
    <3>1. Listed(<<>>) /\ Len(<<>>) = 0 /\ Len(s) \in Nat
      BY <2>3 DEF Listed
    <3>2. Len(s) = 0 => s = <<>>
      BY <2>3, <3>1, SameText
    <3> QED
      BY <2>2, <2>3, <3>1, <3>2
  <2>9. s' = s
    BY <1>3, <2>2
  <2>10. Prints(t, v, s)'
    BY <1>2, <1>9, <2>5, <2>7, <2>8, <2>9 DEF Prints
  <2> QED
    BY <1>0, <2>6, <2>10
<1>10. CASE step[t] = 3
  <2>1. Now(t) = Do("get", 1, "string")
    BY <1>5, <1>10 DEF OutPlan
  <2>2. UNCHANGED <<value, heap, copying>> /\ \E x \in Read(v, "string") : r = Append(got[t], x)
    BY <1>1, <2>1, Advance DEF Do, Var
  <2>3. r = Append(got[t], value[v])
    BY <2>2 DEF Read
  <2>4. Len(got[t]) = 2
    BY <1>20, <1>10
  <2>5. Listed(r) /\ Len(r) = 3 /\ r[1] = got[t][1] /\ r[2] = got[t][2] /\ r[3] = value[v]
    <3>1. /\ Listed(r) /\ Len(r) = Len(got[t]) + 1 /\ r[Len(got[t]) + 1] = value[v]
          /\ \A i \in 1..Len(got[t]) : r[i] = got[t][i]
      BY <1>7, <2>3, Grow
    <3> QED
      BY <2>4, <3>1
  <2>6. PointerKept(t, v)'
    BY <1>2, <1>3, <1>4, <1>6, <1>10, <2>2, <2>5 DEF PointerKept
  <2>7. s' = s /\ value'[v'] = value[v]
    BY <1>3, <2>2
  <2>8. Prints(t, v, s)'
    BY <1>2, <1>4, <1>10, <2>5, <2>7 DEF Prints
  <2> QED
    BY <1>0, <2>6, <2>8
<1>11. CASE step[t] = 4
  <2>1. Now(t).do = "char"
    BY <1>5, <1>11 DEF OutPlan, Raw, Do
  <2>2. Char(t)
    BY <1>1, <2>1, Advance
  <2> QED
    BY <2>2, CharReads
<1>12. CASE step[t] = 5
  <2>1. Now(t).do = "print"
    BY <1>5, <1>12 DEF OutPlan, Raw, Do
  <2> QED
    BY <1>1, <2>1, Advance
<1> QED
  BY <1>5, <1>8, <1>9, <1>10, <1>11, <1>12

LEMMA OwnReads ==
  ASSUME SafeInv, Guarded, IInv', NEW t \in Threads, Step(t)
  PROVE  Reads(t)'
<1>1. IInv /\ Waiting /\ Reads(t) /\ DOMAIN text = Threads
  BY DEF SafeInv, Waiting
<1>2. ASSUME NEW i, GoTo(t, i) PROVE Reads(t)'
  BY <1>1, <1>2, RestartReads
<1>3. ASSUME Active(t), NEW r, Go(t, r) PROVE Reads(t)'
  <2>1. CASE Cur(t).op = "SET_STR_CHAR"
    BY <1>3, <2>1, SetCharReads
  <2>2. CASE Cur(t).op = "GET_STR_CHAR"
    BY <1>3, <2>2, GetCharReads
  <2>3. CASE Cur(t).op = "OUT"
    BY <1>3, <2>3, OutReads
  <2>4. CASE Cur(t).op = "ASSIGN" /\ Type[Cur(t).args[1]] = "STRING"
    BY <1>3, <2>4, AssignReads
  <2>5. CASE ~ReadsString(Cur(t))
    <3>1. Cur(t)' = Cur(t)
      BY <1>1, <1>3, Advance
    <3> QED
      BY <2>5, <3>1 DEF Reads
  <2> QED
    BY <2>1, <2>2, <2>3, <2>4, <2>5 DEF ReadsString
<1>4. CASE UNCHANGED <<ip, step, got, text>>
  <2>1. \A r : Active(t) => ~Go(t, r)
    <3>1. Active(t) => step[t] \in Nat
      BY <1>1, Running DEF IInv
    <3> QED
      BY <1>1, <1>4, <3>1 DEF Go, IInv, TypeInv
  <2>2. Active(t) => ~Finish(t)
    <3>1. Active(t) => ip[t] \in Nat
      BY <1>1 DEF Active, IInv, TypeInv
    <3> QED
      BY <1>1, <1>4, <3>1 DEF Finish, GoTo, IInv, TypeInv
  <2>3. ~FreeCopy(t) /\ ~(Set(t) /\ ~Refused(t))
    BY <2>2 DEF FreeCopy, Set, At, Runs, Awake, Active
  <2>4. Replace(t) => UNCHANGED <<value, heap, copying>>
    BY <1>1, <2>1, <2>2 DEF Replace, IInv, Copying
  <2>5. Copy(t) => heap' = heap
    BY <2>1 DEF Copy, Live, At, Runs, Awake, Active
  <2>6. CASE Free(t) /\ ~Refused(t)
    BY <2>6, FreeReads
  <2>7. CASE ~(Free(t) /\ ~Refused(t))
    <3>1. value' = value
      BY <2>3, <2>4, ValuesStay
    <3>2. heap' = heap
      BY <1>1, <2>3, <2>4, <2>5, <2>7, HeapChanges
    <3>3. copying' = copying
      BY <2>4, <2>7, GatesStay DEF Free
    <3>4. script' = script
      BY <1>1, Frame
    <3> QED
      BY <1>1, <1>4, <3>1, <3>2, <3>3, <3>4, UnmovedReads
  <2> QED
    BY <2>6, <2>7
<1> QED
  BY <1>2, <1>3, <1>4, OnlyMoves, CharReads

-----------------------------------------------------------------------------
(* Together.                                                               *)

LEMMA SafeStep ==
  ASSUME SafeInv, IInv', NEW t \in Threads, Step(t)
  PROVE  SafeInv'
<1>1. IInv /\ Pairs /\ Waiting /\ Buffered
  BY DEF SafeInv
<1>2. script' = script
  BY <1>1, Frame DEF Waiting
<1>3. Pairs' /\ (Guarded' <=> Guarded)
  BY <1>1, <1>2, ScriptKept
<1>4. Waiting' /\ Buffered'
  BY <1>1, WaitingStep, BufferedStep
<1>5. ASSUME Guarded PROVE sane' /\ Owning' /\ \A u \in Threads : Reads(u)'
  <2>1. sane'
    BY <1>5, SaneStep
  <2>2. Owning'
    BY <1>1, <1>5, OwningStep DEF SafeInv
  <2>3. \A u \in Threads : Reads(u)'
    BY <1>5, OwnReads, OthersRead
  <2> QED
    BY <2>1, <2>2, <2>3
<1> QED
  BY <1>3, <1>4, <1>5 DEF SafeInv

LEMMA SafeStutter ==
  ASSUME SafeInv, IInv', UNCHANGED vars
  PROVE  SafeInv'
<1>1. UNCHANGED <<script, ip, step, got, text, value, heap, fresh, owner, asleep, woken,
                  copying, threw, sane>>
  BY DEF vars
<1>2. /\ Pairs' <=> Pairs
      /\ Guarded' <=> Guarded
      /\ \A v : (Shared(v)' <=> Shared(v)) /\ Users(v)' = Users(v)
      /\ \A t, v : Uses(t, v)' = Uses(t, v)
  BY <1>1, ScriptKept
<1>3. \A t : /\ (Active(t)' <=> Active(t)) /\ Cur(t)' = Cur(t) /\ Now(t)' = Now(t)
             /\ Var(t)' = Var(t) /\ (HasCopy(t)' <=> HasCopy(t))
  BY <1>1 DEF Active, Cur, Now, Var, HasCopy
<1>4. Waiting'
  BY <1>1, <1>3 DEF SafeInv, Waiting, AtGate
<1>5. Buffered'
  BY <1>1, <1>3 DEF SafeInv, Buffered
<1>6. ASSUME Owning PROVE Owning'
  <2>1. \A t, v : (Inside(t, v)' <=> Inside(t, v)) /\ (GaveUp(t, v)' <=> GaveUp(t, v))
    BY <1>1, <1>2 DEF Inside, GaveUp
  <2> QED
    BY <1>1, <1>2, <1>3, <1>6, <2>1 DEF Owning
<1>7. ASSUME NEW t \in Threads, Reads(t) PROVE Reads(t)'
  BY <1>1, <1>7, UnmovedReads
<1> QED
  BY <1>1, <1>2, <1>4, <1>5, <1>6, <1>7 DEF SafeInv

LEMMA SafeInit ==
  ASSUME TwoSharersNoJumps, Init
  PROVE  SafeInv
<1>1. PICK s \in Starts : script = s.script /\ value = s.value /\ heap = s.heap
  BY DEF Init
<1>2. IInv
  BY InitIInv
<1>3. \A t \in Threads : ip[t] = 1 /\ step[t] = 1 /\ got[t] = <<>> /\ text[t] = <<>>
  BY DEF Init
<1>4. Pairs
  <2> SUFFICES ASSUME NEW v \in Vars \ Consts
               PROVE  /\ \A t, u, w \in Users(v) : t = u \/ u = w \/ t = w
                      /\ \A t, u \in Users(v) : t # u =>
                           \A i \in 1..Len(script[t]) : script[t][i].op \notin Jumping
    BY DEF Pairs
  <2> DEFINE users == {t \in Threads : \E i \in 1..Len(s.script[t]) :
                    \E k \in 1..Len(s.script[t][i].args) : s.script[t][i].args[k] = v}
  <2>1. /\ \A t, u, w \in users : t = u \/ u = w \/ t = w
        /\ \A t, u \in users : t # u =>
             \A i \in 1..Len(s.script[t]) : s.script[t][i].op \notin Jumping
    BY DEF TwoSharersNoJumps
  <2>2. Users(v) \subseteq users
    BY <1>1 DEF Users, Uses
  <2> QED
    BY <1>1, <2>1, <2>2
<1>5. Waiting
  BY DEF Init, Waiting
<1>6. \A t \in Threads : ~HasCopy(t)
  BY <1>3 DEF HasCopy
<1>7. Buffered
  <2>1. heap \in Seq(Seq(Nat))
    BY <1>1, DataAssumption
  <2>2. ASSUME NEW a \in DOMAIN heap PROVE Listed(heap[a])
    <3>1. heap[a] \in Seq(Nat)
      BY <2>1, <2>2
    <3>2. \A q \in Seq(Nat) : Len(q) \in Nat /\ q = [i \in 1..Len(q) |-> q[i]]
      OBVIOUS
    <3> QED
      BY <3>1, <3>2, Zenon DEF Listed
  <2>3. copying = {}
    BY DEF Init
  <2> QED
    BY <1>6, <2>2, <2>3 DEF Buffered
<1>8. Owning
  <2>1. \A t \in Threads : \A v : ~Inside(t, v)
    BY <1>3 DEF Inside, Uses
  <2>2. woken = {}
    BY DEF Init
  <2> QED
    BY <1>3, <2>1, <2>2 DEF Owning, Users
<1>9. ASSUME NEW t \in Threads PROVE Reads(t)
  <2> DEFINE v == Source(Cur(t))
             s1 == heap[value[v]]
  <2> SUFFICES ASSUME ReadsString(Cur(t))
               PROVE  PointerKept(t, v) /\ Tested(t, s1) /\ Edits(t, s1) /\ Prints(t, v, s1)
    BY DEF Reads
  <2>1. Listed(<<>>) /\ Len(<<>>) = 0
    BY DEF Listed
  <2>2. Gathered(Cur(t).op)[1] = 0
    BY DEF Gathered, ReadsString, Collected
  <2>3. PointerKept(t, v)
    BY <1>3, <2>1, <2>2 DEF PointerKept
  <2>4. Tested(t, s1) /\ Edits(t, s1) /\ Prints(t, v, s1)
    BY <1>3, <2>1 DEF Tested, Edits, Prints
  <2> QED
    BY <2>3, <2>4
<1>10. sane
  BY DEF Init
<1> QED
  BY <1>2, <1>4, <1>5, <1>7, <1>8, <1>9, <1>10 DEF SafeInv

THEOREM SafeInvariance ==
  ASSUME TwoSharersNoJumps
  PROVE  Spec => []SafeInv
<1>1. Init => SafeInv
  BY SafeInit
<1>2. SafeInv /\ IInv' /\ [Next]_vars => SafeInv'
  <2> SUFFICES ASSUME SafeInv, IInv', [Next]_vars PROVE SafeInv'
    OBVIOUS
  <2>1. ASSUME NEW t \in Threads, Step(t) PROVE SafeInv'
    BY <2>1, SafeStep
  <2>2. CASE UNCHANGED vars
    BY <2>2, SafeStutter
  <2> QED
    BY <2>1, <2>2 DEF Next
<1> QED
  BY <1>1, <1>2, Invariance, PTL DEF Spec

(* Programs that lock the strings they share read no freed buffer and      *)
(* nothing outside one, whatever the threads do between the copies of      *)
(* getString's pointer and its uses (opSet, opGet, opAssign, toString).    *)
THEOREM LockedStringsAreSafe ==
  ASSUME TwoSharersNoJumps
  PROVE  Spec => []LockedStringsSafe
<1>1. SafeInv => LockedStringsSafe
  BY DEF SafeInv, LockedStringsSafe
<1> QED
  BY <1>1, SafeInvariance, PTL

(* An index that fits an int is the int getInt makes of it.                *)
LEMMA IntsFit ==
  ASSUME NEW i \in -(IntRange \div 2)..(IntRange \div 2 - 1)
  PROVE  ToInt(i) = i
<1> DEFINE h == IntRange \div 2
<1>1. IntRange \in Nat \ {0}
  BY DataAssumption
<1>2. h \in Nat /\ h + h <= IntRange
  BY <1>1
<1>3. i \in Int /\ i + h \in 0..(IntRange - 1)
  BY <1>1, <1>2
<1> HIDE DEF h
<1>4. (i + h) % IntRange = i + h
  BY <1>1, <1>3
<1> QED
  BY <1>2, <1>3, <1>4 DEF ToInt, h

(* The copy that SET_STR_CHAR hands to set differs from the string in the  *)
(* character that was asked for and in nothing else, so that no character  *)
(* another thread set before is lost (opSet).                              *)
THEOREM NoCharacterIsLost ==
  ASSUME TwoSharersNoJumps
  PROVE  Spec => CharactersNotLost
<1> DEFINE Kept == Guarded => \A t \in copying' \ copying :
       (Cur(t).op = "SET_STR_CHAR" /\ IntIndex(t)) => SetsOneCharacter(t)
<1>1. SafeInv /\ [Next]_vars => [Kept]_vars
  <2> SUFFICES ASSUME SafeInv, Next, Guarded, NEW t \in copying', t \notin copying,
                      Cur(t).op = "SET_STR_CHAR", IntIndex(t)
               PROVE  SetsOneCharacter(t)
    OBVIOUS
  <2> DEFINE s == heap[value[Cur(t).args[1]]]
  <2>1. IInv /\ Waiting
    BY DEF SafeInv
  <2>2. PICK u \in Threads : Step(u)
    BY DEF Next
  <2>3. u = t /\ Free(t)
    BY <2>2, GatesStay DEF Free, Replace
  <2>4. Active(t) /\ Now(t).do = "set" /\ t \in Threads
    BY <2>3 DEF Free, At, Runs, Awake, Active
  <2>5. step[t] = 6 /\ Now(t) = SetCharPlan[step[t]]
    BY <2>1, <2>4, SetCharSteps, StringPlans DEF IInv
  <2>6. Var(t) = Cur(t).args[1]
    BY <2>5 DEF SetCharPlan, Do, Var
  <2>7. PointerKept(t, Cur(t).args[1]) /\ Tested(t, s) /\ Edits(t, s)
    BY <2>4 DEF SafeInv, Reads, ReadsString, Source
  <2>8. /\ got[t][2] \in Read(Cur(t).args[2], "int") /\ got[t][3] \in Read(Cur(t).args[3], "char")
        /\ heap[got[t][4]] = [s EXCEPT ![got[t][2] + 1] = got[t][3]]
        /\ got[t][2] \in 0..Len(s) - 1
    BY <2>5, <2>7 DEF Tested, Edits
  <2>9. Listed(s)
    <3>1. step[t] \in 2..6 /\ ReadsString(Cur(t)) /\ Source(Cur(t)) = Cur(t).args[1]
      BY <2>5 DEF ReadsString, Source
    <3>2. Buffered /\ Pairs /\ Owning /\ Reads(t)
      BY <2>4 DEF SafeInv
    <3> QED
      BY <2>1, <2>4, <3>1, <3>2, Pointing
  <2>10. got[t][2] = value[Cur(t).args[2]]
    <3>1. /\ Type[Cur(t).args[2]] = "NUMERIC"
          /\ value[Cur(t).args[2]] \in -(IntRange \div 2)..(IntRange \div 2 - 1)
      BY DEF IntIndex
    <3>2. ToInt(value[Cur(t).args[2]]) = value[Cur(t).args[2]]
      BY <3>1, IntsFit
    <3>3. Read(Cur(t).args[2], "int") = {ToInt(i) : i \in {value[Cur(t).args[2]]}}
      BY <3>1 DEF Read
    <3> QED
      BY <2>8, <3>2, <3>3
  <2>11. got[t][3] = value[Cur(t).args[3]]
    BY <2>8 DEF Read
  <2>12. Len([s EXCEPT ![got[t][2] + 1] = got[t][3]]) = Len(s)
    BY <2>9, ListedExcept
  <2>13. got[t][2] + 1 \in 1..Len(s)
    BY <2>8, <2>9 DEF Listed
  <2>14. \A i \in 1..Len(s) : [s EXCEPT ![got[t][2] + 1] = got[t][3]][i] =
                                IF i = got[t][2] + 1 THEN got[t][3] ELSE s[i]
    BY <2>9 DEF Listed
  <2>15. heap[value[Var(t)]] = s /\ value[Cur(t).args[2]] + 1 = got[t][2] + 1
    BY <2>6, <2>10
  <2>16. Len(heap[got[t][4]]) = Len(s)
    BY <2>8, <2>12
  <2>17. \A i \in 1..Len(s) :
           heap[got[t][4]][i] = IF i = got[t][2] + 1 THEN value[Cur(t).args[3]] ELSE s[i]
    BY <2>8, <2>11, <2>14
  <2> HIDE DEF s
  <2> QED
    BY <2>13, <2>15, <2>16, <2>17 DEF SetsOneCharacter
<1> QED
  BY <1>1, SafeInvariance, PTL DEF Spec, CharactersNotLost

(* What OUT prints is what the variable holds then, though getString is    *)
(* called once more for each character (VarString::toString).              *)
THEOREM HeldStringIsPrinted ==
  ASSUME TwoSharersNoJumps
  PROVE  Spec => OutPrintsHeldString
<1> DEFINE Same == \A t \in Threads :
       (Guarded /\ ip'[t] # ip[t] /\ Cur(t).op = "OUT") =>
         LET p == value[Cur(t).args[1]] IN p \in DOMAIN heap /\ text[t] = heap[p]
<1>1. SafeInv /\ [Next]_vars => [Same]_vars
  <2> SUFFICES ASSUME SafeInv, Next, Guarded, NEW t \in Threads,
                      ip'[t] # ip[t], Cur(t).op = "OUT"
               PROVE  /\ value[Cur(t).args[1]] \in DOMAIN heap
                      /\ text[t] = heap[value[Cur(t).args[1]]]
    OBVIOUS
  <2> DEFINE v == Cur(t).args[1]
             s == heap[value[v]]
  <2>1. IInv /\ Waiting /\ Buffered /\ Pairs /\ Owning /\ Reads(t)
    BY DEF SafeInv
  <2>2. PICK u \in Threads : Step(u)
    BY DEF Next
  <2>4. u = t /\ Active(t)
    BY <2>1, <2>2, Frame DEF Waiting, OthersStay
  <2>5. step[t] \in 1..5 /\ Now(t) = OutPlan[step[t]]
    BY <2>1, <2>4, StringPlans
  <2>6. ReadsString(Cur(t)) /\ Source(Cur(t)) = v
    BY DEF ReadsString, Source
  <2>7. Prints(t, v, s)
    BY <2>1, <2>4, <2>6 DEF Reads
  <2>8. t \notin copying
    BY <2>1, CopyingReads
  <2>9. step[t] \in 2..5 => value[v] \in DOMAIN heap
    BY <2>1, <2>4, <2>6, <2>8, Pointing
  <2>10. CASE step[t] = 2
    <3>1. Now(t).do = "length"
      BY <2>5, <2>10 DEF OutPlan, Do, Raw
    <3>2. Text(t) = s
      BY <2>4, <2>6, <3>1, RawReads
    <3>3. Length(t) \/ ReadFreed(t)
      BY <2>1, <2>2, <2>4, <3>1, ActionAt
    <3>4. Text(t) = <<>>
      BY <3>3 DEF Length, ReadFreed, BadRead, Go
    <3> QED
      BY <2>7, <2>9, <2>10, <3>2, <3>4 DEF Prints
  <2>11. CASE step[t] \in {1, 3}
    <3>1. Now(t).do = "get"
      BY <2>5, <2>11 DEF OutPlan, Do
    <3>2. Get(t) \/ Wait(t)
      BY <2>1, <2>2, <2>4, <3>1, ActionAt
    <3> QED
      BY <3>2 DEF Get, Wait, Throw, Go
  <2>12. CASE step[t] = 4
    <3>1. Now(t).do = "char"
      BY <2>5, <2>12 DEF OutPlan, Do, Raw
    <3>2. Char(t) \/ ReadFreed(t)
      BY <2>1, <2>2, <2>4, <3>1, ActionAt
    <3> QED
      BY <3>2 DEF Char, ReadFreed, BadRead
  <2>13. CASE step[t] = 5
    BY <2>7, <2>9, <2>13 DEF Prints
  <2> QED
    BY <2>5, <2>10, <2>11, <2>12, <2>13
<1> QED
  BY <1>1, SafeInvariance, PTL DEF Spec, OutPrintsHeldString
=============================================================================
