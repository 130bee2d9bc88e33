-------------------------------- MODULE Data --------------------------------
(***************************************************************************)
(* What the operations compute: NUMERIC through double and back, the       *)
(* getters and setters of the wrong type, and the buffers of STRING        *)
(* variables, which getString hands out as raw pointers while set frees    *)
(* them.                                                                   *)
(*                                                                         *)
(* An instruction is a plan: the getters, raw reads and setters it goes    *)
(* through, in order.  Each is one step, except that set(char[]) frees the *)
(* old buffer in one and copies the new text in another, holding the       *)
(* mutex.  The other accesses hold the mutex for one step; how the mutex,  *)
(* the condition and the owner work in detail is module Variable.          *)
(***************************************************************************)
EXTENDS Integers, Sequences, FiniteSets, SequencesExt

CONSTANTS
  Threads,
  Type,       \* the type of each variable
  Size,       \* the m_size of each STRING variable
  Consts,     \* the variables on which makeConst was called
  NoOwner,
  Starts,     \* scripts of the threads and values of the variables
  Mantissa,   \* 53: bits of a double
  Unit,       \* REAL values are kept as multiples of 1/Unit
  IntRange,   \* 2^32: an int wraps here
  LongMax,    \* 2^63 - 1
  LongGarbage \* what a double out of range may be converted to

Vars == DOMAIN Type
Strings == {v \in Vars : Type[v] = "STRING"}

(* A jump compares and then throws the value of the label.                 *)
Tests == {"JMPZ", "JMPNZ"}
Comparisons == {"JMPGT", "JMPLT", "JMPGTE", "JMPLTE"}
Operations ==
  {"ADD", "SUB", "MUL", "DIV", "ASSIGN", "SET_STR_CHAR", "GET_STR_CHAR", "OUT", "SLEEP",
   "LOCK", "UNLOCK", "JMP"} \cup Tests \cup Comparisons
Instruction == [op : Operations, args : Seq(Vars)]

(* Each STRING variable begins with a buffer of its own (VarString).       *)
ASSUME DataAssumption ==
  /\ NoOwner \notin Threads
  /\ Consts \subseteq Vars
  /\ {Mantissa, Unit, IntRange, LongMax} \subseteq Nat \ {0}
  /\ Type \in [Vars -> {"NUMERIC", "REAL", "CHAR", "STRING"}]
  /\ \A s \in Starts :
       /\ s.script \in [Threads -> Seq(Instruction)]
       /\ DOMAIN s.value = Vars
       /\ s.heap \in Seq(Seq(Nat))
       /\ DOMAIN s.heap = {s.value[v] : v \in Strings}
       /\ \A u, v \in Strings : s.value[u] = s.value[v] => u = v

VARIABLES
  script,    \* the instructions of each thread
  ip,        \* the instruction each thread is at
  step,      \* and the step of its plan
  got,       \* what the steps of the instruction have read so far
  text,      \* what OUT has converted so far
  value,     \* m_value: an integer, a character, or the address of a buffer
  heap,      \* the allocated buffers
  fresh,     \* the next address calloc returns
  owner,     \* Variable::owner
  asleep,    \* the threads asleep on each variable
  woken,     \* threads that pthread_cond_wait is about to return to
  copying,   \* threads between doDelete and strcpy, with the mutex
  threw,     \* threads that were left by a MisException
  sane       \* no freed or foreign memory has been read

vars == <<script, ip, step, got, text, value, heap, fresh, owner, asleep, woken,
          copying, threw, sane>>

Init ==
  /\ \E s \in Starts :
       /\ script = s.script
       /\ value = s.value
       /\ heap = s.heap
       /\ fresh = Len(s.heap) + 1
  /\ ip = [t \in Threads |-> 1] /\ step = [t \in Threads |-> 1]
  /\ got = [t \in Threads |-> <<>>] /\ text = [t \in Threads |-> <<>>]
  /\ owner = [v \in Vars |-> NoOwner]
  /\ asleep = [v \in Vars |-> {}]
  /\ woken = {} /\ copying = {} /\ threw = {}
  /\ sane = TRUE

-----------------------------------------------------------------------------
(* Doubles.                                                                *)

NotFinite == 1000000000
Abs(x) == IF x < 0 THEN -x ELSE x
Signed(x, a) == IF x < 0 THEN -a ELSE a

(* The double nearest to n/d, ties to even.                                *)
Rounded(n, d) ==
  LET a == Abs(n)
      k == CHOOSE k \in 0..18 : /\ a < d * 2^(k + Mantissa)
                                /\ k > 0 => a >= d * 2^(k - 1 + Mantissa)
      p == d * 2^k
      q == a \div p
      up == 2 * (a % p) > p \/ (2 * (a % p) = p /\ q % 2 = 1)
  IN Signed(n, (IF up THEN q + 1 ELSE q) * 2^k)

(* Mutant of ToLong: rounding instead of truncation.                       *)
ToLongRounded(x) == {Signed(x, (Abs(x) + Unit \div 2) \div Unit)}

(* (long long int)x, undefined out of range.                               *)
ToLong(x) ==
  IF Abs(x) \div Unit <= LongMax THEN {Signed(x, Abs(x) \div Unit)} ELSE LongGarbage

Finite(xs) == \A i \in 1..Len(xs) : xs[i] # NotFinite
Add(x, y) == Rounded(x + y, 1)
Times(x, y) == Rounded(x * y, Unit)
Quotient(x, y) == Signed(x, 1) * Signed(y, 1) * Rounded(Abs(x) * Unit, Abs(y))

(* What ADD, SUB, MUL and DIV compute of the doubles they got; DIV got its *)
(* divisor a first time to test it.                                        *)
Computed(op, xs) ==
  CASE op = "DIV" /\ xs[3] = 0 -> {NotFinite}
    [] op = "DIV" /\ xs[3] = NotFinite -> {0, NotFinite}
    [] ~Finite(xs) -> {NotFinite}
    [] op = "ADD" -> {FoldLeft(Add, 0, xs)}
    [] op = "MUL" -> {FoldLeft(Times, Unit, xs)}
    [] op = "SUB" -> {Add(xs[1], -xs[2])}
    [] op = "DIV" -> {Quotient(xs[2], xs[3])}

(* int index = getInt().                                                   *)
ToInt(i) == ((i + IntRange \div 2) % IntRange) - IntRange \div 2

-----------------------------------------------------------------------------
(* Plans.                                                                  *)

Do(do, arg, as) == [do |-> do, arg |-> arg, as |-> as]
Raw(do) == Do(do, 1, "raw")

(* Mutant of DivPlan: the dividend is tested.                              *)
DivPlanOther ==
  <<Do("get", 2, "double"), Raw("zero"), Do("get", 2, "double"), Do("get", 3, "double"),
    Do("set", 1, "double")>>

DivPlan ==
  <<Do("get", 3, "double"), Raw("zero"), Do("get", 2, "double"), Do("get", 3, "double"),
    Do("set", 1, "double")>>

AssignPlan(type) ==
  CASE type = "NUMERIC" -> <<Do("get", 2, "long"), Do("set", 1, "long")>>
    [] type = "REAL" -> <<Do("get", 2, "double"), Do("set", 1, "double")>>
    [] type = "CHAR" -> <<Do("get", 2, "char"), Do("set", 1, "char")>>
    [] type = "STRING" -> <<Do("get", 2, "string"), Raw("fits"), Do("set", 1, "string")>>

SetCharPlan ==
  <<Do("get", 1, "string"), Do("get", 2, "int"), Do("get", 3, "char"), Raw("bounds"),
    Raw("copy"), Do("set", 1, "string"), Raw("free")>>
GetCharPlan ==
  <<Do("get", 1, "string"), Do("get", 2, "int"), Raw("bounds"), Raw("fetch"),
    Do("set", 3, "char")>>

(* toString asks getString for the text once and again for each character. *)
OutPlan == <<Do("get", 1, "string"), Raw("length"), Do("get", 1, "string"), Raw("char"),
    Raw("print")>>

JumpPlan(op) ==
  CASE op = "JMP" -> <<>>
    [] op \in Tests -> <<Do("get", 2, "double"), Raw("branch")>>
    [] op \in Comparisons -> <<Do("get", 2, "double"), Do("get", 3, "double"), Raw("branch")>>

Plan(ins) ==
  CASE ins.op \in {"ADD", "MUL", "SUB"} ->
         [i \in 1..Len(ins.args) |-> IF i < Len(ins.args) THEN Do("get", i + 1, "double")
                                     ELSE Do("set", 1, "double")]
    [] ins.op = "DIV" -> DivPlan
    [] ins.op = "ASSIGN" -> AssignPlan(Type[ins.args[1]])
    [] ins.op = "SET_STR_CHAR" -> SetCharPlan
    [] ins.op = "GET_STR_CHAR" -> GetCharPlan
    [] ins.op = "OUT" -> OutPlan
    [] ins.op = "SLEEP" -> <<Do("get", 1, "int"), Raw("sleep")>>
    [] ins.op \in {"JMP"} \cup Tests \cup Comparisons ->
         JumpPlan(ins.op) \o <<Do("get", 1, "int"), Raw("jump")>>
    [] ins.op \in {"LOCK", "UNLOCK"} -> <<Do(ins.op, 1, "owner")>>

Arities(op) ==
  CASE op \in {"ADD", "MUL"} -> 3..12
    [] op \in {"SUB", "DIV", "SET_STR_CHAR", "GET_STR_CHAR"} \cup Comparisons -> {3}
    [] op \in {"ASSIGN"} \cup Tests -> {2}
    [] op = "OUT" -> 1..12
    [] op \in {"SLEEP", "LOCK", "UNLOCK", "JMP"} -> {1}

(* What an operation refuses before it touches a variable.                 *)
Misused(ins) ==
  \/ Len(ins.args) \notin Arities(ins.op)
  \/ ins.op = "ASSIGN" /\ Type[ins.args[1]] # Type[ins.args[2]]

Cur(t) == script[t][ip[t]]
Now(t) == Plan(Cur(t))[step[t]]
Var(t) == Cur(t).args[Now(t).arg]

Awake(t) ==
  /\ sane /\ t \notin threw /\ ip[t] \in DOMAIN script[t]
  /\ \A v \in Vars : t \notin asleep[v]
Runs(t) == Awake(t) /\ ~Misused(Cur(t))
At(t, do) == Runs(t) /\ Now(t).do = do

Go(t, results) ==
  /\ got' = [got EXCEPT ![t] = results]
  /\ step' = [step EXCEPT ![t] = @ + 1]
  /\ UNCHANGED <<ip, threw, sane, text>>
GoTo(t, i) ==
  /\ ip' = [ip EXCEPT ![t] = i] /\ step' = [step EXCEPT ![t] = 1]
  /\ got' = [got EXCEPT ![t] = <<>>] /\ text' = [text EXCEPT ![t] = <<>>]
  /\ UNCHANGED <<threw, sane>>
Finish(t) == GoTo(t, ip[t] + 1)
Throw(t) == threw' = threw \cup {t} /\ UNCHANGED <<ip, step, got, text, sane>>
BadRead == sane' = FALSE /\ UNCHANGED <<ip, step, got, text, threw>>

Locks == <<owner, asleep, woken>>

-----------------------------------------------------------------------------
(* The gate of every access: the mutex, and one test of owner.             *)

MutexFree(v) == \A t \in copying : Var(t) # v

(* Mutant of Open: owner is not tested.                                    *)
OpenAlways(t, v) == MutexFree(v)
Open(t, v) == MutexFree(v) /\ (owner[v] \in {NoOwner, t} \/ t \in woken)
Through(t) == woken' = woken \ {t} /\ UNCHANGED <<owner, asleep>>

(* The getters of a type, by what they are asked for; a type without one   *)
(* inherits Variable's, which throws.                                      *)
Read(v, as) ==
  CASE as = "double" /\ Type[v] = "NUMERIC" -> {Rounded(value[v] * Unit, 1)}
    [] as = "double" /\ Type[v] = "REAL" -> {value[v]}
    [] as \in {"long", "int"} /\ Type[v] \in {"NUMERIC", "REAL"} ->
         LET longs == IF Type[v] = "REAL" THEN ToLong(value[v]) ELSE {value[v]}
         IN IF as = "int" THEN {ToInt(i) : i \in longs} ELSE longs
    [] as = "char" /\ Type[v] = "CHAR" -> {value[v]}
    [] as = "string" /\ Type[v] = "STRING" -> {value[v]}
    [] OTHER -> {}

Accepts(type, as) ==
  CASE type \in {"NUMERIC", "REAL"} -> as \in {"double", "long"}
    [] type = "CHAR" -> as = "char"
    [] type = "STRING" -> as = "string"

(* What throws before it waits: a double LOCK, the wrong type, a constant. *)
Refused(t) ==
  CASE Now(t).do = "LOCK" -> owner[Var(t)] = t
    [] Now(t).do = "get" -> Read(Var(t), Now(t).as) = {}
    [] Now(t).do = "set" -> Var(t) \in Consts \/ ~Accepts(Type[Var(t)], Now(t).as)

Wait(t) ==
  /\ Runs(t) /\ t \notin copying
  /\ Now(t).do \in {"get", "set", "LOCK"} /\ ~Refused(t)
  /\ MutexFree(Var(t)) /\ ~Open(t, Var(t))
  /\ asleep' = [asleep EXCEPT ![Var(t)] = @ \cup {t}]
  /\ UNCHANGED <<script, ip, step, got, text, value, heap, fresh, owner, woken,
                 copying, threw, sane>>

Lock(t) ==
  /\ At(t, "LOCK")
  /\ IF Refused(t) THEN Throw(t) /\ UNCHANGED Locks
     ELSE /\ Open(t, Var(t))
          /\ owner' = [owner EXCEPT ![Var(t)] = t]
          /\ woken' = woken \ {t}
          /\ Finish(t) /\ UNCHANGED asleep
  /\ UNCHANGED <<script, value, heap, fresh, copying>>

Unlock(t) ==
  LET v == Var(t) IN
  /\ At(t, "UNLOCK")
  /\ IF owner[v] = NoOwner THEN Throw(t) /\ UNCHANGED Locks
     ELSE /\ owner' = [owner EXCEPT ![v] = NoOwner]
          /\ \/ asleep[v] = {} /\ UNCHANGED <<asleep, woken>>
             \/ \E w \in asleep[v] : /\ asleep' = [asleep EXCEPT ![v] = @ \ {w}]
                                     /\ woken' = woken \cup {w}
          /\ Finish(t)
  /\ UNCHANGED <<script, value, heap, fresh, copying>>

Get(t) ==
  /\ At(t, "get")
  /\ IF Refused(t) THEN Throw(t) /\ UNCHANGED Locks
     ELSE /\ Open(t, Var(t)) /\ Through(t)
          /\ \E x \in Read(Var(t), Now(t).as) : Go(t, Append(got[t], x))
  /\ UNCHANGED <<script, value, heap, fresh, copying>>

Reject(t) ==
  /\ Awake(t) /\ Misused(Cur(t)) /\ Throw(t)
  /\ UNCHANGED <<script, value, heap, fresh, owner, asleep, woken, copying>>

(* A comparison with an infinity or a NaN has either outcome.              *)
Holds(op, xs) ==
  CASE op = "JMPZ" -> xs[1] = 0
    [] op = "JMPNZ" -> xs[1] # 0
    [] op = "JMPGT" -> xs[1] > xs[2]
    [] op = "JMPLT" -> xs[1] < xs[2]
    [] op = "JMPGTE" -> xs[1] >= xs[2]
    [] op = "JMPLTE" -> xs[1] <= xs[2]
Branch(t) ==
  /\ At(t, "branch")
  /\ \E taken \in IF Len(got[t]) = 2 /\ ~Finite(got[t]) THEN BOOLEAN
                    ELSE {Holds(Cur(t).op, got[t])} :
       IF taken THEN Go(t, got[t]) ELSE Finish(t)
  /\ UNCHANGED <<script, value, heap, fresh, owner, asleep, woken, copying>>

(* A label is a position less two here, where positions begin with 1; the  *)
(* loops of execute and runThread end beyond their instructions.           *)
Jump(t) ==
  /\ At(t, "jump") /\ GoTo(t, Last(got[t]) + 2)
  /\ UNCHANGED <<script, value, heap, fresh, owner, asleep, woken, copying>>

Sleep(t) ==
  /\ At(t, "sleep") /\ Finish(t)
  /\ UNCHANGED <<script, value, heap, fresh, owner, asleep, woken, copying>>

(* Tests between the getters and the setter.                               *)
Zero(t) ==
  /\ At(t, "zero")
  /\ IF got[t][1] = 0 THEN Throw(t) ELSE Go(t, got[t])
  /\ UNCHANGED <<script, value, heap, fresh, owner, asleep, woken, copying>>

-----------------------------------------------------------------------------
(* Raw reads, through the pointer a getString returned earlier.            *)

Pointer(t) == IF Now(t).do = "char" THEN got[t][3] ELSE got[t][1]
Text(t) == heap[Pointer(t)]
Live(t, do) == At(t, do) /\ Pointer(t) \in DOMAIN heap

ReadFreed(t) ==
  /\ Runs(t) /\ Now(t).do \in {"fits", "bounds", "copy", "fetch", "length", "char"}
  /\ Pointer(t) \notin DOMAIN heap
  /\ BadRead
  /\ UNCHANGED <<script, value, heap, fresh, owner, asleep, woken, copying>>

(* is_const and checkSize, before set takes the mutex.                     *)
Fits(t) ==
  /\ Live(t, "fits")
  /\ IF Var(t) \in Consts \/ Len(Text(t)) >= Size[Var(t)] THEN Throw(t) ELSE Go(t, got[t])
  /\ UNCHANGED <<script, value, heap, fresh, owner, asleep, woken, copying>>

(* Mutant of InBounds: one too far.                                        *)
InBoundsOrBehind(i, s) == i \in 0..Len(s)
InBounds(i, s) == i \in 0..Len(s) - 1

Bounds(t) ==
  /\ Live(t, "bounds")
  /\ IF InBounds(got[t][2], Text(t)) THEN Go(t, got[t]) ELSE Throw(t)
  /\ UNCHANGED <<script, value, heap, fresh, owner, asleep, woken, copying>>

(* The copy in which SET_STR_CHAR sets the character: calloc, strcpy.      *)
Copied(t) == [Text(t) EXCEPT ![got[t][2] + 1] = got[t][3]]
Copy(t) ==
  /\ Live(t, "copy")
  /\ IF got[t][2] \in 0..Len(Text(t)) - 1
       THEN /\ heap' = [a \in DOMAIN heap \cup {fresh} |->
                          IF a = fresh THEN Copied(t) ELSE heap[a]]
            /\ Go(t, Append(got[t], fresh))
            /\ fresh' = fresh + 1
       ELSE BadRead /\ UNCHANGED <<heap, fresh>>
  /\ UNCHANGED <<script, value, owner, asleep, woken, copying>>

Fetch(t) ==
  /\ Live(t, "fetch")
  /\ IF got[t][2] \in 0..Len(Text(t)) - 1
       THEN Go(t, Append(got[t], Text(t)[got[t][2] + 1])) ELSE BadRead
  /\ UNCHANGED <<script, value, heap, fresh, owner, asleep, woken, copying>>

(* std::string buf = getString()                                           *)
Length(t) ==
  /\ Live(t, "length")
  /\ IF Text(t) = <<>> THEN Finish(t) ELSE Go(t, Append(got[t], Len(Text(t))))
  /\ UNCHANGED <<script, value, heap, fresh, owner, asleep, woken, copying>>

(* getString()[i]                                                          *)
Char(t) ==
  LET i == Len(text[t]) + 1 IN
  /\ Live(t, "char")
  /\ IF i > Len(Text(t)) THEN BadRead
     ELSE /\ text' = [text EXCEPT ![t] = Append(@, Text(t)[i])]
          /\ got' = [got EXCEPT ![t] = SubSeq(@, 1, 2)]
          /\ step' = [step EXCEPT ![t] = IF i = got[t][2] THEN 5 ELSE 3]
          /\ UNCHANGED <<ip, threw, sane>>
  /\ UNCHANGED <<script, value, heap, fresh, owner, asleep, woken, copying>>

PrintOut(t) ==
  /\ At(t, "print") /\ Finish(t)
  /\ UNCHANGED <<script, value, heap, fresh, owner, asleep, woken, copying>>

-----------------------------------------------------------------------------
(* Setters.                                                                *)

Input(t) ==
  IF Cur(t).op \in {"ADD", "SUB", "MUL", "DIV"} THEN Computed(Cur(t).op, got[t])
  ELSE {got[t][Len(got[t])]}

Stored(type, as, x) ==
  CASE type = "NUMERIC" /\ as = "double" -> ToLong(x)
    [] type = "REAL" /\ as = "long" -> {Rounded(x * Unit, 1)}
    [] OTHER -> {x}
Set(t) ==
  LET v == Var(t) IN
  /\ At(t, "set") /\ Now(t).as # "string"
  /\ IF Refused(t) THEN Throw(t) /\ UNCHANGED <<value, owner, asleep, woken>>
     ELSE /\ Open(t, v) /\ Through(t)
            /\ \E x \in Input(t) : \E y \in Stored(Type[v], Now(t).as, x) :
                 value' = [value EXCEPT ![v] = y]
            /\ Finish(t)
  /\ UNCHANGED <<script, heap, fresh, copying>>

(* doDelete, with the mutex.                                               *)
Free(t) ==
  LET v == Var(t) IN
  /\ At(t, "set") /\ Now(t).as = "string" /\ t \notin copying
  /\ IF Refused(t) THEN Throw(t) /\ UNCHANGED <<heap, owner, asleep, woken, copying>>
     ELSE /\ Open(t, v) /\ Through(t)
          /\ heap' = Restrict(heap, DOMAIN heap \ {value[v]})
          /\ copying' = copying \cup {t}
          /\ UNCHANGED <<ip, step, got, text, threw, sane>>
  /\ UNCHANGED <<script, value, fresh>>

(* Mutant of NewBuffer: set keeps the pointer it is given.                 *)
NewBufferShared(v, p) ==
  /\ value' = [value EXCEPT ![v] = p]
  /\ UNCHANGED <<heap, fresh>>

NewBuffer(v, p) ==
  /\ heap' = [a \in DOMAIN heap \cup {fresh} |-> IF a = fresh THEN heap[p] ELSE heap[a]]
  /\ value' = [value EXCEPT ![v] = fresh]
  /\ fresh' = fresh + 1

(* calloc and strcpy, which read the argument of set.                      *)
Replace(t) ==
  LET p == got[t][Len(got[t])] IN
  /\ Runs(t) /\ t \in copying
  /\ IF p \notin DOMAIN heap THEN BadRead /\ UNCHANGED <<value, heap, fresh, copying>>
     ELSE /\ NewBuffer(Var(t), p)
          /\ copying' = copying \ {t}
          /\ IF Cur(t).op = "ASSIGN" THEN Finish(t) ELSE Go(t, got[t])
  /\ UNCHANGED <<script, owner, asleep, woken>>

FreeCopy(t) ==
  /\ At(t, "free")
  /\ heap' = Restrict(heap, DOMAIN heap \ {got[t][4]})
  /\ Finish(t)
  /\ UNCHANGED <<script, value, fresh, owner, asleep, woken, copying>>

Step(t) ==
  \/ Reject(t) \/ Wait(t) \/ Lock(t) \/ Unlock(t) \/ Get(t) \/ Zero(t)
  \/ Branch(t) \/ Jump(t) \/ Sleep(t)
  \/ ReadFreed(t) \/ Fits(t) \/ Bounds(t) \/ Copy(t) \/ Fetch(t) \/ Length(t) \/ Char(t) \/ PrintOut(t)
  \/ Set(t) \/ Free(t) \/ Replace(t) \/ FreeCopy(t)

Next == \E t \in Threads : Step(t)
Spec == Init /\ [][Next]_vars

-----------------------------------------------------------------------------
(* What the buffers in use are for: a variable's text, or the copy of a    *)
(* SET_STR_CHAR that has not ended.                                        *)
Held(a) ==
  \/ \E v \in Strings : value[v] = a
  \/ \E t \in Threads : /\ ip[t] \in DOMAIN script[t] /\ Cur(t).op = "SET_STR_CHAR"
                        /\ Len(got[t]) = 4 /\ got[t][4] = a

(* STRING variables never share a buffer, whatever threads do: each has a  *)
(* live one of its own except while its set holds the mutex, so none is    *)
(* freed twice, and no buffer is left without a holder (VarString::set).   *)
BuffersPrivate ==
  /\ \A u, v \in Strings : u # v => value[u] # value[v]
  /\ \A v \in Strings : value[v] \in DOMAIN heap <=> ~\E t \in copying : Var(t) = v
  /\ \A a \in DOMAIN heap : Held(a)

(* The threads share a variable only between its LOCK and its UNLOCK,      *)
(* which each executes once, and no string is assigned to itself.          *)
Uses(t, v) ==
  {i \in 1..Len(script[t]) : \E k \in 1..Len(script[t][i].args) : script[t][i].args[k] = v}
LocksAround(t, v) ==
  \A i \in Uses(t, v) :
    /\ script[t][i].op = "LOCK" <=> \A j \in Uses(t, v) : i <= j
    /\ script[t][i].op = "UNLOCK" <=> \A j \in Uses(t, v) : j <= i
Guarded ==
  /\ \A v \in Vars \ Consts :
       \/ Cardinality({t \in Threads : Uses(t, v) # {}}) <= 1
       \/ \A t \in Threads : LocksAround(t, v)
  /\ \A t \in Threads : \A i \in 1..Len(script[t]) :
       script[t][i].op = "ASSIGN" => script[t][i].args[1] # script[t][i].args[2]

(* getString's pointer outlives the mutex, and LOCK makes that safe:       *)
(* programs that lock the strings they share read no freed buffer and      *)
(* nothing outside one (opSet, opGet, opAssign, toString).                 *)
LockedStringsSafe == Guarded => sane

(* And their divisors are not 0, which DIV tests with a first getDouble.   *)
NoDivisionByZero == Guarded => \A v \in Vars : Type[v] = "REAL" => value[v] # NotFinite

(* SET_STR_CHAR under locks stores the string as it is at that moment with *)
(* exactly the asked character changed, for an index that fits an int: no  *)
(* character another thread set before is lost (opSet).                    *)
IntIndex(t) ==
  LET i == Cur(t).args[2] IN
  Type[i] = "NUMERIC" /\ value[i] \in -(IntRange \div 2)..(IntRange \div 2 - 1)
SetsOneCharacter(t) ==
  LET old == heap[value[Var(t)]]
      new == heap[got[t][4]]
      at == value[Cur(t).args[2]] + 1
  IN /\ Len(new) = Len(old) /\ at \in 1..Len(old)
     /\ \A i \in 1..Len(old) : new[i] = IF i = at THEN value[Cur(t).args[3]] ELSE old[i]
CharactersNotLost ==
  [][Guarded => \A t \in copying' \ copying :
       (Cur(t).op = "SET_STR_CHAR" /\ IntIndex(t)) => SetsOneCharacter(t)]_vars

(* OUT asks for the string once more for each character; under locks what  *)
(* it prints is the string the variable holds (VarString::toString).       *)
OutPrintsHeldString ==
  [][\A t \in Threads :
       (Guarded /\ ip'[t] # ip[t] /\ Cur(t).op = "OUT") =>
         LET p == value[Cur(t).args[1]] IN p \in DOMAIN heap /\ text[t] = heap[p]]_vars

(* Arithmetic and comparisons go through double; with NUMERIC arguments    *)
(* and results that a double holds, those on the way of a longer sum or    *)
(* product too, they are the integers' all the same, DIV truncating toward *)
(* 0; a conditional jump whose condition holds goes to the line below its  *)
(* label and any other to the next line (MathFuncs, AddressFuncs,          *)
(* VarInt::set).                                                           *)
Exact == -2^Mantissa..2^Mantissa
TruncatedQuotient(a, b, q) ==
  LET r == a - b * q IN Abs(r) < Abs(b) /\ (r = 0 \/ (r < 0) = (a < 0))
Integral(ins) == \A k \in 1..Len(ins.args) : Type[ins.args[k]] = "NUMERIC"
Operands(ins) == [k \in 1..Len(ins.args) - 1 |-> value[ins.args[k + 1]]]
Sum(xs) == FoldLeft(LAMBDA x, y : x + y, 0, xs)
Product(xs) == FoldLeft(LAMBDA x, y : x * y, 1, xs)
RightResult(op, xs, y) ==
  CASE op = "ADD" -> (\A k \in 1..Len(xs) : Sum(SubSeq(xs, 1, k)) \in Exact)
                       => y = Sum(xs)
    [] op = "MUL" -> (\A k \in 1..Len(xs) : Product(SubSeq(xs, 1, k)) \in Exact)
                       => y = Product(xs)
    [] op = "SUB" -> xs[1] - xs[2] \in Exact => y = xs[1] - xs[2]
    [] op = "DIV" -> TruncatedQuotient(xs[1], xs[2], y)
ComparesRight(ins, from, to) ==
  LET below == value[ins.args[1]] + 2 IN
  to = IF Holds(ins.op, Operands(ins))
         THEN below ELSE from + 1
IntegerArithmetic ==
  [][\A t \in Threads :
       (Guarded /\ ip'[t] # ip[t]) =>
         LET ins == Cur(t) IN
         (Integral(ins) /\ \A k \in DOMAIN Operands(ins) : Operands(ins)[k] \in Exact) =>
           /\ ins.op \in {"ADD", "SUB", "MUL", "DIV"} =>
                RightResult(ins.op, Operands(ins), value'[ins.args[1]])
           /\ ins.op \in Tests \cup Comparisons => ComparesRight(ins, ip[t], ip'[t])]_vars
=============================================================================
