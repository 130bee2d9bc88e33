-------------------------------- MODULE Parse --------------------------------
(***************************************************************************)
(* Parse::parseProgram: the two passes over the tokenized file.  The first *)
(* takes the VAR and LABEL lines out of token_list while it walks through  *)
(* it, the second turns what is left into instructions, in which the names *)
(* of labels have become positions.                                        *)
(*                                                                         *)
(* A line is its number, its opcode and its tokens.  Of opcodes the parser *)
(* tells apart VAR, LABEL, the seven that begin with JMP, the other valid  *)
(* ones ("INS") and the rest ("bad"); of tokens variables ($x), labels     *)
(* (all capitals), constants, and what is neither ("junk").  decl says     *)
(* what becomes of the type and the value of a VAR line.                   *)
(***************************************************************************)
EXTENDS Integers, Sequences, FiniteSetsExt, SequencesExt

CONSTANTS
  Names,    \* what distinguishes the tokens of one kind
  Files     \* the tokenized files that may arrive

Token == [kind : {"var", "label", "const", "junk"}, name : Names]
Line == [num : Nat, op : {"VAR", "LABEL", "JMP", "INS", "bad"},
         args : Seq(Token), decl : {"good", "refused", "dies"}]

ASSUME FilesAssumption ==
  /\ Files \subseteq Seq(Line)
  /\ \A f \in Files : \A i, j \in 1..Len(f) : i < j => f[i].num < f[j].num
  /\ \A f \in Files : \A i \in 1..Len(f) :
       f[i].op = "VAR" /\ f[i].decl = "good"
         => f[i].args # <<>> /\ f[i].args[1].kind = "var"

VARIABLES
  file,         \* the file as it arrived
  at,           \* "first" pass, "second" pass, or how the parser ended
  token_list,   \* Program::token_list
  linenum,
  v_state,
  var_list,     \* the names in Program::var_list
  label_list,   \* Program::label_list
  ins_list,     \* Program::ins_list
  error         \* the number of the line at which an exception was thrown

vars == <<file, at, token_list, linenum, v_state, var_list, label_list, ins_list,
          error>>

Init ==
  /\ file \in Files
  /\ at = "first"
  /\ token_list = file
  /\ linenum = 0
  /\ v_state = TRUE
  /\ var_list = {}
  /\ label_list = <<>>
  /\ ins_list = <<>>
  /\ error = -1

-----------------------------------------------------------------------------
Tokens == token_list[linenum + 1]

Walking(pass) == at = pass /\ linenum < Len(token_list)

(* A MisException, or an exception of the standard library, which nobody   *)
(* catches.  Either way the rest of the file is not looked at.             *)
Stop(how) ==
  /\ at' = how
  /\ error' = Tokens.num
  /\ UNCHANGED <<token_list, linenum, var_list, label_list>>

(* Program's lists: the parser looks names up before it adds or uses them. *)
checkVariable(name) == name \in var_list
addVariable(name) == var_list' = var_list \cup {name}
checkLabel(name) == name \in DOMAIN label_list
getLabel(name) == label_list[name]
addLabel(name, position) ==
  label_list' = [t \in DOMAIN label_list \cup {name} |->
                   IF t = name THEN position ELSE label_list[t]]

(* parseVariable and addVariable.                                          *)
Variable ==
  /\ Walking("first") /\ v_state /\ Tokens.op = "VAR"
  /\ \/ /\ Tokens.decl = "good"
        /\ ~checkVariable(Tokens.args[1])
        /\ addVariable(Tokens.args[1])
        /\ token_list' = Tail(token_list)
        /\ UNCHANGED <<at, linenum, label_list, error>>
     \/ /\ \/ Tokens.decl = "refused"
           \/ Tokens.decl = "good" /\ checkVariable(Tokens.args[1])
        /\ Stop("error")
     \/ /\ Tokens.decl = "dies"
        /\ Stop("died")
  /\ UNCHANGED <<file, v_state, ins_list>>

(* Mutant of LabelValue: the position of the next line, as if pc were not  *)
(* incremented after a jump.                                               *)
LabelValueNext == linenum

(* linenum - 1, which for linenum = 0 is SIZE_MAX, as a long long int.     *)
LabelValue == linenum - 1

(* Mutant of WithoutLine: an erase of the range up to linenum + 2.         *)
WithoutTwo ==
  SubSeq(token_list, 1, linenum) \o SubSeq(token_list, linenum + 3, Len(token_list))
WithoutLine == RemoveAt(token_list, linenum + 1)

(* Without a name tokens[2] is read past the end of the vector before the  *)
(* number of tokens is tested: the process may die of that.                *)
Label ==
  LET name == Tokens.args[1] IN
  /\ Walking("first") /\ Tokens.op = "LABEL"
  /\ v_state' = FALSE
  /\ \/ /\ Len(Tokens.args) = 1 /\ ~checkLabel(name)
        /\ addLabel(name, LabelValue)
        /\ token_list' = WithoutLine
        /\ UNCHANGED <<at, linenum, var_list, error>>
     \/ /\ Len(Tokens.args) = 1 => checkLabel(name)
        /\ Stop("error")
     \/ /\ Tokens.args = <<>>
        /\ Stop("died")
  /\ UNCHANGED <<file, ins_list>>

(* Mutants of Skip: v_state stays; ++linenum is forgotten.                 *)
SkipInVarState ==
  /\ Walking("first") /\ Tokens.op # "LABEL"
  /\ v_state => Tokens.op # "VAR"
  /\ linenum' = linenum + 1
  /\ UNCHANGED <<file, at, token_list, v_state, var_list, label_list, ins_list, error>>

SkipForEver ==
  /\ Walking("first") /\ Tokens.op # "LABEL"
  /\ v_state => Tokens.op # "VAR"
  /\ v_state' = FALSE
  /\ UNCHANGED <<file, at, token_list, linenum, var_list, label_list, ins_list, error>>

Skip ==
  /\ Walking("first") /\ Tokens.op # "LABEL"
  /\ v_state => Tokens.op # "VAR"
  /\ v_state' = FALSE
  /\ linenum' = linenum + 1
  /\ UNCHANGED <<file, at, token_list, var_list, label_list, ins_list, error>>

(* What is left of token_list is copied to ins_tokens.                     *)
EndFirstPass ==
  /\ at = "first" /\ linenum >= Len(token_list)
  /\ at' = "second"
  /\ linenum' = 0
  /\ UNCHANGED <<file, token_list, v_state, var_list, label_list, ins_list, error>>

-----------------------------------------------------------------------------
(* Mutant of Accepted: labels are accepted everywhere.                     *)
AcceptedAnyLabel(op, i, tok) ==
  CASE tok.kind = "var" -> checkVariable(tok)
    [] tok.kind = "label" -> checkLabel(tok)
    [] OTHER -> tok.kind = "const"

(* Argument i of an instruction with opcode op is accepted.                *)
Accepted(op, i, tok) ==
  CASE tok.kind = "var" -> checkVariable(tok)
    [] tok.kind = "label" -> op = "JMP" /\ checkLabel(tok)
    [] tok.kind = "const" -> ~(op = "JMP" /\ i = 1)
    [] OTHER -> FALSE

ValidInstruction ==
  /\ Tokens.op \in {"JMP", "INS"}
  /\ \A i \in 1..Len(Tokens.args) : Accepted(Tokens.op, i, Tokens.args[i])

(* parseInstruction.  An instruction is the line it comes from and, for    *)
(* each argument that is a label, the label's value.                       *)
NewInstruction ==
  LET labels == {i \in 1..Len(Tokens.args) : Tokens.args[i].kind = "label"} IN
  [num |-> Tokens.num, jumps |-> [i \in labels |-> getLabel(Tokens.args[i])]]

AddInstruction ==
  /\ Walking("second") /\ ValidInstruction
  /\ ins_list' = Append(ins_list, NewInstruction)
  /\ linenum' = linenum + 1
  /\ UNCHANGED <<file, at, token_list, v_state, var_list, label_list, error>>

BadInstruction ==
  /\ Walking("second") /\ ~ValidInstruction
  /\ Stop("error")
  /\ UNCHANGED <<file, v_state, ins_list>>

EndSecondPass ==
  /\ at = "second" /\ linenum >= Len(token_list)
  /\ at' = "done"
  /\ UNCHANGED <<file, token_list, linenum, v_state, var_list, label_list, ins_list,
                 error>>

Next ==
  \/ Variable \/ Label \/ Skip \/ EndFirstPass
  \/ AddInstruction \/ BadInstruction \/ EndSecondPass

Spec == Init /\ [][Next]_vars

(* The parser is a sequential function: it goes on while it can.           *)
FairSpec == Spec /\ WF_vars(Next)

-----------------------------------------------------------------------------
(* Types of the state; in variable state the list is consumed at its head. *)
TypeOK ==
  /\ file \in Seq(Line)
  /\ at \in {"first", "second", "done", "error", "died"}
  /\ token_list \in Seq(Line)
  /\ linenum \in 0..Len(token_list)
  /\ v_state \in BOOLEAN /\ (v_state => linenum = 0)
  /\ var_list \subseteq Token
  /\ DOMAIN label_list \subseteq Token
  /\ \A t \in DOMAIN label_list : label_list[t] \in -1..Len(token_list)-1
  /\ \A n \in 1..Len(ins_list) :
       /\ ins_list[n].num \in Nat
       /\ \A i \in DOMAIN ins_list[n].jumps :
            ins_list[n].jumps[i] \in -1..Len(token_list)-1
  /\ error \in Nat \cup {-1}

(* The LABEL lines of the file that have been taken out of the list.       *)
LabelsRead ==
  {l \in ToSet(file) : l.op = "LABEL" /\ l \notin ToSet(token_list)}

(* A label separates what precedes it in the file from what follows it,    *)
(* however many VAR and LABEL lines are erased from the list before and    *)
(* after the label was given its value (Parse.cpp:22-49).                  *)
LabelsCutProgram ==
  \A l \in LabelsRead : \A k \in 1..Len(token_list) :
    token_list[k].num < l.num <=> k <= label_list[l.args[1]] + 1

(* The instructions are the lines of the file that are neither variables   *)
(* nor labels, each once, in their order: a line that is erased does not   *)
(* take its neighbour with it (Parse.cpp:32, 42-43, 57-61).                *)
IsInstruction(l) == l.op \notin {"VAR", "LABEL"}
InstructionsInOrder ==
  at = "done" =>
    /\ \A m, n \in 1..Len(ins_list) : m < n => ins_list[m].num < ins_list[n].num
    /\ {ins_list[n].num : n \in 1..Len(ins_list)}
         = {l.num : l \in {k \in ToSet(file) : IsInstruction(k)}}

(* What the language says of a file, written without the parser: the       *)
(* declarations are the VAR lines at its top; a declaration or a label may *)
(* be at fault, or an instruction.                                         *)
Declarations ==
  {i \in 1..Len(file) : \A j \in 1..i : file[j].op = "VAR"}
LabelLines == {i \in 1..Len(file) : file[i].op = "LABEL"}
Declared == {file[i].args[1] : i \in {j \in Declarations : file[j].decl = "good"}}
Labels == {file[i].args[1] : i \in {j \in LabelLines : Len(file[j].args) = 1}}

FaultyDeclarations ==
  {i \in Declarations :
     \/ file[i].decl # "good"
     \/ \E j \in 1..i-1 : file[j].decl = "good" /\ file[j].args[1] = file[i].args[1]}
    \cup
  {i \in LabelLines :
     Len(file[i].args) # 1 \/ \E j \in LabelLines : j < i /\ file[j].args = file[i].args}

FaultyInstructions ==
  {i \in 1..Len(file) \ (Declarations \cup LabelLines) :
     LET l == file[i] IN
     \/ l.op \notin {"JMP", "INS"}
     \/ \E k \in 1..Len(l.args) :
          LET t == l.args[k] IN
          \/ t.kind = "junk"
          \/ t.kind = "var" /\ t \notin Declared
          \/ t.kind = "label" /\ (l.op # "JMP" \/ t \notin Labels)
          \/ t.kind = "const" /\ l.op = "JMP" /\ k = 1}

(* The verdict of the parser: a file is accepted only without faults, and  *)
(* the error names the line of the first faulty declaration or, if there   *)
(* is none, of the first faulty instruction (Parse.cpp:45-48, 116, 138-141)*)
VerdictIsRight ==
  LET faults == IF FaultyDeclarations # {} THEN FaultyDeclarations
                ELSE FaultyInstructions IN
  /\ at = "done" => faults = {}
  /\ at \in {"error", "died"} => faults # {} /\ error = file[Min(faults)].num

(* The parser ends, although the list shrinks under the loop that walks    *)
(* through it (Parse.cpp:22-49).                                           *)
ParsingEnds == <>(at \in {"done", "error", "died"})
=============================================================================
