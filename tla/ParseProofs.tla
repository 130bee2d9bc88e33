---------------------------- MODULE ParseProofs ----------------------------
(***************************************************************************)
(* What the parser does with every file, of any length, with any names.    *)
(*                                                                         *)
(* The first pass erases lines from the list it walks through.  What keeps *)
(* the proof together is Walked, the number of lines of the file it has    *)
(* dealt with: the rest of the list is the rest of the file, and the list  *)
(* up to linenum holds the lines of code among the first Walked lines.     *)
(***************************************************************************)
EXTENDS Parse, SequenceTheorems, TLAPS

Walked == Len(file) - Len(token_list) + linenum
CodeLines == 1..Len(file) \ (Declarations \cup LabelLines)

(* The list consists of lines of the file, in their order.                 *)
ListFromFile ==
  /\ \A i, j \in 1..Len(token_list) : i < j => token_list[i].num < token_list[j].num
  /\ \A k \in 1..Len(token_list) : \E i \in 1..Len(file) : token_list[k] = file[i]

Erased(i) == \A k \in 1..Len(token_list) : token_list[k] # file[i]
CutAt(i, position) ==
  \A k \in 1..Len(token_list) : token_list[k].num < file[i].num <=> k <= position + 1

(* A label that was taken out of the list is known, at its place.          *)
ErasedLabelsKnown ==
  \A i \in LabelLines : Erased(i) =>
    /\ Len(file[i].args) = 1
    /\ file[i].args[1] \in DOMAIN label_list
    /\ CutAt(i, label_list[file[i].args[1]])

RestIsUnread ==
  /\ Len(token_list) <= Len(file)
  /\ \A k \in linenum+1..Len(token_list) :
       token_list[k] = file[k + Len(file) - Len(token_list)]

CodeKept ==
  /\ \A k \in 1..linenum : \E i \in CodeLines : i <= Walked /\ token_list[k] = file[i]
  /\ \A i \in CodeLines : i <= Walked => \E k \in 1..linenum : token_list[k] = file[i]

NamesRead ==
  /\ var_list = {file[i].args[1] : i \in {j \in Declarations : j <= Walked}}
  /\ DOMAIN label_list = {file[i].args[1] : i \in {j \in LabelLines : j <= Walked}}
  /\ \A t \in DOMAIN label_list : label_list[t] < linenum

FirstPass ==
  at = "first" =>
    /\ RestIsUnread
    /\ CodeKept
    /\ v_state <=> \A i \in 1..Walked : file[i].op = "VAR"
    /\ \A i \in 1..Walked : i \notin FaultyDeclarations
    /\ NamesRead
    /\ ins_list = <<>>

(* The second pass finds exactly the lines of code and all the names.      *)
AllRead ==
  /\ FaultyDeclarations = {}
  /\ var_list = Declared
  /\ DOMAIN label_list = Labels
  /\ v_state => Len(token_list) = 0
  /\ \A k \in 1..Len(token_list) : \E i \in CodeLines : token_list[k] = file[i]
  /\ \A i \in CodeLines : \E k \in 1..Len(token_list) : token_list[k] = file[i]

CodeAccepted ==
  /\ ins_list \in Seq(ToSet(ins_list))
  /\ Len(ins_list) = linenum
  /\ \A k \in 1..linenum : ins_list[k].num = token_list[k].num
  /\ \A i \in CodeLines : \A k \in 1..linenum :
       token_list[k] = file[i] => i \notin FaultyInstructions

SecondPass ==
  /\ at \in {"second", "done"} => AllRead /\ CodeAccepted
  /\ at = "done" => linenum = Len(token_list)

IInv ==
  /\ file \in Files
  /\ TypeOK
  /\ ListFromFile
  /\ ErasedLabelsKnown
  /\ FirstPass
  /\ SecondPass
  /\ VerdictIsRight

-----------------------------------------------------------------------------
(* Sequences, and the least of a set of positions.                         *)

LEMMA RemoveAtProperties ==
  ASSUME NEW S, NEW s \in Seq(S), NEW n \in 1..Len(s)
  PROVE  /\ RemoveAt(s, n) \in Seq(S)
         /\ Len(RemoveAt(s, n)) = Len(s) - 1
         /\ \A k \in 1..Len(s)-1 : RemoveAt(s, n)[k] = IF k < n THEN s[k] ELSE s[k + 1]
<1>1. /\ SubSeq(s, 1, n - 1) \in Seq(S)
      /\ Len(SubSeq(s, 1, n - 1)) = n - 1
      /\ \A k \in 1..n-1 : SubSeq(s, 1, n - 1)[k] = s[k]
  <2>1. \A k \in 1..n-1 : s[k] \in S
    OBVIOUS
  <2> QED
    BY <2>1, SubSeqProperties
<1>2. /\ SubSeq(s, n + 1, Len(s)) \in Seq(S)
      /\ Len(SubSeq(s, n + 1, Len(s))) = Len(s) - n
      /\ \A k \in 1..Len(s)-n : SubSeq(s, n + 1, Len(s))[k] = s[n + k]
  <2>1. \A k \in n+1..Len(s) : s[k] \in S
    OBVIOUS
  <2>2. n + 1 \in Int /\ Len(s) \in Int
    OBVIOUS
  <2> QED
    BY <2>1, <2>2, SubSeqProperties
<1> DEFINE a == SubSeq(s, 1, n - 1)
           b == SubSeq(s, n + 1, Len(s))
<1>3. RemoveAt(s, n) = a \o b
  BY DEF RemoveAt
<1> HIDE DEF a, b
<1>4. /\ a \in Seq(S) /\ Len(a) = n - 1 /\ \A k \in 1..n-1 : a[k] = s[k]
      /\ b \in Seq(S) /\ Len(b) = Len(s) - n /\ \A k \in 1..Len(s)-n : b[k] = s[n + k]
  BY <1>1, <1>2 DEF a, b
<1>5. /\ a \o b \in Seq(S)
      /\ Len(a \o b) = Len(a) + Len(b)
      /\ \A k \in 1..Len(a) + Len(b) : (a \o b)[k] = IF k <= Len(a) THEN a[k] ELSE b[k - Len(a)]
  BY <1>4, ConcatProperties
<1> QED
  BY <1>3, <1>4, <1>5

LEMMA MinIsLeast ==
  ASSUME NEW n \in Nat, NEW S, S \subseteq 1..n, NEW i \in S, \A j \in S : i <= j
  PROVE  Min(S) = i
<1>1. \A x \in S : (\A y \in S : x <= y) => x = i
  OBVIOUS
<1> QED
  BY <1>1 DEF Min

-----------------------------------------------------------------------------
(* The file does not change, and its lines differ by their numbers.        *)

LEMMA FileFacts ==
  ASSUME file \in Files
  PROVE  /\ file \in Seq(Line)
         /\ \A i, j \in 1..Len(file) : i < j => file[i].num < file[j].num
         /\ \A i \in 1..Len(file) : file[i].op = "VAR" /\ file[i].decl = "good"
              => file[i].args # <<>> /\ file[i].args[1].kind = "var"
         /\ \A i \in 1..Len(file) : file[i] \in Line
         /\ \A i, j \in 1..Len(file) : file[i] = file[j] => i = j
<1>1. /\ file \in Seq(Line)
      /\ \A i, j \in 1..Len(file) : i < j => file[i].num < file[j].num
      /\ \A i \in 1..Len(file) : file[i].op = "VAR" /\ file[i].decl = "good"
           => file[i].args # <<>> /\ file[i].args[1].kind = "var"
  BY FilesAssumption
<1>2. \A i \in 1..Len(file) : file[i] \in Line
  BY <1>1
<1>3. \A i \in 1..Len(file) : file[i].num \in Nat
  BY <1>2 DEF Line
<1>4. ASSUME NEW i \in 1..Len(file), NEW j \in 1..Len(file), file[i] = file[j], i # j
      PROVE  FALSE
  <2>1. Len(file) \in Nat
    BY <1>1
  <2>2. i < j \/ j < i
    BY <1>4, <2>1
  <2> QED
    BY <1>1, <1>3, <1>4, <2>2
<1> QED
  BY <1>1, <1>2, <1>4

LEMMA FileKept ==
  ASSUME file' = file
  PROVE  /\ Declarations' = Declarations /\ LabelLines' = LabelLines
         /\ CodeLines' = CodeLines
         /\ Declared' = Declared /\ Labels' = Labels
         /\ FaultyDeclarations' = FaultyDeclarations
         /\ FaultyInstructions' = FaultyInstructions
<1>1. Declarations' = Declarations /\ LabelLines' = LabelLines
  BY DEF Declarations, LabelLines
<1>2. CodeLines' = CodeLines /\ Declared' = Declared /\ Labels' = Labels
  BY <1>1 DEF CodeLines, Declared, Labels
<1>3. FaultyDeclarations' = FaultyDeclarations
  BY <1>1 DEF FaultyDeclarations
<1>4. FaultyInstructions' = FaultyInstructions
  BY <1>1, <1>2 DEF FaultyInstructions
<1> QED
  BY <1>1, <1>2, <1>3, <1>4

(* The initial states satisfy the invariant.                               *)
LEMMA InitIInv == Init => IInv
<1> SUFFICES ASSUME Init PROVE IInv
  OBVIOUS
<1>1. file \in Files /\ file \in Seq(Line) /\ Len(file) \in Nat
  BY FileFacts DEF Init
<1>2. TypeOK
  BY <1>1 DEF Init, TypeOK
<1>3. ListFromFile
  BY FileFacts, <1>1 DEF Init, ListFromFile
<1>4. ErasedLabelsKnown
  BY <1>1 DEF Init, ErasedLabelsKnown, Erased, LabelLines
<1>5. Walked = 0
  BY <1>1 DEF Init, Walked
<1>6. RestIsUnread /\ CodeKept
  BY <1>1, <1>5 DEF Init, RestIsUnread, CodeKept, CodeLines
<1>7. NamesRead
  <2>1. {j \in Declarations : j <= Walked} = {} /\ {j \in LabelLines : j <= Walked} = {}
    BY <1>5 DEF Declarations, LabelLines
  <2>2. var_list = {} /\ DOMAIN label_list = {}
    BY DEF Init
  <2> QED
    BY <2>1, <2>2 DEF NamesRead
<1>8. FirstPass /\ SecondPass /\ VerdictIsRight
  BY <1>5, <1>6, <1>7 DEF Init, FirstPass, SecondPass, VerdictIsRight
<1> QED
  BY <1>1, <1>2, <1>3, <1>4, <1>8 DEF IInv

-----------------------------------------------------------------------------
(* The first pass.                                                         *)

LEMMA Unread ==
  ASSUME IInv, Walking("first")
  PROVE  /\ Walked \in Nat /\ linenum <= Walked /\ Walked + 1 \in 1..Len(file)
         /\ linenum + 1 \in 1..Len(token_list)
         /\ Tokens = file[Walked + 1] /\ Tokens \in Line
         /\ Walked + 1 \in Declarations <=> v_state /\ Tokens.op = "VAR"
         /\ Walked + 1 \in LabelLines <=> Tokens.op = "LABEL"
<1>1. /\ linenum \in Nat /\ Len(token_list) \in Nat /\ Len(file) \in Nat
      /\ linenum < Len(token_list) /\ Len(token_list) <= Len(file)
      /\ \A k \in linenum+1..Len(token_list) :
           token_list[k] = file[k + Len(file) - Len(token_list)]
  BY DEF IInv, TypeOK, Walking, FirstPass, RestIsUnread
<1>2. /\ Walked \in Nat /\ linenum <= Walked /\ Walked + 1 \in 1..Len(file)
      /\ linenum + 1 \in 1..Len(token_list)
  BY <1>1 DEF Walked
<1>3. Tokens = file[Walked + 1]
  BY <1>1, <1>2 DEF Tokens, Walked
<1>4. Tokens \in Line
  BY <1>2 DEF IInv, TypeOK, Tokens
<1>5. v_state <=> \A i \in 1..Walked : file[i].op = "VAR"
  BY DEF IInv, FirstPass, Walking
<1>6. Walked + 1 \in Declarations <=> v_state /\ Tokens.op = "VAR"
  BY <1>2, <1>3, <1>5 DEF Declarations
<1>7. Walked + 1 \in LabelLines <=> Tokens.op = "LABEL"
  BY <1>2, <1>3 DEF LabelLines
<1> QED
  BY <1>2, <1>3, <1>4, <1>6, <1>7

(* The first pass gives up at the first faulty declaration.                *)
LEMMA FirstFault ==
  ASSUME IInv, Walking("first"), NEW how \in {"error", "died"}, Stop(how),
         Walked + 1 \in FaultyDeclarations,
         UNCHANGED <<file, ins_list>>, v_state' \in BOOLEAN, v_state' => v_state
  PROVE  IInv'
<1>1. UNCHANGED <<file, token_list, linenum, var_list, label_list, ins_list>>
  BY DEF Stop
<1>2. at' = how /\ error' = Tokens.num
  BY DEF Stop
<1>3. TypeOK'
  <2>1. Tokens.num \in Nat
    BY Unread DEF Line
  <2>2. TypeOK
    BY DEF IInv
  <2>3. (v_state => linenum = 0)' /\ v_state' \in BOOLEAN
    BY <1>1, <2>2 DEF TypeOK
  <2>4. /\ (DOMAIN label_list \subseteq Token)'
        /\ (\A t \in DOMAIN label_list : label_list[t] \in -1..Len(token_list)-1)'
        /\ (\A n \in 1..Len(ins_list) :
             /\ ins_list[n].num \in Nat
             /\ \A i \in DOMAIN ins_list[n].jumps :
                  ins_list[n].jumps[i] \in -1..Len(token_list)-1)'
    BY <1>1, <2>2 DEF TypeOK
  <2> QED
    BY <1>1, <1>2, <2>1, <2>2, <2>3, <2>4 DEF TypeOK
<1>4. ListFromFile' /\ (file \in Files)'
  BY <1>1 DEF IInv, ListFromFile
<1>5. ErasedLabelsKnown'
  <2>1. LabelLines' = LabelLines
    BY <1>1, FileKept
  <2>2. \A i : Erased(i)' <=> Erased(i)
    BY <1>1 DEF Erased
  <2> QED
    BY <1>1, <2>1, <2>2 DEF IInv, ErasedLabelsKnown, CutAt
<1>6. VerdictIsRight'
  <2>1. FaultyDeclarations \subseteq 1..Len(file)
    BY DEF FaultyDeclarations, Declarations, LabelLines
  <2>2. \A i \in FaultyDeclarations : Walked + 1 <= i
    <3>1. \A i \in 1..Walked : i \notin FaultyDeclarations
      BY DEF IInv, FirstPass, Walking
    <3> QED
      BY <2>1, <3>1, Unread
  <2>3. Len(file) \in Nat
    BY DEF IInv, TypeOK
  <2>4. Min(FaultyDeclarations) = Walked + 1
    BY <2>1, <2>2, <2>3, MinIsLeast
  <2>5. FaultyDeclarations' = FaultyDeclarations
    BY <1>1, FileKept
  <2>6. FaultyDeclarations # {}
    OBVIOUS
  <2>7. error' = file[Min(FaultyDeclarations)].num
    BY <1>2, <2>4, Unread
  <2> QED
    BY <1>1, <1>2, <2>5, <2>6, <2>7 DEF VerdictIsRight
<1> QED
  BY <1>2, <1>3, <1>4, <1>5, <1>6 DEF IInv, FirstPass, SecondPass

(* A good declaration at the head of the list.                             *)
LEMMA GoodVariable ==
  ASSUME IInv, Walking("first"), v_state, Tokens.op = "VAR", Tokens.decl = "good",
         ~checkVariable(Tokens.args[1]), addVariable(Tokens.args[1]),
         token_list' = Tail(token_list),
         UNCHANGED <<file, at, linenum, v_state, label_list, ins_list, error>>
  PROVE  IInv'
<1> DEFINE n == Walked + 1
           x == Tokens.args[1]
<1>0. TypeOK /\ file \in Files
  BY DEF IInv
<1>1. /\ Walked \in Nat /\ linenum <= Walked /\ n \in 1..Len(file)
      /\ linenum + 1 \in 1..Len(token_list)
      /\ Tokens = file[n] /\ Tokens \in Line /\ n \in Declarations
  BY Unread
<1>2. linenum = 0 /\ at = "first" /\ Len(file) \in Nat
  BY <1>0 DEF TypeOK, Walking
<1>3. /\ token_list' \in Seq(Line) /\ Len(token_list') = Len(token_list) - 1
      /\ \A k \in 1..Len(token_list)-1 : token_list'[k] = token_list[k + 1]
  BY <1>0, <1>1, <1>2, HeadTailProperties DEF TypeOK
<1>4. Walked' = n
  BY <1>0, <1>1, <1>2, <1>3 DEF Walked, TypeOK
<1>5. UNCHANGED <<Declarations, LabelLines, CodeLines, FaultyDeclarations>>
  BY FileKept
<1>6. /\ x \in Token /\ file[n].args[1] = x /\ file[n].op = "VAR"
  <2>1. file[n].args # <<>>
    BY <1>0, <1>1, FileFacts
  <2>2. Tokens.args \in Seq(Token)
    BY <1>1 DEF Line
  <2> QED
    BY <1>1, <2>1, <2>2
<1>7. FirstPass
  BY DEF IInv
<1>8. \A i \in 1..Walked : file[i].op = "VAR"
  BY <1>2, <1>7 DEF FirstPass
<1>9. DOMAIN label_list = {}
  <2>1. \A j \in LabelLines : j <= Walked => FALSE
    BY <1>1, <1>8 DEF LabelLines
  <2>2. DOMAIN label_list = {file[i].args[1] : i \in {j \in LabelLines : j <= Walked}}
    BY <1>2, <1>7 DEF FirstPass, NamesRead
  <2> QED
    BY <2>1, <2>2
<1>10. TypeOK'
  <2>1. var_list' \subseteq Token
    BY <1>0, <1>6 DEF addVariable, TypeOK
  <2>2. ins_list' = <<>>
    BY <1>2, <1>7 DEF FirstPass
  <2>3. (linenum \in 0..Len(token_list))'
    BY <1>1, <1>2, <1>3
  <2> QED
    BY <1>0, <1>2, <1>3, <1>9, <2>1, <2>2, <2>3 DEF TypeOK
<1>11. ListFromFile'
  <2>1. ListFromFile /\ Len(token_list) \in Nat
    BY <1>0 DEF IInv, TypeOK
  <2>2. \A k \in 1..Len(token_list') :
          k + 1 \in 1..Len(token_list) /\ token_list'[k] = token_list[k + 1]
    BY <1>3, <2>1
  <2>3. \A i, j \in 1..Len(token_list') :
          i < j => token_list'[i].num < token_list'[j].num
    <3>1. \A i, j \in 1..Len(token_list') : i < j => i + 1 < j + 1
      OBVIOUS
    <3> QED
      BY <2>1, <2>2, <3>1 DEF ListFromFile
  <2>4. \A k \in 1..Len(token_list') : \E i \in 1..Len(file) : token_list'[k] = file[i]
    BY <2>1, <2>2 DEF ListFromFile
  <2> QED
    BY <2>3, <2>4 DEF ListFromFile
<1>12. ErasedLabelsKnown'
  <2>1. ASSUME NEW i \in LabelLines, Erased(i)'
        PROVE  Erased(i)
    <3>1. file[i].op = "LABEL"
      BY DEF LabelLines
    <3>2. token_list[1] # file[i]
      BY <1>1, <1>2, <1>6, <3>1 DEF Tokens
    <3>3. \A k \in 2..Len(token_list) : token_list[k] # file[i]
      <4>1. ASSUME NEW k \in 2..Len(token_list)
            PROVE  token_list[k] # file[i]
        <5>1. k - 1 \in 1..Len(token_list') /\ token_list'[k - 1] = token_list[k]
          BY <1>0, <1>3 DEF TypeOK
        <5> QED
          BY <2>1, <5>1 DEF Erased
      <4> QED
        BY <4>1
    <3> QED
      BY <1>0, <3>2, <3>3 DEF Erased, TypeOK
  <2>2. \A i \in LabelLines : ~Erased(i)
    BY <1>9 DEF IInv, ErasedLabelsKnown
  <2> QED
    BY <1>5, <2>1, <2>2 DEF ErasedLabelsKnown
<1>13. FirstPass'
  <2>1. RestIsUnread'
    <3>1. RestIsUnread
      BY <1>2, <1>7 DEF FirstPass
    <3>2. ASSUME NEW k \in 1..Len(token_list')
          PROVE  token_list'[k] = file[k + Len(file) - Len(token_list')]
      <4>1. k + 1 \in 1..Len(token_list) /\ token_list'[k] = token_list[k + 1]
        BY <1>0, <1>3 DEF TypeOK
      <4>2. token_list[k + 1] = file[(k + 1) + Len(file) - Len(token_list)]
        BY <1>2, <3>1, <4>1 DEF RestIsUnread
      <4> QED
        BY <1>0, <1>2, <1>3, <4>1, <4>2 DEF TypeOK
    <3>3. Len(token_list') <= Len(file)
      BY <1>0, <1>2, <1>3, <3>1 DEF RestIsUnread, TypeOK
    <3>4. linenum' + 1 = 1 /\ file' = file
      BY <1>2
    <3> QED
      BY <3>2, <3>3, <3>4 DEF RestIsUnread
  <2>2. CodeKept'
    <3>1. \A i \in CodeLines : i <= n => FALSE
      <4>1. ASSUME NEW i \in CodeLines, i <= n PROVE FALSE
        <5>1. \A j \in 1..i : file[j].op = "VAR"
          BY <1>1, <1>6, <1>8, <4>1 DEF CodeLines
        <5> QED
          BY <5>1 DEF CodeLines, Declarations
      <4> QED
        BY <4>1
    <3> QED
      BY <1>2, <1>4, <1>5, <3>1 DEF CodeKept
  <2>3. \A i \in 1..n : file[i].op = "VAR"
    BY <1>1, <1>6, <1>8
  <2>4. \A i \in 1..n : i \notin FaultyDeclarations
    <3>1. \A i \in 1..Walked : i \notin FaultyDeclarations
      BY <1>2, <1>7 DEF FirstPass
    <3>2. n \notin LabelLines
      BY <1>6 DEF LabelLines
    <3>3. \A j \in 1..Walked : file[j].args[1] \in var_list
      <4>1. \A j \in 1..Walked : j \in Declarations
        BY <1>1, <1>8 DEF Declarations
      <4> QED
        BY <1>2, <1>7, <4>1 DEF FirstPass, NamesRead
    <3>4. \A j \in 1..n-1 : file[j].args[1] # x
      BY <1>1, <3>3 DEF checkVariable
    <3>5. n \notin FaultyDeclarations
      BY <1>1, <1>6, <3>2, <3>4 DEF FaultyDeclarations
    <3> QED
      BY <1>1, <3>1, <3>5
  <2>5. NamesRead'
    <3>1. {j \in Declarations : j <= n} = {j \in Declarations : j <= Walked} \cup {n}
      BY <1>1 DEF Declarations
    <3>2. {j \in LabelLines : j <= n} = {}
      BY <1>1, <2>3 DEF LabelLines
    <3>3. var_list' = {file[i].args[1] : i \in {j \in Declarations : j <= n}}
      BY <1>2, <1>6, <1>7, <3>1 DEF FirstPass, NamesRead, addVariable
    <3> QED
      BY <1>4, <1>5, <1>9, <3>2, <3>3 DEF NamesRead
  <2>6. v_state' /\ ins_list' = <<>>
    BY <1>2, <1>7 DEF FirstPass
  <2> QED
    BY <1>4, <1>5, <2>1, <2>2, <2>3, <2>4, <2>5, <2>6 DEF FirstPass
<1> QED
  BY <1>0, <1>2, <1>10, <1>11, <1>12, <1>13 DEF IInv, SecondPass, VerdictIsRight

LEMMA VariableStep ==
  ASSUME IInv, Variable
  PROVE  IInv'
<1>1. Walking("first") /\ v_state /\ Tokens.op = "VAR" /\ UNCHANGED <<file, v_state, ins_list>>
  BY DEF Variable
<1>2. CASE Tokens.decl = "good" /\ ~checkVariable(Tokens.args[1])
  <2>1. /\ addVariable(Tokens.args[1]) /\ token_list' = Tail(token_list)
        /\ UNCHANGED <<at, linenum, label_list, error>>
    BY <1>2 DEF Variable
  <2> QED
    BY <1>1, <1>2, <2>1, GoodVariable
<1>3. CASE Tokens.decl # "good" \/ checkVariable(Tokens.args[1])
  <2>1. PICK how \in {"error", "died"} : Stop(how)
    BY <1>3 DEF Variable
  <2>2. Walked + 1 \in FaultyDeclarations
    <3>1. Walked + 1 \in Declarations /\ Tokens = file[Walked + 1]
      BY <1>1, Unread
    <3>2. CASE Tokens.decl # "good"
      BY <3>1, <3>2 DEF FaultyDeclarations
    <3>3. CASE Tokens.decl = "good" /\ checkVariable(Tokens.args[1])
      <4>1. PICK j \in Declarations : j <= Walked /\ file[j].args[1] = Tokens.args[1]
        BY <1>1, <3>3 DEF IInv, FirstPass, NamesRead, Walking, checkVariable
      <4>2. j \in 1..(Walked + 1) - 1
        BY <1>1, <4>1, Unread DEF Declarations
      <4>3. j \notin FaultyDeclarations
        BY <1>1, <4>1, <4>2, Unread DEF IInv, FirstPass, Walking
      <4>4. file[j].decl = "good"
        BY <4>3 DEF FaultyDeclarations
      <4> QED
        BY <3>1, <4>1, <4>2, <4>4 DEF FaultyDeclarations
    <3> QED
      BY <1>3, <3>2, <3>3
  <2>3. v_state' \in BOOLEAN
    BY <1>1 DEF IInv, TypeOK
  <2> QED
    BY <1>1, <2>1, <2>2, <2>3, FirstFault
<1> QED
  BY <1>2, <1>3

(* A good label is erased where it stands.                                 *)
LEMMA GoodLabel ==
  ASSUME IInv, Walking("first"), Tokens.op = "LABEL", v_state' = FALSE,
         Len(Tokens.args) = 1, ~checkLabel(Tokens.args[1]),
         addLabel(Tokens.args[1], LabelValue), token_list' = WithoutLine,
         UNCHANGED <<file, at, linenum, var_list, ins_list, error>>
  PROVE  IInv'
<1> DEFINE n == Walked + 1
           x == Tokens.args[1]
<1>0. /\ TypeOK /\ file \in Files /\ FirstPass /\ ListFromFile /\ ErasedLabelsKnown
      /\ at = "first" /\ RestIsUnread /\ CodeKept /\ NamesRead /\ ins_list = <<>>
      /\ \A i \in 1..Walked : i \notin FaultyDeclarations
  BY DEF IInv, FirstPass, Walking
<1>1. /\ Walked \in Nat /\ linenum <= Walked /\ n \in 1..Len(file)
      /\ linenum + 1 \in 1..Len(token_list)
      /\ Tokens = file[n] /\ Tokens \in Line /\ n \in LabelLines /\ n \notin Declarations
  BY Unread
<1>2. linenum \in Nat /\ Len(file) \in Nat /\ Len(token_list) \in Nat
  BY <1>0 DEF TypeOK
<1>inside. linenum + 1 <= Len(token_list)
  BY <1>1
<1>3. /\ token_list' \in Seq(Line) /\ Len(token_list') = Len(token_list) - 1
      /\ \A k \in 1..Len(token_list)-1 :
           token_list'[k] = IF k < linenum + 1 THEN token_list[k] ELSE token_list[k + 1]
  BY <1>0, <1>1, RemoveAtProperties DEF TypeOK, WithoutLine
<1>4. /\ \A k \in 1..linenum : k \in 1..Len(token_list') /\ token_list'[k] = token_list[k]
      /\ \A k \in linenum+1..Len(token_list') :
           k + 1 \in linenum+2..Len(token_list) /\ token_list'[k] = token_list[k + 1]
      /\ linenum <= Len(token_list')
  BY <1>1, <1>2, <1>3
<1> DEFINE Was(k) == IF k <= linenum THEN k ELSE k + 1
<1>was. ASSUME NEW k \in 1..Len(token_list')
        PROVE  /\ k \in Int /\ Was(k) \in 1..Len(token_list)
               /\ token_list'[k] = token_list[Was(k)]
               /\ (k <= linenum) => Was(k) = k
               /\ ~(k <= linenum) => Was(k) = k + 1 /\ Was(k) \in linenum+2..Len(token_list)
  BY <1>1, <1>2, <1>3
<1> HIDE DEF Was
<1>5. Walked' = n
  BY <1>2, <1>3 DEF Walked
<1>6. UNCHANGED <<Declarations, LabelLines, CodeLines, FaultyDeclarations>>
  BY FileKept
<1>7. /\ x \in Token /\ file[n].args[1] = x /\ Len(file[n].args) = 1
      /\ file[n].op = "LABEL" /\ x \notin DOMAIN label_list
  <2>1. Tokens.args \in Seq(Token)
    BY <1>1 DEF Line
  <2> QED
    BY <1>1, <2>1 DEF checkLabel
<1>8. /\ DOMAIN label_list' = DOMAIN label_list \cup {x}
      /\ \A t \in DOMAIN label_list : label_list'[t] = label_list[t]
      /\ label_list'[x] = linenum - 1
  BY <1>7 DEF addLabel, LabelValue
<1>9. \A t \in DOMAIN label_list : label_list[t] \in -1..linenum-1
  BY <1>0, <1>2 DEF TypeOK, NamesRead
<1>10. TypeOK'
  <2>1. \A t \in DOMAIN label_list' : label_list'[t] \in -1..linenum-1
    BY <1>2, <1>8, <1>9
  <2>2. \A t \in DOMAIN label_list' : label_list'[t] \in -1..Len(token_list')-1
    BY <1>2, <1>3, <1>4, <2>1
  <2>3. DOMAIN label_list' \subseteq Token
    BY <1>0, <1>7, <1>8 DEF TypeOK
  <2>4. linenum' \in 0..Len(token_list')
    BY <1>2, <1>3, <1>4
  <2>5. v_state' \in BOOLEAN /\ (v_state => linenum = 0)'
    OBVIOUS
  <2> QED
    BY <1>0, <1>3, <2>2, <2>3, <2>4, <2>5 DEF TypeOK
<1>11. ListFromFile'
  <2>1. \A k \in 1..Len(token_list') : \E i \in 1..Len(token_list) : token_list'[k] = token_list[i]
    BY <1>was
  <2>2. \A i, j \in 1..Len(token_list') :
          i < j => token_list'[i].num < token_list'[j].num
    <3>1. \A i, j \in 1..Len(token_list) : i < j => token_list[i].num < token_list[j].num
      BY <1>0 DEF ListFromFile
    <3>2. ASSUME NEW i \in 1..Len(token_list'), NEW j \in 1..Len(token_list'), i < j
          PROVE  token_list'[i].num < token_list'[j].num
      <4>1. /\ i \in Int /\ ((i <= linenum) => Was(i) = i) /\ (~(i <= linenum) => Was(i) = i + 1)
            /\ Was(i) \in 1..Len(token_list) /\ token_list'[i] = token_list[Was(i)]
        BY <1>was
      <4>2. /\ j \in Int /\ ((j <= linenum) => Was(j) = j) /\ (~(j <= linenum) => Was(j) = j + 1)
            /\ Was(j) \in 1..Len(token_list) /\ token_list'[j] = token_list[Was(j)]
        BY <1>was
      <4>3. Was(i) < Was(j)
        BY <1>2, <3>2, <4>1, <4>2
      <4> QED
        BY <3>1, <4>1, <4>2, <4>3
    <3> QED
      BY <3>2
  <2> QED
    BY <1>0, <2>1, <2>2 DEF ListFromFile
<1>12. ErasedLabelsKnown'
  <2>1. \A i, j \in 1..Len(token_list) : i < j => token_list[i].num < token_list[j].num
    BY <1>0 DEF ListFromFile
  <2>2. \A k \in 1..Len(token_list) : token_list[k].num \in Nat
    <3>1. \A k \in 1..Len(token_list) : token_list[k] \in Line
      BY <1>0 DEF TypeOK
    <3> QED
      BY <3>1 DEF Line
  <2> DEFINE Cut(i, position) ==
        \A k \in 1..Len(token_list') : token_list'[k].num < file[i].num <=> k <= position + 1
  <2>3. Cut(n, linenum - 1)
    <3>1. file[n] = token_list[linenum + 1]
      BY <1>1 DEF Tokens
    <3>2. \A k \in 1..linenum : token_list[k].num < file[n].num
      BY <1>1, <1>2, <2>1, <3>1
    <3>3. \A k \in linenum+2..Len(token_list) : file[n].num < token_list[k].num
      BY <1>1, <1>2, <2>1, <3>1
    <3>4. \A k \in linenum+2..Len(token_list) : ~(token_list[k].num < file[n].num)
      BY <1>1, <1>2, <2>2, <3>1, <3>3
    <3>5. ASSUME NEW k \in 1..Len(token_list')
          PROVE  token_list'[k].num < file[n].num <=> k <= linenum
      <4>1. CASE k <= linenum
        BY <1>2, <1>4, <3>2, <4>1
      <4>2. CASE ~(k <= linenum)
        BY <1>was, <3>4, <4>2
      <4> QED
        BY <4>1, <4>2
    <3> QED
      <4>1. \A k \in Int : k <= linenum <=> k <= (linenum - 1) + 1
        BY <1>2
      <4>2. ASSUME NEW k \in 1..Len(token_list')
            PROVE  token_list'[k].num < file[n].num <=> k <= (linenum - 1) + 1
        BY <1>was, <3>5, <4>1
      <4> QED
        BY <4>2
  <2>4. ASSUME NEW i \in LabelLines, Erased(i)', i # n
        PROVE  /\ Len(file[i].args) = 1
               /\ file[i].args[1] \in DOMAIN label_list
               /\ Cut(i, label_list[file[i].args[1]])
    <3>1. Erased(i)
      <4>1. token_list[linenum + 1] # file[i]
        BY <1>0, <1>1, <2>4, FileFacts DEF Tokens, LabelLines
      <4>2. \A k \in 1..linenum : token_list[k] # file[i]
        BY <1>4, <2>4 DEF Erased
      <4>3. ASSUME NEW k \in linenum+2..Len(token_list)
            PROVE  token_list[k] # file[i]
        <5>1. k - 1 \in linenum+1..Len(token_list') /\ (k - 1) + 1 = k
          BY <1>2, <1>3
        <5>2. token_list'[k - 1] = token_list[k] /\ k - 1 \in 1..Len(token_list')
          BY <1>2, <1>4, <5>1
        <5> QED
          BY <2>4, <5>2 DEF Erased
      <4> QED
        BY <1>2, <4>1, <4>2, <4>3 DEF Erased
    <3>2. /\ Len(file[i].args) = 1
          /\ file[i].args[1] \in DOMAIN label_list
          /\ CutAt(i, label_list[file[i].args[1]])
      BY <1>0, <3>1 DEF ErasedLabelsKnown
    <3> DEFINE p == label_list[file[i].args[1]]
    <3>3. p \in -1..linenum-1
      BY <1>9, <3>2
    <3> HIDE DEF p
    <3>all. \A k \in 1..Len(token_list) : token_list[k].num < file[i].num <=> k <= p + 1
      BY <3>2 DEF CutAt, p
    <3>4. ASSUME NEW k \in 1..linenum
          PROVE  token_list[k].num < file[i].num <=> k <= p + 1
      <4>1. k \in 1..Len(token_list)
        BY <1>2, <1>inside
      <4> QED
        BY <3>all, <4>1
    <3>5. ASSUME NEW k \in linenum+2..Len(token_list)
          PROVE  ~(token_list[k].num < file[i].num)
      <4>1. k \in 1..Len(token_list) /\ ~(k <= p + 1)
        BY <1>2, <3>3
      <4> QED
        BY <3>all, <4>1
    <3>6. ASSUME NEW k \in 1..Len(token_list')
          PROVE  token_list'[k].num < file[i].num <=> k <= p + 1
      <4>1. CASE k <= linenum
        BY <1>2, <1>4, <3>4, <4>1
      <4>2. CASE ~(k <= linenum)
        BY <1>2, <1>was, <3>3, <3>5, <4>2
      <4> QED
        BY <4>1, <4>2
    <3> QED
      <4>1. Cut(i, p)
        BY <3>6
      <4> QED
        BY <3>2, <4>1 DEF p
  <2>5. ASSUME NEW i \in LabelLines, Erased(i)'
        PROVE  /\ Len(file[i].args) = 1
               /\ file[i].args[1] \in DOMAIN label_list'
               /\ Cut(i, label_list'[file[i].args[1]])
    <3>1. CASE i = n
      BY <1>7, <1>8, <2>3, <3>1
    <3>2. CASE i # n
      <4> HIDE DEF Cut
      <4>1. /\ Len(file[i].args) = 1 /\ file[i].args[1] \in DOMAIN label_list
            /\ Cut(i, label_list[file[i].args[1]])
        BY <2>4, <2>5, <3>2
      <4> QED
        BY <1>8, <4>1
    <3> QED
      BY <3>1, <3>2
  <2> QED
    BY <1>6, <2>5 DEF ErasedLabelsKnown, CutAt
<1>13. FirstPass'
  <2>1. RestIsUnread'
    <3>1. ASSUME NEW k \in linenum+1..Len(token_list')
          PROVE  token_list'[k] = file[k + Len(file) - Len(token_list')]
      <4>1. k + 1 \in linenum+1..Len(token_list) /\ token_list'[k] = token_list[k + 1]
        BY <1>2, <1>4
      <4>2. token_list[k + 1] = file[(k + 1) + Len(file) - Len(token_list)]
        BY <1>0, <4>1 DEF RestIsUnread
      <4>3. (k + 1) + Len(file) - Len(token_list) = k + Len(file) - Len(token_list')
        BY <1>2, <1>3
      <4> QED
        BY <4>1, <4>2, <4>3
    <3>2. Len(token_list') <= Len(file)
      BY <1>0, <1>2, <1>3 DEF RestIsUnread
    <3> QED
      BY <3>1, <3>2 DEF RestIsUnread
  <2>2. CodeKept'
    <3>1. \A i \in CodeLines : i <= n => i <= Walked
      BY <1>1 DEF CodeLines
    <3>2. \A i \in CodeLines : i <= Walked => i <= n
      BY <1>1 DEF CodeLines
    <3> QED
      BY <1>0, <1>4, <1>5, <1>6, <3>1, <3>2 DEF CodeKept
  <2>3. ~ \A i \in 1..n : file[i].op = "VAR"
    BY <1>1, <1>7
  <2>4. \A i \in 1..n : i \notin FaultyDeclarations
    <3>1. \A j \in LabelLines : j < n => file[j].args # file[n].args
      <4>1. \A j \in LabelLines : j < n => j <= Walked
        BY <1>1 DEF LabelLines
      <4> QED
        BY <1>0, <1>7, <4>1 DEF NamesRead
    <3>2. n \notin FaultyDeclarations
      BY <1>1, <1>7, <3>1 DEF FaultyDeclarations
    <3> QED
      BY <1>0, <1>1, <3>2
  <2>5. NamesRead'
    <3>1. {j \in Declarations : j <= n} = {j \in Declarations : j <= Walked}
      BY <1>1 DEF Declarations
    <3>2. {j \in LabelLines : j <= n} = {j \in LabelLines : j <= Walked} \cup {n}
      BY <1>1 DEF LabelLines
    <3>3. DOMAIN label_list' = {file[i].args[1] : i \in {j \in LabelLines : j <= n}}
      BY <1>0, <1>7, <1>8, <3>2 DEF NamesRead
    <3>4. \A t \in DOMAIN label_list' : label_list'[t] < linenum
      BY <1>2, <1>8, <1>9
    <3> QED
      BY <1>0, <1>5, <1>6, <3>1, <3>3, <3>4 DEF NamesRead
  <2> QED
    BY <1>0, <1>5, <1>6, <2>1, <2>2, <2>3, <2>4, <2>5 DEF FirstPass
<1> QED
  BY <1>0, <1>10, <1>11, <1>12, <1>13 DEF IInv, SecondPass, VerdictIsRight

LEMMA LabelStep ==
  ASSUME IInv, Label
  PROVE  IInv'
<1>1. Walking("first") /\ Tokens.op = "LABEL" /\ v_state' = FALSE /\ UNCHANGED <<file, ins_list>>
  BY DEF Label
<1>2. CASE Len(Tokens.args) = 1 /\ ~checkLabel(Tokens.args[1])
  <2>1. Tokens.args # <<>>
    BY <1>2
  <2>2. /\ addLabel(Tokens.args[1], LabelValue) /\ token_list' = WithoutLine
        /\ UNCHANGED <<at, linenum, var_list, error>>
    BY <1>2, <2>1 DEF Label
  <2> QED
    BY <1>1, <1>2, <2>2, GoodLabel
<1>3. CASE Len(Tokens.args) # 1 \/ checkLabel(Tokens.args[1])
  <2>1. PICK how \in {"error", "died"} : Stop(how)
    BY <1>3 DEF Label
  <2>2. Walked + 1 \in FaultyDeclarations
    <3>1. /\ Walked \in Nat /\ Walked + 1 \in LabelLines /\ Tokens = file[Walked + 1]
          /\ Tokens \in Line
      BY <1>1, Unread
    <3>2. CASE Len(Tokens.args) # 1
      BY <3>1, <3>2 DEF FaultyDeclarations
    <3>3. CASE Len(Tokens.args) = 1 /\ checkLabel(Tokens.args[1])
      <4>1. PICK j \in LabelLines : j <= Walked /\ file[j].args[1] = Tokens.args[1]
        BY <1>1, <3>3 DEF IInv, FirstPass, NamesRead, Walking, checkLabel
      <4>2. j \in 1..Walked /\ j < Walked + 1
        BY <3>1, <4>1 DEF LabelLines
      <4>3. Len(file[j].args) = 1
        BY <1>1, <4>2 DEF IInv, FirstPass, Walking, FaultyDeclarations
      <4>4. file[j].args = Tokens.args
        <5>1. file[j] \in Line
          BY FileFacts DEF IInv, LabelLines
        <5>2. file[j].args \in Seq(Token) /\ Tokens.args \in Seq(Token)
          BY <3>1, <5>1 DEF Line
        <5> QED
          BY <3>3, <4>1, <4>3, <5>2, SeqEqual
      <4> QED
        BY <3>1, <4>2, <4>4 DEF FaultyDeclarations
    <3> QED
      BY <1>3, <3>2, <3>3
  <2> QED
    BY <1>1, <2>1, <2>2, FirstFault
<1> QED
  BY <1>2, <1>3

(* What does not change while the list stays as it is.                     *)
LEMMA ListKept ==
  ASSUME IInv, UNCHANGED <<file, token_list, label_list>>
  PROVE  (file \in Files)' /\ ListFromFile' /\ ErasedLabelsKnown'
<1>1. (file \in Files)' /\ ListFromFile'
  BY DEF IInv, ListFromFile
<1>2. LabelLines' = LabelLines
  BY FileKept
<1>3. \A i : Erased(i)' <=> Erased(i)
  BY DEF Erased
<1> QED
  BY <1>1, <1>2, <1>3 DEF IInv, ErasedLabelsKnown, CutAt

(* A line of code is stepped over.                                         *)
LEMMA SkipStep ==
  ASSUME IInv, Skip
  PROVE  IInv'
<1> DEFINE n == Walked + 1
<1>0. /\ TypeOK /\ FirstPass /\ at = "first" /\ RestIsUnread /\ CodeKept /\ NamesRead
      /\ ins_list = <<>>
      /\ \A i \in 1..Walked : i \notin FaultyDeclarations
  BY DEF IInv, FirstPass, Skip, Walking
<1>1. /\ Walked \in Nat /\ linenum <= Walked /\ n \in 1..Len(file)
      /\ linenum + 1 \in 1..Len(token_list)
      /\ Tokens = file[n] /\ n \in CodeLines
  BY Unread DEF Skip, CodeLines
<1>2. linenum \in Nat /\ Len(file) \in Nat /\ Len(token_list) \in Nat
  BY <1>0 DEF TypeOK
<1>3. /\ v_state' = FALSE /\ linenum' = linenum + 1
      /\ UNCHANGED <<file, at, token_list, var_list, label_list, ins_list, error>>
  BY DEF Skip
<1>4. Walked' = n
  BY <1>2, <1>3 DEF Walked
<1>5. UNCHANGED <<Declarations, LabelLines, CodeLines, FaultyDeclarations>>
  BY <1>3, FileKept
<1>6. TypeOK'
  <2>1. linenum' \in 0..Len(token_list')
    BY <1>1, <1>2, <1>3
  <2>2. v_state' \in BOOLEAN /\ (v_state => linenum = 0)'
    BY <1>3
  <2> QED
    BY <1>0, <1>3, <2>1, <2>2 DEF TypeOK
<1>7. RestIsUnread'
  <2>1. \A k \in (linenum + 1)+1..Len(token_list) : k \in linenum+1..Len(token_list)
    BY <1>2
  <2> QED
    BY <1>0, <1>3, <2>1 DEF RestIsUnread
<1>8. CodeKept'
  <2>1. \A k \in 1..linenum : \E i \in CodeLines : i <= n /\ token_list[k] = file[i]
    <3>1. \A i \in CodeLines : i <= Walked => i <= n
      BY <1>1 DEF CodeLines
    <3> QED
      BY <1>0, <3>1 DEF CodeKept
  <2>2. token_list[linenum + 1] = file[n]
    BY <1>1 DEF Tokens
  <2>3. \A k \in 1..linenum+1 : k \in 1..linenum \/ k = linenum + 1
    BY <1>2
  <2>4. \A k \in 1..linenum+1 : \E i \in CodeLines : i <= n /\ token_list[k] = file[i]
    BY <1>1, <2>1, <2>2, <2>3
  <2>5. ASSUME NEW i \in CodeLines, i <= n
        PROVE  \E k \in 1..linenum+1 : token_list[k] = file[i]
    <3>1. CASE i <= Walked
      <4>1. PICK k \in 1..linenum : token_list[k] = file[i]
        BY <1>0, <3>1 DEF CodeKept
      <4> QED
        BY <1>2, <4>1
    <3>2. CASE i = n
      BY <1>2, <2>2, <3>2
    <3> QED
      BY <1>1, <2>5, <3>1, <3>2 DEF CodeLines
  <2> QED
    BY <1>3, <1>4, <1>5, <2>4, <2>5 DEF CodeKept
<1>9. NamesRead'
  <2>1. /\ {j \in Declarations : j <= n} = {j \in Declarations : j <= Walked}
        /\ {j \in LabelLines : j <= n} = {j \in LabelLines : j <= Walked}
    BY <1>1 DEF Declarations, LabelLines, CodeLines
  <2>2. \A t \in DOMAIN label_list : label_list[t] < linenum + 1
    BY <1>0, <1>2 DEF NamesRead, TypeOK
  <2> QED
    BY <1>0, <1>3, <1>4, <1>5, <2>1, <2>2 DEF NamesRead
<1>10. FirstPass'
  <2>1. ~ \A i \in 1..n : file[i].op = "VAR"
    BY <1>1 DEF CodeLines, Declarations
  <2>2. n \notin FaultyDeclarations
    BY <1>1 DEF CodeLines, FaultyDeclarations
  <2>3. \A i \in 1..n : i \notin FaultyDeclarations
    BY <1>0, <1>1, <2>2
  <2> QED
    BY <1>0, <1>3, <1>4, <1>5, <1>7, <1>8, <1>9, <2>1, <2>3 DEF FirstPass
<1> QED
  BY <1>0, <1>3, <1>6, <1>10, ListKept DEF IInv, SecondPass, VerdictIsRight

(* At the end of the list nothing of the file is unread.                   *)
LEMMA EndFirstPassStep ==
  ASSUME IInv, EndFirstPass
  PROVE  IInv'
<1>0. /\ TypeOK /\ FirstPass /\ RestIsUnread /\ CodeKept /\ NamesRead /\ ins_list = <<>>
      /\ \A i \in 1..Walked : i \notin FaultyDeclarations
  BY DEF IInv, FirstPass, EndFirstPass
<1>1. /\ linenum = Len(token_list) /\ Len(token_list) \in Nat /\ Len(file) \in Nat
  BY <1>0 DEF TypeOK, EndFirstPass
<1>2. Walked = Len(file)
  BY <1>1 DEF Walked
<1>3. /\ at' = "second" /\ linenum' = 0
      /\ UNCHANGED <<file, token_list, v_state, var_list, label_list, ins_list, error>>
  BY DEF EndFirstPass
<1>4. FaultyDeclarations = {}
  <2>1. FaultyDeclarations \subseteq 1..Len(file)
    BY DEF FaultyDeclarations, Declarations, LabelLines
  <2> QED
    BY <1>0, <1>2, <2>1
<1>5. var_list = Declared /\ DOMAIN label_list = Labels
  <2>1. /\ {j \in Declarations : j <= Walked} = Declarations
        /\ {j \in LabelLines : j <= Walked} = LabelLines
    BY <1>1, <1>2 DEF Declarations, LabelLines
  <2>2. {j \in Declarations : file[j].decl = "good"} = Declarations
    BY <1>4 DEF FaultyDeclarations
  <2>3. {j \in LabelLines : Len(file[j].args) = 1} = LabelLines
    BY <1>4 DEF FaultyDeclarations
  <2> QED
    BY <1>0, <2>1, <2>2, <2>3 DEF NamesRead, Declared, Labels
<1>6. AllRead
  <2>1. \A i \in CodeLines : i <= Walked
    BY <1>1, <1>2 DEF CodeLines
  <2> QED
    BY <1>0, <1>1, <1>4, <1>5, <2>1 DEF AllRead, CodeKept, TypeOK
<1>7. AllRead'
  BY <1>3, <1>6, FileKept DEF AllRead
<1>8. CodeAccepted'
  BY <1>0, <1>3 DEF CodeAccepted
<1>9. TypeOK'
  BY <1>0, <1>1, <1>3 DEF TypeOK
<1> QED
  BY <1>3, <1>7, <1>8, <1>9, ListKept DEF IInv, FirstPass, SecondPass, VerdictIsRight

-----------------------------------------------------------------------------
(* The second pass.                                                        *)

LEMMA AtCode ==
  ASSUME IInv, Walking("second")
  PROVE  /\ AllRead /\ CodeAccepted /\ at = "second"
         /\ linenum \in Nat /\ Len(token_list) \in Nat /\ Len(file) \in Nat
         /\ linenum + 1 \in 1..Len(token_list)
         /\ Tokens \in Line
         /\ \E i \in CodeLines : Tokens = file[i]
<1>1. /\ AllRead /\ CodeAccepted /\ at = "second"
      /\ linenum \in Nat /\ Len(token_list) \in Nat /\ Len(file) \in Nat
      /\ linenum + 1 \in 1..Len(token_list) /\ token_list \in Seq(Line)
  BY DEF IInv, TypeOK, SecondPass, Walking
<1> QED
  BY <1>1 DEF AllRead, Tokens

(* An instruction that the parser finds valid is not faulty, and conversely.*)
LEMMA ValidIsNotFaulty ==
  ASSUME IInv, Walking("second"), NEW i \in CodeLines, Tokens = file[i]
  PROVE  ValidInstruction <=> i \notin FaultyInstructions
<1>1. var_list = Declared /\ DOMAIN label_list = Labels
  BY AtCode DEF AllRead
<1>2. Tokens.args \in Seq(Token) /\ \A k \in 1..Len(Tokens.args) : Tokens.args[k] \in Token
  BY AtCode DEF Line
<1>3. ASSUME NEW k \in 1..Len(Tokens.args)
      PROVE  Accepted(Tokens.op, k, Tokens.args[k]) <=>
               ~ LET t == Tokens.args[k] IN
                 \/ t.kind = "junk"
                 \/ t.kind = "var" /\ t \notin Declared
                 \/ t.kind = "label" /\ (Tokens.op # "JMP" \/ t \notin Labels)
                 \/ t.kind = "const" /\ Tokens.op = "JMP" /\ k = 1
  <2>1. Tokens.args[k].kind \in {"var", "label", "const", "junk"}
    BY <1>2 DEF Token
  <2> QED
    BY <1>1, <2>1 DEF Accepted, checkVariable, checkLabel
<1> QED
  BY <1>3 DEF ValidInstruction, FaultyInstructions, CodeLines

LEMMA AddInstructionStep ==
  ASSUME IInv, AddInstruction
  PROVE  IInv'
<1>0. TypeOK /\ Walking("second") /\ ValidInstruction
  BY DEF IInv, AddInstruction
<1>1. /\ AllRead /\ CodeAccepted /\ at = "second"
      /\ linenum \in Nat /\ Len(token_list) \in Nat
      /\ linenum + 1 \in 1..Len(token_list) /\ Tokens \in Line
  BY <1>0, AtCode
<1>2. /\ ins_list' = Append(ins_list, NewInstruction) /\ linenum' = linenum + 1
      /\ UNCHANGED <<file, at, token_list, v_state, var_list, label_list, error>>
  BY DEF AddInstruction
<1>3. ~v_state
  BY <1>1 DEF AllRead
<1>4. PICK i \in CodeLines : Tokens = file[i]
  BY <1>0, AtCode
<1>5. AllRead' /\ UNCHANGED <<CodeLines, FaultyInstructions>>
  BY <1>1, <1>2, FileKept DEF AllRead
<1>6. /\ ins_list' \in Seq(ToSet(ins_list) \cup {NewInstruction})
      /\ Len(ins_list') = linenum + 1
      /\ \A n \in 1..linenum : ins_list'[n] = ins_list[n]
      /\ ins_list'[linenum + 1] = NewInstruction
  <2>1. ins_list \in Seq(ToSet(ins_list) \cup {NewInstruction}) /\ Len(ins_list) = linenum
    BY <1>1 DEF CodeAccepted
  <2> QED
    BY <1>2, <2>1, AppendProperties
<1>7. \A n \in 1..linenum+1 : n \in 1..linenum \/ n = linenum + 1
  BY <1>1
<1>8. /\ NewInstruction.num = Tokens.num
      /\ \A a \in DOMAIN NewInstruction.jumps :
           NewInstruction.jumps[a] \in -1..Len(token_list)-1
  <2>1. \A a \in 1..Len(Tokens.args) :
          Tokens.args[a].kind = "label" => Tokens.args[a] \in DOMAIN label_list
    BY <1>0 DEF ValidInstruction, Accepted, checkLabel
  <2> QED
    BY <1>0, <2>1 DEF NewInstruction, getLabel, TypeOK
<1>9. TypeOK'
  <2>1. linenum' \in 0..Len(token_list') /\ (v_state => linenum = 0)'
    BY <1>1, <1>2, <1>3
  <2>2. ASSUME NEW n \in 1..linenum+1
        PROVE  /\ ins_list'[n].num \in Nat
               /\ \A a \in DOMAIN ins_list'[n].jumps :
                    ins_list'[n].jumps[a] \in -1..Len(token_list)-1
    <3>1. CASE n = linenum + 1
      BY <1>1, <1>6, <1>8, <3>1 DEF Line
    <3>2. CASE n \in 1..linenum
      BY <1>0, <1>1, <1>6, <3>2 DEF TypeOK, CodeAccepted
    <3> QED
      BY <1>7, <3>1, <3>2
  <2> QED
    BY <1>0, <1>2, <1>6, <2>1, <2>2 DEF TypeOK
<1>10. CodeAccepted'
  <2>1. token_list[linenum + 1] = Tokens
    BY DEF Tokens
  <2>2. i \notin FaultyInstructions
    BY <1>0, <1>4, ValidIsNotFaulty
  <2>3. \A k \in 1..linenum+1 : ins_list'[k].num = token_list[k].num
    BY <1>1, <1>6, <1>7, <1>8, <2>1 DEF CodeAccepted
  <2>4. \A m \in CodeLines : \A k \in 1..linenum+1 :
          token_list[k] = file[m] => m \notin FaultyInstructions
    BY <1>0, <1>1, <1>7, <2>1, ValidIsNotFaulty DEF CodeAccepted
  <2>5. ins_list' \in Seq(ToSet(ins_list'))
    BY <1>6 DEF ToSet
  <2> QED
    BY <1>2, <1>5, <1>6, <2>3, <2>4, <2>5 DEF CodeAccepted
<1> QED
  BY <1>1, <1>2, <1>5, <1>9, <1>10, ListKept DEF IInv, FirstPass, SecondPass, VerdictIsRight

(* The second pass gives up at the first faulty instruction.               *)
LEMMA BadInstructionStep ==
  ASSUME IInv, BadInstruction
  PROVE  IInv'
<1>0. TypeOK /\ ListFromFile /\ Walking("second") /\ ~ValidInstruction /\ file \in Files
  BY DEF IInv, BadInstruction
<1>1. /\ AllRead /\ CodeAccepted /\ at = "second"
      /\ linenum \in Nat /\ Len(token_list) \in Nat /\ Len(file) \in Nat
      /\ linenum + 1 \in 1..Len(token_list) /\ Tokens \in Line
  BY <1>0, AtCode
<1>2. /\ at' = "error" /\ error' = Tokens.num
      /\ UNCHANGED <<file, token_list, linenum, v_state, var_list, label_list, ins_list>>
  BY DEF BadInstruction, Stop
<1>3. PICK i \in CodeLines : Tokens = file[i]
  BY <1>0, AtCode
<1>4. i \in FaultyInstructions
  BY <1>0, <1>3, ValidIsNotFaulty
<1>5. FaultyInstructions \subseteq CodeLines /\ FaultyInstructions \subseteq 1..Len(file)
  BY DEF FaultyInstructions, CodeLines
<1>6. ASSUME NEW j \in FaultyInstructions PROVE i <= j
  <2>1. PICK k \in 1..Len(token_list) : token_list[k] = file[j]
    BY <1>1, <1>5 DEF AllRead
  <2>2. ~(k <= linenum)
    BY <1>1, <1>5, <2>1 DEF CodeAccepted
  <2>3. k = linenum + 1 \/ linenum + 1 < k
    BY <1>1, <2>2
  <2>4. file[i] = file[j] \/ file[i].num < file[j].num
    BY <1>0, <1>1, <1>3, <2>1, <2>3 DEF ListFromFile, Tokens
  <2>5. i \in 1..Len(file) /\ j \in 1..Len(file)
    BY <1>5, <1>4
  <2>6. ~(j < i)
    <3>1. file[i].num \in Nat /\ file[j].num \in Nat
      BY <1>0, <2>5, FileFacts DEF Line
    <3>2. j < i => file[j].num < file[i].num /\ file[i] # file[j]
      BY <1>0, <2>5, FileFacts
    <3> QED
      BY <2>4, <3>1, <3>2
  <2> QED
    BY <2>5, <2>6
<1>7. Min(FaultyInstructions) = i
  BY <1>1, <1>4, <1>5, <1>6, MinIsLeast
<1>8. VerdictIsRight'
  <2>1. FaultyDeclarations' = {} /\ FaultyInstructions' = FaultyInstructions
    BY <1>1, <1>2, FileKept DEF AllRead
  <2> QED
    BY <1>2, <1>3, <1>4, <1>7, <2>1 DEF VerdictIsRight
<1>9. TypeOK'
  BY <1>0, <1>1, <1>2 DEF TypeOK, Line
<1> QED
  BY <1>2, <1>8, <1>9, ListKept DEF IInv, FirstPass, SecondPass

(* At the end every line of code is an instruction.                        *)
LEMMA EndSecondPassStep ==
  ASSUME IInv, EndSecondPass
  PROVE  IInv'
<1>0. TypeOK /\ AllRead /\ CodeAccepted
  BY DEF IInv, EndSecondPass, SecondPass
<1>1. linenum = Len(token_list) /\ Len(token_list) \in Nat
  BY <1>0 DEF TypeOK, EndSecondPass
<1>2. /\ at' = "done"
      /\ UNCHANGED <<file, token_list, linenum, v_state, var_list, label_list, ins_list, error>>
  BY DEF EndSecondPass
<1>3. AllRead' /\ CodeAccepted'
  BY <1>0, <1>2, FileKept DEF AllRead, CodeAccepted
<1>4. FaultyInstructions = {}
  <2>1. FaultyInstructions \subseteq CodeLines
    BY DEF FaultyInstructions, CodeLines
  <2> QED
    BY <1>0, <1>1, <2>1 DEF AllRead, CodeAccepted
<1>5. VerdictIsRight'
  BY <1>0, <1>2, <1>4, FileKept DEF AllRead, VerdictIsRight
<1>6. TypeOK'
  BY <1>0, <1>2 DEF TypeOK
<1> QED
  BY <1>1, <1>2, <1>3, <1>5, <1>6, ListKept DEF IInv, FirstPass, SecondPass

-----------------------------------------------------------------------------
(* Every step keeps the invariant.                                         *)
LEMMA InductiveStep == IInv /\ [Next]_vars => IInv'
<1> SUFFICES ASSUME IInv, [Next]_vars PROVE IInv'
  OBVIOUS
<1>1. CASE Next
  BY <1>1, VariableStep, LabelStep, SkipStep, EndFirstPassStep, AddInstructionStep,
     BadInstructionStep, EndSecondPassStep DEF Next
<1>2. CASE UNCHANGED vars
  <2>1. /\ UNCHANGED <<file, at, token_list, linenum, v_state, var_list, label_list>>
        /\ UNCHANGED <<ins_list, error>>
    BY <1>2 DEF vars
  <2>2. TypeOK'
    BY <2>1 DEF IInv, TypeOK
  <2>3. UNCHANGED <<Walked, RestIsUnread, CodeKept, NamesRead>>
    BY <2>1, FileKept DEF Walked, RestIsUnread, CodeKept, NamesRead
  <2>4. FirstPass'
    BY <2>1, <2>3, FileKept DEF IInv, FirstPass
  <2>5. SecondPass'
    BY <2>1, FileKept DEF IInv, SecondPass, AllRead, CodeAccepted
  <2>6. VerdictIsRight'
    BY <2>1, FileKept DEF IInv, VerdictIsRight
  <2> QED
    BY <2>1, <2>2, <2>4, <2>5, <2>6, ListKept DEF IInv
<1> QED
  BY <1>1, <1>2

(* So it holds in every state the parser reaches, whatever the file.       *)
THEOREM Invariance == Spec => []IInv
<1> QED
  BY InitIInv, InductiveStep, PTL DEF Spec

(* The state has its type, and linenum stays within a list that shrinks.   *)
THEOREM TypeCorrect == Spec => []TypeOK
<1>1. IInv => TypeOK
  BY DEF IInv
<1> QED
  BY <1>1, Invariance, PTL

(* A label stays between what precedes and what follows it in the file     *)
(* (Parse.cpp:22-49).                                                      *)
THEOREM LabelsCut == Spec => []LabelsCutProgram
<1>1. ASSUME IInv, NEW l \in LabelsRead, NEW k \in 1..Len(token_list)
      PROVE  token_list[k].num < l.num <=> k <= label_list[l.args[1]] + 1
  <2>1. /\ l \in ToSet(file) /\ l.op = "LABEL" /\ l \notin ToSet(token_list)
        /\ file \in Seq(Line) /\ token_list \in Seq(Line)
    BY <1>1 DEF LabelsRead, IInv, TypeOK
  <2>2. PICK i \in 1..Len(file) : l = file[i]
    BY <2>1 DEF ToSet
  <2>3. i \in LabelLines /\ Erased(i)
    BY <2>1, <2>2 DEF LabelLines, Erased, ToSet
  <2> QED
    BY <1>1, <2>2, <2>3 DEF IInv, ErasedLabelsKnown, CutAt
<1>2. IInv => LabelsCutProgram
  BY <1>1 DEF LabelsCutProgram
<1> QED
  BY <1>2, Invariance, PTL

(* Every line of code becomes one instruction, in the order of the file    *)
(* (Parse.cpp:32, 42-43, 57-61).                                           *)
THEOREM InstructionsKept == Spec => []InstructionsInOrder
<1>1. ASSUME IInv, at = "done"
      PROVE  /\ \A m, n \in 1..Len(ins_list) : m < n => ins_list[m].num < ins_list[n].num
             /\ {ins_list[n].num : n \in 1..Len(ins_list)}
                  = {l.num : l \in {k \in ToSet(file) : IsInstruction(k)}}
  <2>1. /\ AllRead /\ CodeAccepted /\ linenum = Len(token_list) /\ file \in Seq(Line)
        /\ \A i, j \in 1..Len(token_list) : i < j => token_list[i].num < token_list[j].num
    BY <1>1 DEF IInv, SecondPass, TypeOK, ListFromFile
  <2>2. /\ Len(ins_list) = Len(token_list)
        /\ \A k \in 1..Len(ins_list) : ins_list[k].num = token_list[k].num
    BY <2>1 DEF CodeAccepted
  <2>3. \A m, n \in 1..Len(ins_list) : m < n => ins_list[m].num < ins_list[n].num
    BY <2>1, <2>2
  <2>4. ASSUME NEW n \in 1..Len(ins_list)
        PROVE  \E l \in ToSet(file) : IsInstruction(l) /\ ins_list[n].num = l.num
    <3>1. PICK i \in CodeLines : token_list[n] = file[i]
      BY <2>1, <2>2 DEF AllRead
    <3>2. i \notin FaultyInstructions
      BY <2>1, <2>2, <3>1 DEF CodeAccepted
    <3>3. file[i].op \in {"JMP", "INS"}
      BY <3>1, <3>2 DEF FaultyInstructions, CodeLines
    <3>4. file[i] \in ToSet(file)
      BY <2>1, <3>1 DEF CodeLines, ToSet
    <3> QED
      BY <2>2, <3>1, <3>3, <3>4 DEF IsInstruction
  <2>5. ASSUME NEW l \in ToSet(file), IsInstruction(l)
        PROVE  \E n \in 1..Len(ins_list) : ins_list[n].num = l.num
    <3>1. PICK i \in 1..Len(file) : l = file[i]
      BY <2>1 DEF ToSet
    <3>2. i \in CodeLines
      BY <2>5, <3>1, <2>1 DEF CodeLines, Declarations, LabelLines, IsInstruction
    <3>3. PICK k \in 1..Len(token_list) : token_list[k] = file[i]
      BY <2>1, <3>2 DEF AllRead
    <3> QED
      BY <2>2, <3>1, <3>3
  <2> QED
    BY <2>3, <2>4, <2>5
<1>2. IInv => InstructionsInOrder
  BY <1>1 DEF InstructionsInOrder
<1> QED
  BY <1>2, Invariance, PTL

(* A file is accepted only without faults, and the first fault is the one  *)
(* reported (Parse.cpp:45-48, 116, 138-141).                               *)
THEOREM VerdictRight == Spec => []VerdictIsRight
<1>1. IInv => VerdictIsRight
  BY DEF IInv
<1> QED
  BY <1>1, Invariance, PTL
=============================================================================
