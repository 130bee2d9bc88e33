----------------------------- MODULE TextProofs -----------------------------
(***************************************************************************)
(* What becomes of every file, whatever is in it: its lines keep their     *)
(* numbers, and its literals mean the same to both readers.  For the       *)
(* lines, the words they are cut into do not matter: the opcode of a line  *)
(* is its first token and stays so while arguments are appended.  For the  *)
(* literals it matters only that every token is a finite sequence.         *)
(***************************************************************************)
EXTENDS Text, Lemmas

Reading == at \in {"lines", "arguments"}
Failed == at \in {"error", "died"}

(* The lines of the file that are dealt with, and those of them to keep.   *)
LinesRead == IF Reading THEN ln ELSE Len(file)
Blanks(line) == ltrim(rtrim(line)) = <<>>
NotBlank(n) == {i \in 0..n - 1 : ~Blanks(file[i + 1])}

Sequences ==
  /\ tokens \in Seq(ToSet(tokens))
  /\ token_list \in Seq(ToSet(token_list))
  /\ nums \in Seq(Nat)
  /\ Len(nums) = Len(token_list)

(* Where the reader is, and what it has of the line it is in.              *)
Place ==
  /\ file \in Files /\ ln \in Nat
  /\ at \in {"lines", "arguments", "parse", "run", "done", "error", "died"}
  /\ at = "lines" => ln <= Len(file)
  /\ at = "arguments" =>
       /\ ln < Len(file) /\ ~Blanks(file[ln + 1])
       /\ tokens # <<>> /\ Head(tokens) = OpcodeOf(file[ln + 1])

(* What it has kept: lines it has dealt with, in order, and unless it gave *)
(* up, all of these that are not blank.                                    *)
Kept ==
  \A k \in 1..Len(nums) :
    /\ nums[k] < LinesRead
    /\ Head(token_list[k]) = OpcodeOf(file[nums[k] + 1])
    /\ \A j \in 1..k - 1 : nums[j] < nums[k]
Complete == ~Failed => ToSet(nums) = NotBlank(LinesRead)

LinesInv == Sequences /\ Place /\ Kept /\ Complete

(* Tokens are words: nothing the reader does to a line looks beyond it.    *)
IsWord(w) == w \in Seq(ToSet(w))
IsLine(l) == Len(l) \in Nat /\ \A i \in 1..Len(l) : IsWord(l[i])
WordsInv ==
  /\ IsWord(rest) /\ IsLine(tokens)
  /\ \A k \in 1..Len(token_list) : IsLine(token_list[k])

-----------------------------------------------------------------------------
LEMMA FileLength == ASSUME file \in Files PROVE Len(file) \in Nat
BY TextAssumption

LEMMA AppendIsSequence ==
  ASSUME NEW s, s \in Seq(ToSet(s)), NEW e
  PROVE  /\ Append(s, e) \in Seq(ToSet(Append(s, e)))
         /\ Len(Append(s, e)) = Len(s) + 1
         /\ Append(s, e) # <<>>
         /\ s # <<>> => Head(Append(s, e)) = Head(s)
         /\ \A i \in 1..Len(s) : Append(s, e)[i] = s[i]
         /\ Append(s, e)[Len(s) + 1] = e
<1> DEFINE S == ToSet(s) \cup {e}
<1>1. s \in Seq(S) /\ e \in S
  OBVIOUS
<1>2. Append(s, e) \in Seq(S) /\ Len(Append(s, e)) = Len(s) + 1
  BY <1>1
<1>3. \A i \in 1..Len(s) + 1 : Append(s, e)[i] \in ToSet(Append(s, e))
  BY <1>2 DEF ToSet
<1>4. Append(s, e) \in Seq(ToSet(Append(s, e)))
  BY <1>2, <1>3
<1>5. \A i \in 1..Len(s) : Append(s, e)[i] = s[i]
  BY <1>1
<1>6. Append(s, e)[Len(s) + 1] = e
  BY <1>1
<1>7. s # <<>> => Head(Append(s, e)) = Head(s)
  BY <1>1
<1>8. Append(s, e) # <<>>
  BY <1>1
<1> QED
  BY <1>2, <1>4, <1>5, <1>6, <1>7, <1>8

LEMMA AppendedNumbers ==
  ASSUME NEW s \in Seq(Nat), NEW n \in Nat
  PROVE  ToSet(Append(s, n)) = ToSet(s) \cup {n}
<1>1. /\ Len(s) \in Nat /\ DOMAIN s = 1..Len(s)
      /\ DOMAIN Append(s, n) = 1..Len(s) + 1
      /\ \A i \in 1..Len(s) : Append(s, n)[i] = s[i]
      /\ Append(s, n)[Len(s) + 1] = n
  OBVIOUS
<1>2. 1..Len(s) + 1 = 1..Len(s) \cup {Len(s) + 1}
  BY <1>1
<1> QED
  BY <1>1, <1>2 DEF ToSet

LEMMA InitInv == Init => LinesInv
<1> SUFFICES ASSUME Init PROVE LinesInv
  OBVIOUS
<1>1. Len(file) \in Nat
  BY FileLength DEF Init
<1>2. Sequences
  BY DEF Init, Sequences, ToSet
<1>3. Place
  BY <1>1 DEF Init, Place
<1>4. Kept /\ Complete
  BY DEF Init, Kept, Complete, NotBlank, LinesRead, Reading, ToSet
<1> QED
  BY <1>2, <1>3, <1>4 DEF LinesInv

LEMMA SkipLineKeeps == LinesInv /\ SkipLine => LinesInv'
<1> SUFFICES ASSUME LinesInv, SkipLine PROVE LinesInv'
  OBVIOUS
<1>1. Len(file) \in Nat /\ ln \in Nat
  BY FileLength DEF LinesInv, Place
<1>2. Sequences'
  BY DEF LinesInv, Sequences, SkipLine
<1>3. Place'
  BY <1>1 DEF LinesInv, Place, SkipLine
<1>4. LinesRead = ln /\ LinesRead' = ln + 1
  BY DEF SkipLine, LinesRead, Reading
<1>5. Kept'
  <2> SUFFICES ASSUME NEW k \in 1..Len(nums)
               PROVE  /\ nums[k] < ln + 1
                      /\ Head(token_list[k]) = OpcodeOf(file[nums[k] + 1])
                      /\ \A j \in 1..k - 1 : nums[j] < nums[k]
    BY <1>4 DEF Kept, SkipLine
  <2>1. nums[k] \in Nat
    BY DEF LinesInv, Sequences
  <2> QED
    BY <1>1, <1>4, <2>1 DEF LinesInv, Kept
<1>6. NotBlank(ln + 1) = NotBlank(ln)
  BY <1>1 DEF SkipLine, NotBlank, Blanks
<1>7. Complete'
  BY <1>4, <1>6 DEF LinesInv, Complete, SkipLine, NotBlank, Failed
<1> QED
  BY <1>2, <1>3, <1>5, <1>7 DEF LinesInv

LEMMA OpcodeKeeps == LinesInv /\ Opcode => LinesInv'
<1> SUFFICES ASSUME LinesInv, Opcode PROVE LinesInv'
  OBVIOUS
<1>1. /\ at = "lines" /\ at' = "arguments" /\ ln < Len(file)
      /\ ~Blanks(file[ln + 1])
      /\ tokens' = <<OpcodeOf(file[ln + 1])>>
      /\ UNCHANGED <<file, ln, token_list, nums, var_list, obuf>>
  BY DEF Opcode, Blanks, OpcodeOf
<1>2. Sequences'
  BY <1>1 DEF LinesInv, Sequences, ToSet
<1>3. Place'
  BY <1>1 DEF LinesInv, Place
<1>4. LinesRead' = LinesRead
  BY <1>1 DEF LinesRead, Reading
<1>5. Kept'
  BY <1>1, <1>4 DEF LinesInv, Kept
<1>6. Complete'
  BY <1>1, <1>4 DEF LinesInv, Complete, NotBlank, Failed
<1> QED
  BY <1>2, <1>3, <1>5, <1>6 DEF LinesInv

LEMMA ArgumentKeeps == LinesInv /\ Argument => LinesInv'
<1> SUFFICES ASSUME LinesInv, Argument PROVE LinesInv'
  OBVIOUS
<1>1. /\ at = "arguments" /\ UNCHANGED <<file, ln, token_list, nums>>
      /\ \/ at' \in {"error", "died"} /\ tokens' = tokens
         \/ at' = at /\ \E word : tokens' = Append(tokens, word)
  BY DEF Argument, End
<1>2. Len(file) \in Nat /\ ln \in Nat /\ ln < Len(file) /\ tokens # <<>>
  BY <1>1, FileLength DEF LinesInv, Place
<1>3. /\ tokens' \in Seq(ToSet(tokens'))
      /\ tokens' # <<>> /\ Head(tokens') = Head(tokens)
  BY <1>1, <1>2, AppendIsSequence DEF LinesInv, Sequences
<1>4. Sequences'
  BY <1>1, <1>3 DEF LinesInv, Sequences
<1>5. Place'
  BY <1>1, <1>3 DEF LinesInv, Place
<1>6. LinesRead = ln /\ LinesRead' \in {ln, Len(file)}
  BY <1>1 DEF LinesRead, Reading
<1>7. Kept'
  <2> SUFFICES ASSUME NEW k \in 1..Len(nums)
               PROVE  /\ nums[k] < LinesRead'
                      /\ Head(token_list[k]) = OpcodeOf(file[nums[k] + 1])
                      /\ \A j \in 1..k - 1 : nums[j] < nums[k]
    BY <1>1 DEF Kept
  <2>1. nums[k] \in Nat
    BY DEF LinesInv, Sequences
  <2> QED
    BY <1>2, <1>6, <2>1 DEF LinesInv, Kept
<1>8. Complete'
  BY <1>1 DEF LinesInv, Complete, NotBlank, Failed, LinesRead, Reading
<1> QED
  BY <1>4, <1>5, <1>7, <1>8 DEF LinesInv

LEMMA EndLineKeeps == LinesInv /\ EndLine => LinesInv'
<1> SUFFICES ASSUME LinesInv, EndLine PROVE LinesInv'
  OBVIOUS
<1>1. /\ at = "arguments" /\ at' = "lines" /\ ln' = ln + 1
      /\ token_list' = Append(token_list, tokens) /\ nums' = Append(nums, ln)
      /\ UNCHANGED <<file, tokens>>
  BY DEF EndLine
<1>2. /\ Len(file) \in Nat /\ ln \in Nat /\ ln < Len(file)
      /\ ~Blanks(file[ln + 1]) /\ Head(tokens) = OpcodeOf(file[ln + 1])
  BY <1>1, FileLength DEF LinesInv, Place
<1>3. /\ nums \in Seq(Nat) /\ Len(nums) = Len(token_list)
      /\ token_list \in Seq(ToSet(token_list))
  BY DEF LinesInv, Sequences
<1>4. /\ token_list' \in Seq(ToSet(token_list'))
      /\ Len(token_list') = Len(token_list) + 1
      /\ \A i \in 1..Len(token_list) : token_list'[i] = token_list[i]
      /\ token_list'[Len(token_list) + 1] = tokens
  BY <1>1, <1>3, AppendIsSequence
<1>5. /\ nums' \in Seq(Nat) /\ Len(nums') = Len(nums) + 1
      /\ \A i \in 1..Len(nums) : nums'[i] = nums[i] /\ nums[i] \in Nat
      /\ nums'[Len(nums) + 1] = ln
  BY <1>1, <1>2, <1>3
<1>6. Sequences'
  BY <1>1, <1>3, <1>4, <1>5 DEF LinesInv, Sequences
<1>7. Place'
  BY <1>1, <1>2 DEF LinesInv, Place
<1>8. LinesRead = ln /\ LinesRead' = ln + 1
  BY <1>1 DEF LinesRead, Reading
<1>9. Kept'
  <2> SUFFICES ASSUME NEW k \in 1..Len(nums')
               PROVE  /\ nums'[k] < ln + 1
                      /\ Head(token_list'[k]) = OpcodeOf(file[nums'[k] + 1])
                      /\ \A j \in 1..k - 1 : nums'[j] < nums'[k]
    BY <1>1, <1>8 DEF Kept
  <2>1. CASE k <= Len(nums)
    <3>1. k \in 1..Len(nums)
      BY <1>3, <1>5, <2>1
    <3>2. /\ nums[k] < ln /\ Head(token_list[k]) = OpcodeOf(file[nums[k] + 1])
          /\ \A j \in 1..k - 1 : nums[j] < nums[k]
      BY <1>8, <3>1 DEF LinesInv, Kept
    <3>3. nums'[k] = nums[k] /\ nums[k] \in Nat /\ token_list'[k] = token_list[k]
      BY <1>3, <1>4, <1>5, <3>1
    <3>4. \A j \in 1..k - 1 : nums'[j] = nums[j]
      BY <1>3, <1>5, <3>1
    <3> QED
      BY <1>2, <3>2, <3>3, <3>4
  <2>2. CASE k = Len(nums) + 1
    <3>1. nums'[k] = ln /\ token_list'[k] = tokens
      BY <1>3, <1>4, <1>5, <2>2
    <3>2. \A j \in 1..k - 1 : nums'[j] < ln
      BY <1>3, <1>5, <1>8, <2>2 DEF LinesInv, Kept
    <3> QED
      BY <1>2, <3>1, <3>2
  <2> QED
    BY <1>3, <1>5, <2>1, <2>2
<1>10. NotBlank(ln + 1) = NotBlank(ln) \cup {ln}
  BY <1>2 DEF NotBlank
<1>11. Complete'
  BY <1>1, <1>2, <1>3, <1>8, <1>10, AppendedNumbers
     DEF LinesInv, Complete, NotBlank, Failed
<1> QED
  BY <1>6, <1>7, <1>9, <1>11 DEF LinesInv

LEMMA EndFileKeeps == LinesInv /\ EndFile => LinesInv'
<1> SUFFICES ASSUME LinesInv, EndFile PROVE LinesInv'
  OBVIOUS
<1>1. /\ at = "lines" /\ at' = "parse" /\ ln = Len(file) /\ ln' = 0
      /\ UNCHANGED <<file, tokens, token_list, nums>>
  BY DEF EndFile
<1>2. LinesRead' = LinesRead
  BY <1>1 DEF LinesRead, Reading
<1>3. Sequences' /\ Place'
  BY <1>1 DEF LinesInv, Sequences, Place
<1>4. Kept' /\ Complete'
  BY <1>1, <1>2 DEF LinesInv, Kept, Complete, NotBlank, Failed
<1> QED
  BY <1>3, <1>4 DEF LinesInv

(* Parsing and executing leave the lines alone.                            *)
LEMMA LaterKeeps ==
  ASSUME LinesInv, at \in {"parse", "run"}, at' \in {"parse", "run", "done", "error", "died"},
         ln' \in Nat, UNCHANGED <<file, tokens, token_list, nums>>
  PROVE  LinesInv'
<1>1. LinesRead' = LinesRead
  BY DEF LinesRead, Reading
<1>2. Sequences' /\ Place'
  BY DEF LinesInv, Sequences, Place
<1>3. Kept' /\ Complete'
  BY <1>1 DEF LinesInv, Kept, Complete, NotBlank, Failed
<1> QED
  BY <1>2, <1>3 DEF LinesInv

LEMMA StepInv == LinesInv /\ [Next]_vars => LinesInv'
<1> SUFFICES ASSUME LinesInv, [Next]_vars PROVE LinesInv'
  OBVIOUS
<1>0. ln \in Nat
  BY DEF LinesInv, Place
<1>1. CASE SkipLine BY <1>1, SkipLineKeeps
<1>2. CASE Opcode BY <1>2, OpcodeKeeps
<1>3. CASE Argument BY <1>3, ArgumentKeeps
<1>4. CASE EndLine BY <1>4, EndLineKeeps
<1>5. CASE EndFile BY <1>5, EndFileKeeps
<1>6. CASE parseVariable
  <2>1. /\ at = "parse" /\ at' \in {"parse", "error", "died"} /\ ln' \in {ln, ln + 1}
        /\ UNCHANGED <<file, tokens, token_list, nums>>
    BY <1>6 DEF parseVariable, Going, End
  <2> QED
    BY <1>0, <2>1, LaterKeeps
<1>7. CASE parseInstruction
  BY <1>0, <1>7, LaterKeeps DEF parseInstruction, Going, End
<1>8. CASE EndParse
  BY <1>8, LaterKeeps DEF EndParse
<1>9. CASE Out
  <2>1. /\ at = "run" /\ at' \in {"run", "error"} /\ ln' \in {ln, ln + 1}
        /\ UNCHANGED <<file, tokens, token_list, nums>>
    BY <1>9 DEF Out, Going, End
  <2> QED
    BY <1>0, <2>1, LaterKeeps
<1>10. CASE EndRun
  BY <1>0, <1>10, LaterKeeps DEF EndRun
<1>11. CASE UNCHANGED vars
  BY <1>11 DEF vars, LinesInv, Sequences, Place, Kept, Complete, NotBlank,
               LinesRead, Reading, Failed
<1> QED
  BY <1>1, <1>2, <1>3, <1>4, <1>5, <1>6, <1>7, <1>8, <1>9, <1>10, <1>11 DEF Next

LEMMA InvImplies == LinesInv => LinesKeepNumbers
<1> SUFFICES ASSUME LinesInv PROVE LinesKeepNumbers
  OBVIOUS
<1>1. \A k \in 1..Len(nums) :
        /\ Head(token_list[k]) = OpcodeOf(file[nums[k] + 1])
        /\ k > 1 => nums[k - 1] < nums[k]
  BY DEF LinesInv, Sequences, Kept
<1>2. at \in {"parse", "run", "done"} =>
        ToSet(nums) = {i \in 0..Len(file) - 1 : ltrim(rtrim(file[i + 1])) # <<>>}
  BY DEF LinesInv, Complete, NotBlank, LinesRead, Reading, Failed, Blanks
<1> QED
  BY <1>1, <1>2 DEF LinesKeepNumbers

(* Whatever the files are, the lines that are not blank reach the parser   *)
(* in order, all of them, each with its opcode and its own number          *)
(* (Server.cpp:74-82, Parse.cpp:208-217).                                  *)
THEOREM EveryLineKeepsItsNumber == Spec => []LinesKeepNumbers
<1>1. Spec => []LinesInv
  BY InitInv, StepInv, PTL DEF Spec
<1> QED
  BY <1>1, InvImplies, PTL

-----------------------------------------------------------------------------
(* Words are cut into words.                                               *)

LEMMA SequenceIsWord ==
  ASSUME NEW S, NEW s \in Seq(S)
  PROVE  IsWord(s)
<1>1. Len(s) \in Nat /\ s = [i \in 1..Len(s) |-> s[i]]
  OBVIOUS
<1>2. \A i \in 1..Len(s) : s[i] \in ToSet(s)
  BY <1>1 DEF ToSet
<1>3. s \in [1..Len(s) -> ToSet(s)]
  BY <1>1, <1>2
<1> QED
  BY <1>1, <1>3, SeqDef DEF IsWord

LEMMA PartIsWord ==
  ASSUME NEW s, IsWord(s), NEW m \in Nat \ {0}, NEW n \in Nat, n <= Len(s)
  PROVE  IsWord(SubSeq(s, m, n))
<1>1. SubSeq(s, m, n) \in Seq(ToSet(s))
  BY DEF IsWord
<1> QED
  BY <1>1, SequenceIsWord

LEMMA EmptyIsWord == IsWord(<<>>)
BY DEF IsWord

LEMMA MinOfPositions ==
  ASSUME NEW n \in Nat, NEW I, I \subseteq 1..n, I # {}
  PROVE  Min(I) \in I
<1>1. I \subseteq Nat
  OBVIOUS
<1>2. \E x \in I : \A y \in I : x <= y
  BY <1>1, LeastNat
<1> QED
  BY <1>2 DEF Min

LEMMA TrimmedIsWord ==
  ASSUME NEW s, IsWord(s)
  PROVE  IsWord(ltrim(s)) /\ IsWord(rtrim(s))
<1> DEFINE I == {i \in 1..Len(s) : s[i] \notin Blank}
           J == {i \in 1..Len(s) : s[i] \notin White}
<1>1. Len(s) \in Nat
  BY DEF IsWord
<1>2. SelectInSeq(s, LAMBDA c : c \notin Blank) = IF I # {} THEN Min(I) ELSE 0
  BY DEF SelectInSeq
<1>3. SelectLastInSeq(s, LAMBDA c : c \notin White) = IF J # {} THEN Max(J) ELSE 0
  BY DEF SelectLastInSeq
<1>4. I # {} => Min(I) \in 1..Len(s)
  <2>1. I \subseteq 1..Len(s)
    OBVIOUS
  <2> HIDE DEF I
  <2> QED
    BY <1>1, <2>1, MinOfPositions
<1>5. J # {} => Max(J) \in 1..Len(s)
  <2>1. J \subseteq 1..Len(s)
    OBVIOUS
  <2> HIDE DEF J
  <2> QED
    BY <1>1, <2>1, MaxOfPositions
<1> HIDE DEF I, J
<1>6. IsWord(ltrim(s))
  <2>1. ltrim(s) = IF SelectInSeq(s, LAMBDA c : c \notin Blank) = 0 THEN <<>>
                   ELSE SubSeq(s, SelectInSeq(s, LAMBDA c : c \notin Blank), Len(s))
    BY DEF ltrim
  <2>2. CASE I = {}
    BY <1>2, <2>1, <2>2, EmptyIsWord
  <2>3. CASE I # {}
    <3>1. Min(I) \in Nat \ {0}
      BY <1>1, <1>4, <2>3
    <3>2. ltrim(s) = SubSeq(s, Min(I), Len(s))
      BY <1>2, <2>1, <2>3, <3>1
    <3> QED
      BY <1>1, <3>1, <3>2, PartIsWord
  <2> QED
    BY <2>2, <2>3
<1>7. IsWord(rtrim(s))
  <2> DEFINE n == IF J # {} THEN Max(J) ELSE 0
  <2>1. rtrim(s) = SubSeq(s, 1, n)
    BY <1>3 DEF rtrim
  <2>2. n \in Nat /\ n <= Len(s)
    BY <1>1, <1>5
  <2> HIDE DEF n
  <2> QED
    BY <2>1, <2>2, PartIsWord
<1> QED
  BY <1>6, <1>7

LEMMA CutIsWord ==
  ASSUME NEW s, IsWord(s), NEW delim
  PROVE  IsWord(Before(s, delim)) /\ IsWord(Behind(s, delim))
<1> DEFINE I == {i \in 1..Len(s) : s[i] = delim}
           n == IF I # {} THEN Min(I) ELSE 0
<1>1. Len(s) \in Nat
  BY DEF IsWord
<1>2. SelectInSeq(s, LAMBDA c : c = delim) = n
  BY DEF SelectInSeq
<1>3. n \in 0..Len(s)
  <2>1. I \subseteq 1..Len(s)
    OBVIOUS
  <2> HIDE DEF I
  <2>2. I # {} => Min(I) \in I
    BY <1>1, <2>1, MinOfPositions
  <2>3. CASE I = {}
    <3>1. n = 0
      BY <2>3
    <3> QED
      BY <1>1, <3>1
  <2>4. CASE I # {}
    <3>1. n = Min(I) /\ Min(I) \in 1..Len(s)
      BY <2>1, <2>2, <2>4
    <3> QED
      BY <1>1, <3>1
  <2> QED
    BY <2>3, <2>4
<1>4. /\ Before(s, delim) = IF n = 0 THEN s ELSE SubSeq(s, 1, n - 1)
      /\ Behind(s, delim) = IF n = 0 THEN <<>> ELSE SubSeq(s, n + 1, Len(s))
  <2> HIDE DEF n
  <2> QED
    BY <1>2 DEF Before, Behind
<1> HIDE DEF n
<1>5. CASE n = 0
  BY <1>4, <1>5, EmptyIsWord
<1>6. CASE n # 0
  <2>1. n - 1 \in Nat /\ n - 1 <= Len(s) /\ n + 1 \in Nat \ {0} /\ 1 \in Nat \ {0}
    BY <1>1, <1>3, <1>6
  <2>2. IsWord(SubSeq(s, 1, n - 1))
    BY <2>1, PartIsWord
  <2>3. IsWord(SubSeq(s, n + 1, Len(s)))
    BY <1>1, <2>1, PartIsWord
  <2> QED
    BY <1>4, <1>6, <2>2, <2>3
<1> QED
  BY <1>5, <1>6

LEMMA AddedIsWord ==
  ASSUME NEW s, IsWord(s), NEW b, IsWord(b), NEW c, NEW q
  PROVE  IsWord(s \o <<c>> \o b \o <<q>>)
<1> DEFINE S == ToSet(s) \cup ToSet(b) \cup {c, q}
<1>1. s \in Seq(S) /\ b \in Seq(S)
  BY SeqWider DEF IsWord
<1>2. c \in S /\ q \in S
  OBVIOUS
<1> HIDE DEF S
<1>3. <<c>> \in Seq(S) /\ <<q>> \in Seq(S)
  BY <1>2
<1>4. s \o <<c>> \o b \o <<q>> \in Seq(S)
  BY <1>1, <1>3
<1> QED
  BY <1>4, SequenceIsWord

LEMMA JoinedIsWord ==
  ASSUME NEW s, IsWord(s), NEW more, IsWord(more)
  PROVE  IsWord(Joined(s, more))
<1>1. IsWord(Before(more, "\""))
  BY CutIsWord
<1> QED
  BY <1>1, AddedIsWord DEF Joined

LEMMA FirstToken ==
  ASSUME NEW w, IsWord(w)
  PROVE  IsLine(<<w>>)
<1>1. Len(<<w>>) = 1 /\ <<w>>[1] = w /\ \A i \in 1..1 : i = 1
  OBVIOUS
<1> QED
  BY <1>1 DEF IsLine

LEMMA LongerLine ==
  ASSUME NEW l, l \in Seq(ToSet(l)), IsLine(l), NEW w, IsWord(w)
  PROVE  IsLine(Append(l, w))
<1> SUFFICES ASSUME NEW i \in 1..Len(Append(l, w)) PROVE IsWord(Append(l, w)[i])
  BY AppendIsSequence DEF IsLine
<1>1. Len(l) \in Nat /\ Len(Append(l, w)) = Len(l) + 1
  BY AppendIsSequence
<1>2. CASE i \in 1..Len(l)
  BY <1>2, AppendIsSequence DEF IsLine
<1>3. CASE i = Len(l) + 1
  BY <1>3, AppendIsSequence
<1> QED
  BY <1>1, <1>2, <1>3

LEMMA WordsStep == LinesInv /\ WordsInv /\ [Next]_vars => WordsInv'
<1> SUFFICES ASSUME LinesInv, WordsInv, [Next]_vars PROVE WordsInv'
  OBVIOUS
<1>1. CASE Opcode
  <2> DEFINE line == ltrim(rtrim(file[ln + 1]))
  <2>1. IsWord(file[ln + 1])
    <3>0. file \in Files /\ ln \in Nat /\ ln < Len(file)
      BY <1>1 DEF Opcode, LinesInv, Place
    <3>1. ln + 1 \in 1..Len(file)
      BY <3>0, FileLength
    <3> QED
      BY <3>1, TextAssumption DEF LinesInv, Place, IsWord
  <2>2. IsWord(line)
    BY <2>1, TrimmedIsWord
  <2>3. tokens' = <<ltrim(rtrim(Before(line, " ")))>> /\ rest' = Behind(line, " ")
        /\ token_list' = token_list
    BY <1>1 DEF Opcode
  <2> HIDE DEF line
  <2>4. IsWord(rest') /\ IsWord(ltrim(rtrim(Before(line, " "))))
    BY <2>2, <2>3, CutIsWord, TrimmedIsWord
  <2>5. IsLine(tokens')
    BY <2>3, <2>4, FirstToken
  <2> QED
    BY <2>3, <2>4, <2>5 DEF WordsInv
<1>2. CASE Argument
  <2> DEFINE word == ltrim(Before(rest, ","))
             more == Behind(rest, ",")
  <2>1. IsWord(rest) /\ IsLine(tokens) /\ tokens \in Seq(ToSet(tokens))
    BY DEF WordsInv, LinesInv, Sequences
  <2>2. IsWord(word) /\ IsWord(more)
    BY <2>1, CutIsWord, TrimmedIsWord
  <2>3. /\ token_list' = token_list
        /\ \/ rest' = rest /\ tokens' = tokens
           \/ rest' = more /\ tokens' = Append(tokens, rtrim(word))
           \/ rest' = Behind(more, "\"") /\ tokens' = Append(tokens, rtrim(Joined(word, more)))
    BY <1>2 DEF Argument, End
  <2> HIDE DEF word, more
  <2>4. IsWord(rtrim(word)) /\ IsWord(rtrim(Joined(word, more))) /\ IsWord(Behind(more, "\""))
    BY <2>2, CutIsWord, TrimmedIsWord, JoinedIsWord
  <2>5. IsWord(rest') /\ IsLine(tokens')
    BY <2>1, <2>2, <2>3, <2>4, LongerLine
  <2> QED
    BY <2>3, <2>5 DEF WordsInv
<1>3. CASE EndLine
  <2>1. /\ token_list' = Append(token_list, tokens) /\ UNCHANGED <<rest, tokens>>
        /\ token_list \in Seq(ToSet(token_list))
    BY <1>3 DEF EndLine, LinesInv, Sequences
  <2> SUFFICES ASSUME NEW k \in 1..Len(token_list') PROVE IsLine(token_list'[k])
    BY <2>1 DEF WordsInv, IsLine
  <2>2. Len(token_list) \in Nat /\ Len(token_list') = Len(token_list) + 1
    BY <2>1, AppendIsSequence
  <2>3. CASE k \in 1..Len(token_list)
    BY <2>1, <2>3, AppendIsSequence DEF WordsInv
  <2>4. CASE k = Len(token_list) + 1
    BY <2>1, <2>4, AppendIsSequence DEF WordsInv
  <2> QED
    BY <2>2, <2>3, <2>4
<1>4. CASE SkipLine \/ EndFile \/ parseVariable \/ parseInstruction \/ EndParse
            \/ Out \/ EndRun \/ UNCHANGED vars
  <2>1. UNCHANGED <<rest, tokens, token_list>>
    BY <1>4 DEF SkipLine, EndFile, parseVariable, parseInstruction, EndParse, Out,
                EndRun, End, vars
  <2> QED
    BY <2>1 DEF WordsInv, IsLine
<1> QED
  BY <1>1, <1>2, <1>3, <1>4 DEF Next

-----------------------------------------------------------------------------
(* The two readers of one word.                                            *)

LEMMA SameNumbers ==
  ASSUME NEW w, IsWord(w)
  PROVE  /\ rgx_int(w) <=> checkInt(w)
         /\ rgx_double(w) <=> checkDouble(w)
<1>1. Len(w) \in Nat /\ DOMAIN w = 1..Len(w) /\ (w = <<>> <=> Len(w) = 0)
  BY DEF IsWord
<1>2. rgx_int(w) <=> checkInt(w)
  BY <1>1 DEF rgx_int, checkInt, ToSet
<1>3. rgx_double(w) <=> checkDouble(w)
  <2>1. ASSUME NEW i \in 1..Len(w)
        PROVE  /\ 1..Len(w) \ {i} = (1..i - 1) \cup (i + 1..Len(w))
               /\ Len(w) > 1 <=> i > 1 \/ i < Len(w)
    BY <1>1
  <2>2. ASSUME NEW i \in 1..Len(w)
        PROVE  (\A j \in 1..Len(w) \ {i} : w[j] \in DOMAIN Digits) <=>
                 /\ \A j \in 1..i - 1 : w[j] \in DOMAIN Digits
                 /\ \A j \in i + 1..Len(w) : w[j] \in DOMAIN Digits
    BY <2>1
  <2> QED
    BY <2>1, <2>2 DEF rgx_double, checkDouble
<1> QED
  BY <1>2, <1>3

(* A word in the quotes of a string.                                       *)
StringLike(w) == Quoted(w, "\"")

(* A word of digits has no point, and one with a quote in front is neither *)
(* a number nor a literal of the other kind.                               *)
LEMMA OneExpression ==
  ASSUME NEW w, IsWord(w)
  PROVE  /\ rgx_int(w) => ~rgx_double(w)
         /\ rgx_int(w) \/ rgx_double(w) => ~Quoted(w, "'") /\ ~StringLike(w)
         /\ Quoted(w, "'") => ~StringLike(w)
<1>1. Len(w) \in Nat /\ (w = <<>> <=> Len(w) = 0)
  BY DEF IsWord
<1>2. rgx_int(w) => ~rgx_double(w)
  BY <1>1, TextAssumption DEF rgx_int, rgx_double
<1>3. rgx_int(w) \/ rgx_double(w) => w[1] \in DOMAIN Digits \cup {"."}
  BY <1>1 DEF rgx_int, rgx_double
<1>4. \A quote \in {"'", "\""} : quote \notin DOMAIN Digits \cup {"."}
  BY TextAssumption
<1> QED
  <2>1. rgx_int(w) \/ rgx_double(w) => ~Quoted(w, "'") /\ ~StringLike(w)
    BY <1>3, <1>4, Zenon DEF Quoted, StringLike
  <2>2. "'" # "\""
    OBVIOUS
  <2>3. Quoted(w, "'") => ~StringLike(w)
    BY <2>2, Zenon DEF Quoted, StringLike
  <2> QED
    BY <1>2, <2>1, <2>3

LEMMA StringExpression ==
  ASSUME NEW w
  PROVE  rgx_string(w) <=> Len(w) > 1 /\ StringLike(w) /\ OneLine(w)
BY Zenon DEF rgx_string, StringLike

LEMMA Readings ==
  ASSUME NEW w, IsWord(w)
  PROVE  /\ rgx_int(w) => checkConstType(w) = SetInt(w)
         /\ rgx_double(w) => checkConstType(w) = SetDouble(w)
         /\ rgx_char(w) => checkConstType(w) = {Val("CHAR", SubSeq(trimQuotes(w), 1, 1))}
         /\ rgx_string(w) => checkConstType(w) = SetString(trimQuotes(w), MaxString)
         /\ ~(rgx_int(w) \/ rgx_double(w) \/ rgx_char(w) \/ rgx_string(w)) =>
              checkConstType(w) = {}
<1>1. /\ rgx_char(w) => Quoted(w, "'")
      /\ rgx_string(w) => StringLike(w)
  BY StringExpression DEF rgx_char
<1>2. rgx_int(w) => ~rgx_double(w) /\ ~rgx_char(w) /\ ~rgx_string(w)
  BY <1>1, OneExpression
<1>3. rgx_double(w) => ~rgx_char(w) /\ ~rgx_string(w)
  BY <1>1, OneExpression
<1>4. rgx_char(w) => ~rgx_string(w)
  BY <1>1, OneExpression
<1>5. CASE rgx_int(w)
  <2>1. checkConstType(w) = {Val("NUMERIC", n) : n \in stoll(w)}
    BY <1>2, <1>5 DEF checkConstType
  <2> QED
    BY <1>2, <1>5, <2>1, SameNumbers DEF SetInt
<1>6. CASE rgx_double(w)
  <2>1. checkConstType(w) = {Val("REAL", r) : r \in stod(w)}
    BY <1>2, <1>3, <1>6 DEF checkConstType
  <2> QED
    BY <1>2, <1>3, <1>6, <2>1, SameNumbers DEF SetDouble
<1>7. CASE ~rgx_int(w) /\ ~rgx_double(w)
  BY <1>4, <1>7 DEF checkConstType
<1> QED
  BY <1>5, <1>6, <1>7

LEMMA TrimmedChar ==
  ASSUME NEW w, IsWord(w), Len(w) = 3
  PROVE  /\ Len(trimQuotes(w)) = 1
         /\ SubSeq(trimQuotes(w), 1, 1) = trimQuotes(w)
         /\ OneLine(w) => OneLine(trimQuotes(w))
<1>1. /\ trimQuotes(w) \in Seq(ToSet(w)) /\ Len(trimQuotes(w)) = 1
      /\ trimQuotes(w)[1] = w[2] /\ w[2] \in ToSet(w)
  BY DEF trimQuotes, IsWord, ToSet
<1> DEFINE t == trimQuotes(w)
<1> HIDE DEF t
<1>2. t \in Seq(ToSet(w)) /\ Len(t) = 1 /\ t[1] \in ToSet(w)
  BY <1>1 DEF t
<1>3. SubSeq(t, 1, 1) = t
  BY <1>2
<1>4. ToSet(t) \subseteq ToSet(w)
  BY <1>2 DEF ToSet
<1> QED
  BY <1>2, <1>3, <1>4 DEF OneLine, t

LEMMA DeclaredByType ==
  ASSUME NEW w
  PROVE  /\ Declared(<<"NUMERIC">>, w) = SetInt(w)
         /\ Declared(<<"REAL">>, w) = SetDouble(w)
         /\ Declared(<<"CHAR">>, w) =
              IF Quoted(w, "'") THEN SetChar(trimQuotes(w)) ELSE {}
         /\ Declared(<<"STRING">>, w) =
              IF StringLike(w) THEN SetString(trimQuotes(w), MaxString) ELSE {}
<1>1. \A a, b : a # b => <<a>> # <<b>>
  <2> SUFFICES ASSUME NEW a, NEW b, a # b PROVE <<a>> # <<b>>
    OBVIOUS
  <2>1. <<a>>[1] = a /\ <<b>>[1] = b
    OBVIOUS
  <2> QED
    BY <2>1
<1> DEFINE n == <<"NUMERIC">>  r == <<"REAL">>  c == <<"CHAR">>  s == <<"STRING">>
<1>2. n # r /\ n # c /\ n # s /\ r # c /\ r # s /\ c # s
  BY <1>1
<1>3. \A type : Declared(type, w) =
        CASE type = n -> SetInt(w)
          [] type = r -> SetDouble(w)
          [] type = c /\ Quoted(w, "'") -> SetChar(trimQuotes(w))
          [] type = s /\ StringLike(w) -> SetString(trimQuotes(w), MaxString)
          [] OTHER -> {}
  BY Zenon DEF Declared, StringLike
<1> HIDE DEF n, r, c, s
<1>4. /\ Declared(n, w) = SetInt(w)
      /\ Declared(r, w) = SetDouble(w)
      /\ Declared(c, w) = IF Quoted(w, "'") THEN SetChar(trimQuotes(w)) ELSE {}
      /\ Declared(s, w) =
           IF StringLike(w) THEN SetString(trimQuotes(w), MaxString) ELSE {}
  BY <1>2, <1>3
<1> QED
  BY <1>4 DEF n, r, c, s

(* A constant is an initial value of its type.                             *)
LEMMA ConstantIsInitial ==
  ASSUME NEW w, IsWord(w), NEW v \in checkConstType(w)
  PROVE  Declared(<<v.type>>, w) = {v}
<1>1. CASE rgx_int(w)
  <2>1. v \in SetInt(w)
    BY <1>1, Readings
  <2>2. SetInt(w) = {v} /\ v.type = "NUMERIC"
    BY <2>1 DEF SetInt, Val, stoll
  <2> QED
    BY <2>2, DeclaredByType
<1>2. CASE rgx_double(w)
  <2>1. v \in SetDouble(w)
    BY <1>2, Readings
  <2>2. SetDouble(w) = {v} /\ v.type = "REAL"
    BY <2>1 DEF SetDouble, Val, stod
  <2> QED
    BY <2>2, DeclaredByType
<1>3. CASE rgx_char(w)
  <2>1. v = Val("CHAR", trimQuotes(w))
    BY <1>3, Readings, TrimmedChar DEF rgx_char
  <2>2. Len(trimQuotes(w)) = 1 /\ OneLine(trimQuotes(w)) /\ Quoted(w, "'")
    BY <1>3, TrimmedChar DEF rgx_char
  <2>3. SetChar(trimQuotes(w)) = {v}
    BY <2>1, <2>2 DEF SetChar, checkChar
  <2>4. v.type = "CHAR"
    BY <2>1 DEF Val
  <2> QED
    BY <2>2, <2>3, <2>4, DeclaredByType
<1>4. CASE rgx_string(w)
  <2>1. v \in SetString(trimQuotes(w), MaxString) /\ StringLike(w)
    BY <1>4, Readings, StringExpression
  <2>2. SetString(trimQuotes(w), MaxString) = {v} /\ v.type = "STRING"
    BY <2>1 DEF SetString, Val
  <2> QED
    BY <2>1, <2>2, DeclaredByType
<1> QED
  BY <1>1, <1>2, <1>3, <1>4, Readings

(* And what a type takes as an initial value is a constant of that value.  *)
LEMMA InitialIsConstant ==
  ASSUME NEW w, IsWord(w), OneLine(w), ~Escape(w), ~LoneQuote(w),
         NEW type \in Types, NEW v \in Declared(<<type>>, w)
  PROVE  checkConstType(w) = {v}
<1>0. Len(w) \in Nat
  BY DEF IsWord
<1>1. CASE type = "NUMERIC"
  <2>1. v \in SetInt(w)
    BY <1>1, DeclaredByType
  <2>2. SetInt(w) = {v} /\ checkInt(w)
    BY <2>1 DEF SetInt, stoll
  <2> QED
    BY <2>2, SameNumbers, Readings
<1>2. CASE type = "REAL"
  <2>1. v \in SetDouble(w)
    BY <1>2, DeclaredByType
  <2>2. SetDouble(w) = {v} /\ checkDouble(w)
    BY <2>1 DEF SetDouble, stod
  <2> QED
    BY <2>2, SameNumbers, Readings
<1>3. CASE type = "CHAR"
  <2>1. v \in SetChar(trimQuotes(w)) /\ Quoted(w, "'")
    BY <1>3, DeclaredByType
  <2>2. Len(trimQuotes(w)) \in 1..2
    BY <2>1 DEF SetChar, checkChar
  <2>3. Len(w) = 3
    <3>1. Len(trimQuotes(w)) = IF Len(w) >= 2 THEN Len(w) - 2 ELSE 0
      BY <1>0 DEF trimQuotes, IsWord
    <3>2. w[1] = "'"
      BY <2>1, Zenon DEF Quoted
    <3>3. Len(w) # 4
      BY <3>2, Zenon DEF Escape
    <3> QED
      BY <1>0, <2>2, <3>1, <3>3
  <2>4. rgx_char(w)
    BY <2>1, <2>3 DEF rgx_char
  <2>5. v = Val("CHAR", trimQuotes(w))
    BY <2>1, <2>3, TrimmedChar DEF SetChar
  <2> QED
    BY <2>3, <2>4, <2>5, TrimmedChar, Readings
<1>4. CASE type = "STRING"
  <2>1. v \in SetString(trimQuotes(w), MaxString) /\ StringLike(w)
    BY <1>4, DeclaredByType
  <2>2. SetString(trimQuotes(w), MaxString) = {v}
    BY <2>1 DEF SetString
  <2>3. Len(w) > 1
    <3>1. Len(w) # 1
      <4> SUFFICES ASSUME Len(w) = 1 PROVE FALSE
        OBVIOUS
      <4>1. w = <<w[1]>>
        BY DEF IsWord
      <4>2. w[1] = "\""
        BY <2>1, Zenon DEF StringLike, Quoted
      <4>3. LoneQuote(w)
        BY <4>1, <4>2, Zenon DEF LoneQuote
      <4> QED
        BY <4>3
    <3>2. Len(w) # 0
      <4>1. w # <<>>
        BY <2>1, Zenon DEF StringLike, Quoted
      <4> QED
        BY <4>1 DEF IsWord
    <3>3. \A n \in Nat : n # 0 /\ n # 1 => n > 1
      OBVIOUS
    <3> QED
      BY <1>0, <3>1, <3>2, <3>3
  <2> QED
    BY <2>1, <2>2, <2>3, Readings, StringExpression
<1> QED
  BY <1>1, <1>2, <1>3, <1>4 DEF Types

(* For every file: what is a constant in an instruction is, declared with  *)
(* its type, a variable of the same value, and of no other; and the other  *)
(* way round, but for the escapes, the lone quote and the line ends        *)
(* (Parse.cpp:86-102 and 154-184, Variable.cpp).                           *)
THEOREM ReadersAlwaysAgree == Spec => []ReadersAgree
<1>1. Init => WordsInv
  BY EmptyIsWord DEF Init, WordsInv, IsLine
<1>2. Spec => [](LinesInv /\ WordsInv)
  BY <1>1, InitInv, StepInv, WordsStep, PTL DEF Spec
<1>3. ASSUME LinesInv, WordsInv PROVE ReadersAgree
  <2>1. ASSUME NEW l \in ToSet(token_list), NEW i \in 2..Len(l)
        PROVE  IsWord(l[i])
    BY <1>3 DEF LinesInv, Sequences, WordsInv, ToSet, IsLine
  <2> QED
    BY <2>1, ConstantIsInitial, InitialIsConstant DEF ReadersAgree
<1> QED
  BY <1>2, <1>3, PTL
=============================================================================
