-------------------------------- MODULE Text --------------------------------
(***************************************************************************)
(* From the text of a file to the text it prints: Server::receiveTokens    *)
(* cuts it into lines and Parse::tokenize each line into tokens,           *)
(* parseVariable and checkConstType read values from tokens, and OUT turns *)
(* values into text.  Which lines there may be and in what order is module *)
(* Parse; here VAR and OUT lines are enough to carry every literal through.*)
(*                                                                         *)
(* A word is a sequence of symbols.  A symbol is a character or stands for *)
(* several that the code never looks at singly, such as "STRING" or "$s".  *)
(***************************************************************************)
EXTENDS Integers, FiniteSets, Sequences, SequencesExt

CONSTANTS
  Files,      \* the files that may arrive, as sequences of lines
  Digits,     \* the digits and their values
  Capitals,   \* the symbols made of capital letters
  Dollars,    \* the symbols that begin with '$'
  MaxString,  \* 256: MAX_STRING_SIZE
  MaxDigits,  \* 18: digits that certainly fit in a long long
  MaxIntDigits,  \* 9: and in an int
  Garbage     \* what an uninitialized char may hold

ASSUME TextAssumption ==
  /\ MaxString \in Nat /\ MaxDigits \in Nat /\ MaxIntDigits \in Nat
  /\ Garbage # {}
  /\ \A f \in Files :
       Len(f) \in Nat /\ \A i \in 1..Len(f) : f[i] \in Seq(ToSet(f[i]))
  /\ DOMAIN Digits \cap (Capitals \cup Dollars) = {} /\ Capitals \cap Dollars = {}
  /\ DOMAIN Digits \cap {".", "'", "\""} = {}

VARIABLES
  file,        \* file_buffer
  at,          \* the phase, or how it ended
  ln,          \* lines read, parsed or executed so far
  rest,        \* what iss has not delivered yet
  tokens,      \* the opcode and the arguments of the line so far
  token_list,  \* Program::token_list, without the numbers
  nums,        \* the numbers of these lines
  var_list,    \* Program::var_list
  obuf         \* Program::obuf

vars == <<file, at, ln, rest, tokens, token_list, nums, var_list, obuf>>

Init ==
  /\ file \in Files
  /\ at = "lines" /\ ln = 0
  /\ rest = <<>> /\ tokens = <<>>
  /\ token_list = <<>> /\ nums = <<>>
  /\ var_list = <<>> /\ obuf = <<>>

End(how) == at' = how /\ UNCHANGED <<file, rest, ln>>

-----------------------------------------------------------------------------
(* Reading: Server::receiveTokens and Parse::tokenize.                     *)

Blank == {" ", "\t"}
White == Blank \cup {"\r", "\n"}

ltrim(s) ==
  LET i == SelectInSeq(s, LAMBDA c : c \notin Blank)
  IN IF i = 0 THEN <<>> ELSE SubSeq(s, i, Len(s))
rtrim(s) == SubSeq(s, 1, SelectLastInSeq(s, LAMBDA c : c \notin White))

(* getline: what comes before the delimiter, and what is left behind it.   *)
Before(s, delim) ==
  LET i == SelectInSeq(s, LAMBDA c : c = delim)
  IN IF i = 0 THEN s ELSE SubSeq(s, 1, i - 1)
Behind(s, delim) ==
  LET i == SelectInSeq(s, LAMBDA c : c = delim)
  IN IF i = 0 THEN <<>> ELSE SubSeq(s, i + 1, Len(s))

SkipLine ==
  /\ at = "lines" /\ ln < Len(file) /\ ltrim(rtrim(file[ln + 1])) = <<>>
  /\ ln' = ln + 1
  /\ UNCHANGED <<file, at, rest, tokens, token_list, nums, var_list, obuf>>

Opcode ==
  /\ at = "lines" /\ ln < Len(file)
  /\ LET line == ltrim(rtrim(file[ln + 1])) IN
     /\ line # <<>>
     /\ tokens' = <<ltrim(rtrim(Before(line, " ")))>>
     /\ rest' = Behind(line, " ")
  /\ at' = "arguments"
  /\ UNCHANGED <<file, ln, token_list, nums, var_list, obuf>>

(* Mutant of OpenString: a ',' in a string is not looked for.              *)
OpenStringNever(word) == FALSE

(* A string literal with a ',' in it, as the code recognises one.          *)
OpenString(word) == Head(word) = "\"" /\ Last(word) # "\""

Joined(word, more) == word \o <<",">> \o Before(more, "\"") \o <<"\"">>

(* at(0) of an empty argument throws out_of_range, which nobody catches;   *)
(* an unterminated string throws a MisException.                           *)
Argument ==
  LET word == ltrim(Before(rest, ","))
      more == Behind(rest, ",") IN
  /\ at = "arguments" /\ rest # <<>>
  /\ \/ word = <<>> /\ End("died") /\ UNCHANGED tokens
     \/ /\ word # <<>> /\ ~OpenString(word)
        /\ tokens' = Append(tokens, rtrim(word))
        /\ rest' = more
        /\ UNCHANGED <<file, at, ln>>
     \/ /\ word # <<>> /\ OpenString(word) /\ Contains(more, "\"")
        /\ tokens' = Append(tokens, rtrim(Joined(word, more)))
        /\ rest' = Behind(more, "\"")
        /\ UNCHANGED <<file, at, ln>>
     \/ /\ word # <<>> /\ OpenString(word) /\ ~Contains(more, "\"")
        /\ End("error") /\ UNCHANGED tokens
  /\ UNCHANGED <<token_list, nums, var_list, obuf>>

(* Mutant of EndLine: the line number counts the lines kept.               *)
EndLineRenumbered ==
  /\ at = "arguments" /\ rest = <<>>
  /\ token_list' = Append(token_list, tokens)
  /\ nums' = Append(nums, Len(nums))
  /\ at' = "lines" /\ ln' = ln + 1
  /\ UNCHANGED <<file, rest, tokens, var_list, obuf>>

EndLine ==
  /\ at = "arguments" /\ rest = <<>>
  /\ token_list' = Append(token_list, tokens)
  /\ nums' = Append(nums, ln)
  /\ at' = "lines" /\ ln' = ln + 1
  /\ UNCHANGED <<file, rest, tokens, var_list, obuf>>

EndFile ==
  /\ at = "lines" /\ ln = Len(file)
  /\ at' = "parse" /\ ln' = 0
  /\ UNCHANGED <<file, rest, tokens, token_list, nums, var_list, obuf>>

-----------------------------------------------------------------------------
(* Literals.  What a word means is the set of the values it may give: none *)
(* if a MisException refuses it.  A number is kept as the text to_string   *)
(* makes of it.                                                            *)


(* No token is empty: only a "\r" inside a line, which at() would refuse,  *)
(* would give one.                                                         *)
Quoted(w, quote) == w # <<>> /\ w[1] = quote /\ Last(w) = quote
OneLine(w) == ToSet(w) \cap {"\n", "\r"} = {}

(* trimQuotes of a lone quote is the empty word: last - 1 wraps around.    *)
trimQuotes(w) == SubSeq(w, 2, Len(w) - 1)

Whole(w) ==
  LET i == SelectInSeq(w, LAMBDA d : d # "0")
  IN IF i = 0 THEN <<"0">> ELSE SubSeq(w, i, Len(w))
Fraction(w) ==
  SubSeq(w \o <<"0", "0", "0", "0", "0", "0">>, 1, 6)
Decimal(w) == Whole(Before(w, ".")) \o <<".">> \o Fraction(Behind(w, "."))

Val(type, text) == [type |-> type, text |-> text]

(* stoll throws out_of_range for what may not fit; stod always fits here.  *)
stoll(w) == IF Len(Whole(w)) <= MaxDigits THEN {Whole(w)} ELSE {}
stod(w) == {Decimal(w)}

(* VarString from a text: checkSize.                                       *)
SetString(text, size) == IF Len(text) < size THEN {Val("STRING", text)} ELSE {}

(* The reader of constants: the expressions of Parse::checkConstType, "."  *)
(* of which matches no end of line.                                        *)
rgx_int(w) == w # <<>> /\ \A i \in 1..Len(w) : w[i] \in DOMAIN Digits
rgx_double(w) ==
  /\ Len(w) > 1
  /\ \E i \in 1..Len(w) : w[i] = "." /\ \A j \in 1..Len(w) \ {i} : w[j] \in DOMAIN Digits
rgx_char(w) == Len(w) = 3 /\ Quoted(w, "'") /\ OneLine(w)
rgx_string(w) == Len(w) > 1 /\ Quoted(w, "\"") /\ OneLine(w)

(* A token is trimmed already, so match_word is the word itself; and no    *)
(* word matches two of the expressions.                                    *)
checkConstType(w) ==
  CASE rgx_int(w) -> {Val("NUMERIC", n) : n \in stoll(w)}
    [] rgx_double(w) -> {Val("REAL", r) : r \in stod(w)}
    [] rgx_char(w) -> {Val("CHAR", SubSeq(trimQuotes(w), 1, 1))}
    [] rgx_string(w) -> SetString(trimQuotes(w), MaxString)
    [] OTHER -> {}

(* The reader of declarations: the expressions of Variable.cpp, and the    *)
(* setters of each type from a word.                                       *)
checkInt(w) == Len(w) > 0 /\ ToSet(w) \subseteq DOMAIN Digits

(* Mutant of checkDouble: digits are wanted before the point.              *)
checkDoubleWhole(w) ==
  /\ Len(w) > 1 /\ w[1] # "."
  /\ \E i \in 1..Len(w) : w[i] = "." /\ \A j \in 1..Len(w) \ {i} : w[j] \in DOMAIN Digits

checkDouble(w) ==
  \E i \in 1..Len(w) :
    /\ w[i] = "." /\ (i > 1 \/ i < Len(w))
    /\ \A j \in 1..i - 1 : w[j] \in DOMAIN Digits
    /\ \A j \in i + 1..Len(w) : w[j] \in DOMAIN Digits
checkChar(w) == Len(w) = 1 /\ OneLine(w)

SetInt(w) == IF checkInt(w) THEN {Val("NUMERIC", n) : n \in stoll(w)} ELSE {}
SetDouble(w) == IF checkDouble(w) THEN {Val("REAL", r) : r \in stod(w)} ELSE {}

(* An escape, of which an unknown one leaves m_value as the allocator left *)
(* it, or any one character.                                               *)
SetChar(w) ==
  CASE Len(w) = 2 /\ w[1] = "\\" ->
         {Val("CHAR", <<c>>) : c \in CASE w[2] = "t" -> {"\t"} [] w[2] = "n" -> {"\n"}
                                       [] w[2] = "r" -> {"\r"} [] OTHER -> Garbage}
    [] checkChar(w) -> {Val("CHAR", w)}
    [] OTHER -> {}

(* The value of a declaration of a variable with the given type.           *)
Declared(type, w) ==
  CASE type = <<"NUMERIC">> -> SetInt(w)
    [] type = <<"REAL">> -> SetDouble(w)
    [] type = <<"CHAR">> /\ Quoted(w, "'") -> SetChar(trimQuotes(w))
    [] type = <<"STRING">> /\ Quoted(w, "\"") -> SetString(trimQuotes(w), MaxString)
    [] OTHER -> {}

(* stoi reads the digits at the front of a word.                           *)
Leading(w) ==
  LET i == SelectInSeq(w, LAMBDA c : c \notin DOMAIN Digits)
  IN IF i = 0 THEN w ELSE SubSeq(w, 1, i - 1)
stoi(w) == FoldLeft(LAMBDA n, d : 10 * n + Digits[d], 0, Leading(w))

(* stoi throws out_of_range for more than an int, which nobody catches.    *)
TooBig(w) == Len(Leading(w)) > 0 /\ Len(Whole(Leading(w))) > MaxIntDigits
DeclaredSized(w, value) ==
  IF Leading(w) = <<>> \/ stoi(w) > MaxString \/ ~Quoted(value, "\"") THEN {}
  ELSE SetString(trimQuotes(value), stoi(w))

-----------------------------------------------------------------------------
(* Parsing a VAR or an OUT line, and executing OUT.                        *)

Line == token_list[ln + 1]
Going(phase) == at = phase /\ ln < Len(token_list)

parseVariable ==
  LET syntax == Len(Line) \in {4, 5} /\ Head(Line[2]) \in Dollars
      sized == Len(Line) = 5 /\ Line[3] = <<"STRING">>
      fatal == syntax /\ sized /\ TooBig(Line[4])
      new == IF sized THEN DeclaredSized(Line[4], Line[5])
             ELSE Declared(Line[3], Line[4])
      good == syntax /\ new # {} /\ Line[2] \notin DOMAIN var_list IN
  /\ Going("parse") /\ Line[1] = <<"VAR">>
  /\ IF fatal THEN End("died") /\ UNCHANGED var_list
     ELSE IF good
       THEN /\ \E v \in new : var_list' = [n \in DOMAIN var_list \cup {Line[2]} |->
                                           IF n = Line[2] THEN v ELSE var_list[n]]
            /\ ln' = ln + 1 /\ UNCHANGED <<file, at, rest>>
       ELSE End("error") /\ UNCHANGED var_list
  /\ UNCHANGED <<tokens, token_list, nums, obuf>>

checkAllCaps(w) == ToSet(w) \subseteq Capitals

(* An argument of OUT: a variable, a label (refused), or a constant.       *)
Operand(w) ==
  CASE Head(w) \in Dollars -> IF w \in DOMAIN var_list THEN {var_list[w]} ELSE {}
    [] checkAllCaps(w) -> {}
    [] OTHER -> checkConstType(w)

parseInstruction ==
  /\ Going("parse") /\ Line[1] # <<"VAR">>
  /\ IF Line[1] = <<"OUT">> /\ \A i \in 2..Len(Line) : Operand(Line[i]) # {}
       THEN ln' = ln + 1 /\ UNCHANGED <<file, at, rest>>
       ELSE End("error")
  /\ UNCHANGED <<tokens, token_list, nums, var_list, obuf>>

EndParse ==
  /\ at = "parse" /\ ln = Len(token_list)
  /\ at' = "run" /\ ln' = 0
  /\ UNCHANGED <<file, rest, tokens, token_list, nums, var_list, obuf>>

Escapes == [n |-> "\n", r |-> "\r", t |-> "\t"]

(* Mutant of Unescaped: ++i is forgotten after an escape.                  *)
UnescapedTwice(s) ==
  LET from[i \in 1..Len(s) + 2] ==
        IF i > Len(s) THEN <<>>
        ELSE IF s[i] # "\\" \/ i = Len(s) THEN <<s[i]>> \o from[i + 1]
        ELSE IF s[i + 1] = "\\" THEN <<"\\">> \o from[i + 1]
        ELSE IF s[i + 1] \in DOMAIN Escapes THEN <<Escapes[s[i + 1]]>> \o from[i + 1]
        ELSE <<"invalid">>
  IN from[1]

(* VarString::toString, up to the first invalid escape.                    *)
Unescaped(s) ==
  LET from[i \in 1..Len(s) + 2] ==
        IF i > Len(s) THEN <<>>
        ELSE IF s[i] # "\\" \/ i = Len(s) THEN <<s[i]>> \o from[i + 1]
        ELSE IF s[i + 1] = "\\" THEN <<"\\">> \o from[i + 2]
        ELSE IF s[i + 1] \in DOMAIN Escapes THEN <<Escapes[s[i + 1]]>> \o from[i + 2]
        ELSE <<"invalid">>
  IN from[1]

toString(v) == IF v.type = "STRING" THEN Unescaped(v.text) ELSE v.text

(* OUT throws its arguments to execute(), whose handler appends them one   *)
(* by one.  An invalid escape leaves the handler as a MisException: what   *)
(* precedes it is printed, and the error has no line.                      *)
Out ==
  /\ Going("run")
  /\ IF Line[1] = <<"VAR">> THEN
       ln' = ln + 1 /\ UNCHANGED <<file, at, rest, obuf>>
     ELSE
     LET texts == [i \in 1..Len(Line) - 1 |->
                     toString(CHOOSE v \in Operand(Line[i + 1]) : TRUE)]
         bad == SelectInSeq(texts, LAMBDA s : Contains(s, "invalid")) IN
     IF Len(texts) \in 1..12 /\ bad = 0
       THEN obuf' = obuf \o texts /\ ln' = ln + 1 /\ UNCHANGED <<file, at, rest>>
       ELSE obuf' = obuf \o SubSeq(texts, 1, bad - 1) /\ End("error")
  /\ UNCHANGED <<tokens, token_list, nums, var_list>>

EndRun ==
  /\ at = "run" /\ ln = Len(token_list)
  /\ at' = "done"
  /\ UNCHANGED <<file, ln, rest, tokens, token_list, nums, var_list, obuf>>

Next ==
  \/ SkipLine \/ Opcode \/ Argument \/ EndLine \/ EndFile
  \/ parseVariable \/ parseInstruction \/ EndParse \/ Out \/ EndRun

Spec == Init /\ [][Next]_vars

-----------------------------------------------------------------------------
(* A line as its author means it: after the opcode the arguments, without  *)
(* the blanks around them, cut at the commas that are in no literal.  A    *)
(* quote opens a literal if another one closes it, and that of a CHAR has  *)
(* something in between.                                                   *)
OpcodeOf(line) == ltrim(rtrim(Before(ltrim(rtrim(line)), " ")))
Written(line) == Behind(ltrim(rtrim(line)), " ")
Closing(s, i) ==
  LET closing == {j \in i + 1..Len(s) : s[j] = s[i] /\ (s[i] = "'" => j > i + 1)}
  IN IF s[i] \in {"\"", "'"} /\ closing # {} THEN Min(closing) ELSE i
Cuts(s) ==
  LET from[i \in 1..Len(s) + 1] ==
        IF i > Len(s) THEN {i}
        ELSE IF s[i] = "," THEN {i} \cup from[i + 1] ELSE from[Closing(s, i) + 1]
  IN {0} \cup from[1]
Pieces(s) ==
  LET cuts == SetToSortSeq(Cuts(s), <)
      all == [i \in 1..Len(cuts) - 1 |-> SubSeq(s, cuts[i] + 1, cuts[i + 1] - 1)]
  IN IF all # <<>> /\ Last(all) = <<>> THEN Front(all) ELSE all
Arguments(line) ==
  LET p == Pieces(Written(line)) IN [i \in 1..Len(p) |-> ltrim(rtrim(p[i]))]

(* What tokenize can cope with: no argument is empty; a CHAR literal has   *)
(* no comma in it (',' is cut in two); a STRING literal is followed at     *)
(* once, without even a blank, by its comma or the end of the line; if it  *)
(* has commas inside it is the last argument and does not begin with one.  *)
PlainString(w) ==
  Len(w) > 1 /\ Quoted(w, "\"") /\ ~Contains(trimQuotes(w), "\"")
PlainChar(w) == Len(w) \in 3..4 /\ Quoted(w, "'") /\ ~Contains(w, ",")
Plain(line) ==
  LET p == Pieces(Written(line)) IN
  \A i \in 1..Len(p) :
    LET w == ltrim(p[i]) IN
    /\ w # <<>>
    /\ \/ /\ PlainString(w)
          /\ Contains(w, ",") =>
               i = Len(p) /\ w[2] # "," /\ Last(Written(line)) = "\""
       \/ PlainChar(rtrim(w))
       \/ ToSet(w) \cap {"\"", "'"} = {}

(* tokenize delivers the arguments its author wrote, and no such line is   *)
(* refused or ends the server, whatever commas, blanks and backslashes are *)
(* in it (Parse.cpp:207-235).                                              *)
TokensAreArguments ==
  /\ \A k \in 1..Len(token_list) :
       LET line == file[nums[k] + 1] IN
       Plain(line) => Tail(token_list[k]) = Arguments(line)
  /\ at \in {"error", "died"} /\ ln >= Len(token_list) => ~Plain(file[ln + 1])

(* A text as it is spelled in a literal.                                   *)
Spelling(text) ==
  FlattenSeq([i \in 1..Len(text) |->
    CASE text[i] = "\n" -> <<"\\", "n">> [] text[i] = "\t" -> <<"\\", "t">>
      [] text[i] = "\r" -> <<"\\", "r">> [] text[i] = "\\" -> <<"\\", "\\">>
      [] OTHER -> <<text[i]>>])
Zeros(n) == [i \in 1..n |-> "0"]

(* text is what a literal says: between the quotes stands its spelling, in *)
(* which a last backslash need not be doubled; a number differs from it in *)
(* zeros only.  An unknown escape says nothing of a CHAR.                  *)
Says(literal, text) ==
  CASE Head(literal) \in {"\"", "'"} ->
         LET inner == trimQuotes(literal) IN
         \/ Spelling(text) \in {inner, inner \o <<"\\">>}
         \/ /\ Head(literal) = "'" /\ Len(inner) = 2
            /\ inner[2] \notin DOMAIN Escapes /\ Len(text) = 1
    [] OTHER ->
         \E i, j, k \in 0..7 : Zeros(i) \o literal \o Zeros(j) = Zeros(k) \o text

Literal(word) ==
  IF Head(word) \notin Dollars THEN word
  ELSE LET decls == {l \in ToSet(file) : LET a == Arguments(l) IN Len(a) > 2 /\ a[1] = word}
       IN Last(Arguments(CHOOSE l \in decls : TRUE))

(* A program whose lines are plain prints the text of every argument of    *)
(* every OUT, in order: each literal, also one that went through a         *)
(* variable, means what is written (Parse.cpp:154-184, Variable.cpp:234,   *)
(* 301-323, Program.cpp:119-122).                                          *)
OutLines == SelectSeq(file, LAMBDA l : OpcodeOf(l) = <<"OUT">>)
PrintsWhatIsWritten ==
  at = "done" /\ (\A l \in ToSet(file) : Plain(l)) =>
    LET words == FlattenSeq([k \in 1..Len(OutLines) |-> Arguments(OutLines[k])]) IN
    /\ Len(obuf) = Len(words)
    /\ \A i \in 1..Len(words) : Says(Literal(words[i]), obuf[i])

(* The two readers of literals agree, although each has its own            *)
(* expressions: what is a constant in an instruction can be the initial    *)
(* value of a variable of its type, and, but for a CHAR escape, a lone     *)
(* double quote and a line end in quotes, what can be an initial value is  *)
(* a constant; and its value is the same (Parse.cpp:86-102 and 154-184,    *)
(* Variable.cpp:88-99, 141-150, 189-198, 234-251).                         *)
Types == {"NUMERIC", "REAL", "CHAR", "STRING"}
Escape(w) == Len(w) = 4 /\ w[1] = "'"
LoneQuote(w) == w = <<"\"">>
ReadersAgree ==
  \A l \in ToSet(token_list) : \A i \in 2..Len(l) :
    LET w == l[i] IN
    /\ \A v \in checkConstType(w) : Declared(<<v.type>>, w) = {v}
    /\ OneLine(w) /\ ~Escape(w) /\ ~LoneQuote(w) =>
         \A type \in Types : \A v \in Declared(<<type>>, w) : checkConstType(w) = {v}

(* What the parser takes for granted: lines come in the order of the file, *)
(* each with its opcode and under its own number, although blank lines are *)
(* dropped, and every line that is not blank comes (Server.cpp:74-82).     *)
LinesKeepNumbers ==
  /\ \A k \in 1..Len(nums) :
       /\ Head(token_list[k]) = OpcodeOf(file[nums[k] + 1])
       /\ k > 1 => nums[k - 1] < nums[k]
  /\ at \in {"parse", "run", "done"} =>
       ToSet(nums) = {i \in 0..Len(file) - 1 : ltrim(rtrim(file[i + 1])) # <<>>}
=============================================================================
