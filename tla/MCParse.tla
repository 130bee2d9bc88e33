------------------------------- MODULE MCParse -------------------------------
(* All files of at most MaxLines of the lines below, and longer ones made  *)
(* of fewer kinds of lines.                                                *)
EXTENDS Parse

CONSTANTS MaxLines, MaxPlainLines

Tok(kind, name) == [kind |-> kind, name |-> name]
L(op, args) == [num |-> 0, op |-> op, args |-> args, decl |-> "refused"]
Var(name, decl) == [num |-> 0, op |-> "VAR", args |-> <<Tok("var", name)>>,
                    decl |-> decl]

LineKinds ==
  {Var("a", "good"), Var("b", "good"), Var("a", "refused"), Var("a", "dies"),
   L("LABEL", <<Tok("label", "a")>>), L("LABEL", <<Tok("label", "b")>>),
   L("LABEL", <<>>),
   L("JMP", <<Tok("label", "a")>>),
   L("JMP", <<Tok("label", "b"), Tok("var", "a"), Tok("const", "a")>>),
   L("JMP", <<Tok("const", "a")>>),
   L("INS", <<Tok("var", "a"), Tok("const", "a")>>), L("INS", <<>>),
   L("INS", <<Tok("label", "a")>>), L("INS", <<Tok("junk", "a")>>),
   L("bad", <<>>)}

(* Lines are numbered as in the file, where every other line is empty.     *)
Numbered(ls) == [i \in 1..Len(ls) |-> [ls[i] EXCEPT !.num = 2 * i - 2]]
FilesOf(kinds, max) ==
  UNION {{Numbered(ls) : ls \in [1..n -> kinds]} : n \in 0..max}

(* Lines of which correct programs with jumps in both directions are made. *)
PlainKinds ==
  {Var("a", "good"), L("LABEL", <<Tok("label", "a")>>),
   L("LABEL", <<Tok("label", "b")>>), L("JMP", <<Tok("label", "a")>>),
   L("JMP", <<Tok("label", "b"), Tok("var", "a"), Tok("const", "a")>>),
   L("INS", <<>>)}

AllFiles == FilesOf(LineKinds, MaxLines) \cup FilesOf(PlainKinds, MaxPlainLines)
=============================================================================
