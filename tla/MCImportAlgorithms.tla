-------------------------- MODULE MCImportAlgorithms --------------------------
(***************************************************************************)
(* The order of the ids as strings, and the alphabets of the bodies.       *)
(***************************************************************************)
EXTENDS ImportAlgorithms

Lexicographic == {<<10, 11>>, <<10, 9>>, <<11, 9>>}

Chars(token) == <<[token |-> token]>>
Open(type, name) == <<[token |-> "start", type |-> type, name |-> name]>>
Close == Chars("end")
Void(type, name) == Open(type, name) \o Close

\* Nesting of blocks and others; macros; elements without content; references;
\* rejected input.
BodyAlphabets == {
  [length |-> 6, letters |-> {Open("paragraph", ""), Open("bulletList", ""),
     Open("strong", ""), Close, Chars("word"), Chars("wordSpace")}],
  [length |-> 5, letters |-> {Open("macro", "code"), Open("macro", "info"),
     Open("macroParameter", "language"), Open("macroBody", ""), Open("paragraph", ""),
     Close, Chars("word")}],
  [length |-> 5, letters |-> {Open("container", ""), Close, Chars("word"), Chars("blank"),
     Chars("blank") \o Chars("word"), Chars("newline"), Void("emoticon", ""), Void("hardBreak", ""),
     Void("userReference", "U")}],
  [length |-> 4, letters |-> {Open("link", "T"), Open("link", ""), Void("pageReference", "T"),
     Void("pageReference", ""), Open("macro", ""), Open("macro", "unknown"), Close,
     Chars("wordMore")}],
  [length |-> 4, letters |-> {Open("paragraph", ""), Open("macro", "code"), Close,
     Chars("wordSpace"), Chars("wordMore"), Chars("cdata"), Chars("cdataMore"),
     Chars("mismatch"), Chars("entity"), Chars("less")}]}
=============================================================================
