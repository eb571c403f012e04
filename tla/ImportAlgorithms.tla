--------------------------- MODULE ImportAlgorithms ---------------------------
(***************************************************************************)
(* The pure parts of the import, over every source of content rows and     *)
(* every body that some alphabets allow.                                   *)
(***************************************************************************)
EXTENDS VersionChain, StorageConverter

CONSTANTS
  MaxVersion,  \* bound on the VERSION column of the source
  Alphabets    \* what bodies are put together from, each with a bound on its length

ASSUME MaxVersionAssumption == MaxVersion \in Nat
ASSUME AlphabetsAssumption == Alphabets \subseteq [length : Nat, letters : SUBSET Bodies]

VARIABLES
  source, plan,   \* a legacy CONTENT table and what importPages makes of it
  letters, body,  \* what a body may still be continued with, and the body
  result          \* what ConvertStorage makes of it

vars == <<source, plan, letters, body, result>>

-----------------------------------------------------------------------------
IsText(letter) == Len(letter) = 1 /\ letter[1].token \in {"word", "wordSpace", "wordMore", "blank", "newline"}

Init ==
  /\ plan = <<>> /\ body = <<>> /\ result = <<>>
  /\ \/ /\ source \in [Contents -> [prev : Contents \cup {0}, version : 0..MaxVersion,
                                    current : BOOLEAN, capital : BOOLEAN]]
        /\ letters = <<>>
     \/ /\ source = <<>>
        /\ letters \in Alphabets

PlanImport ==
  /\ source # <<>> /\ plan = <<>>
  /\ plan' = ImportPlan(source)
  /\ UNCHANGED <<source, letters, body, result>>

\* Character data is one token as far as it goes.
Continue ==
  /\ letters # <<>> /\ letters.length > 0 /\ result = <<>>
  /\ \E letter \in letters.letters :
       /\ ~(body # <<>> /\ IsText(<<Last(body)>>) /\ IsText(letter))
       /\ body' = body \o letter
  /\ letters' = [letters EXCEPT !.length = @ - 1]
  /\ UNCHANGED <<source, plan, result>>

\* The body as it stands, or with the elements closed that it leaves open.
Convert ==
  /\ body # <<>> /\ result = <<>>
  /\ \E closed \in BOOLEAN :
       body' = IF closed THEN body \o [i \in 1..Depth(body, Len(body) + 1) |->
                                         [token |-> "end"]]
                         ELSE body
  /\ result' = ConvertStorage(body')
  /\ UNCHANGED <<source, plan, letters>>

Next == PlanImport \/ Continue \/ Convert

Spec == Init /\ [][Next]_vars

-----------------------------------------------------------------------------
(* Pages and versions                                                      *)

\* No PREVVER link leads into S or out of it.
Closed(S) == \A c \in Contents : source[c].prev # 0 => (c \in S <=> source[c].prev \in S)
SameChain(c, d) == \A S \in SUBSET Contents : Closed(S) => (c \in S <=> d \in S)

\* resolveLogicalPages: two records of a source without forks become versions
\* of one page exactly when PREVVER links connect them, however long the chain
\* and wherever in it the walk starts.
ChainsBecomePages ==
  source # <<>> /\ Linear(source) =>
    \A c, d \in Contents :
      SameChain(c, d) <=> LogicalPage(source, c) = LogicalPage(source, d)

\* importPages: with rising version numbers the record that becomes the page
\* is the end of its chain, has the highest number of the page, and both ways
\* to choose the latest record agree.
PageIsChainEnd ==
  source # <<>> /\ WellVersioned(source) =>
    \A p \in LogicalPages(source) :
      /\ Latest(source, p) = p /\ LatestContent(source, p) = p
      /\ \A c \in Contents : LogicalPage(source, c) = p /\ c # p =>
           VersionOf(source, c) < VersionOf(source, p)

\* importPages fills in missing version numbers (0): as long as the numbers
\* the source does hold differ within a page, no filled-in number collides
\* with another one, and all are positive.
MissingNumbersFilledIn ==
  source # <<>> => \A p \in LogicalPages(source) :
    LET g == Group(source, p) IN
      (\A i, j \in DOMAIN g : i # j /\ source[g[i]].version = source[g[j]].version
                               => source[g[i]].version = 0)
      => /\ \A i \in DOMAIN g : Numbers(source, p)[i] >= 1
         /\ IsInjective(Numbers(source, p))

\* The import plan holds every record exactly once, whatever the links
\* (forks, cycles, links to itself), and a page's record before its versions.
PlanIsComplete ==
  plan # <<>> =>
    /\ Len(plan) = Cardinality(Contents) /\ ToSet(plan) = Contents
    /\ \A i, j \in DOMAIN plan :
         plan[i] = Latest(source, LogicalPage(source, plan[j])) => i <= j

-----------------------------------------------------------------------------
(* Texts and macros                                                        *)

Converted == result # <<>>

Positions == [i \in DOMAIN body |-> i]
TokensOf(kinds) == Selected(Positions, {i \in DOMAIN body : body[i].token \in kinds})
IsEmoticon(tok) == tok.token = "start" /\ tok.type = "emoticon"
Text == {"word", "wordSpace", "wordMore"}
Cdata == {"cdata", "cdataMore"}
WordTokens ==
  Selected(Positions, {i \in DOMAIN body : \/ body[i].token \in Text \cup Cdata
                                           \/ IsEmoticon(body[i])})

\* ConvertStorage: the text for the search has every word of the body once and
\* in order, however elements nest.  A body the decoder rejects has one warning
\* and all its words, also the ones after the fault, unless it has a CDATA
\* section or a raw < (see FallbackKeepsText).
WordsKept ==
  Converted =>
    /\ WellFormed(body) => Words(result.text) = WordTokens
    /\ ~WellFormed(body) /\ TokensOf(Cdata \cup {"less"}) = <<>> =>
         Words(result.text) = TokensOf(Text)
    /\ result.warnings = IF WellFormed(body) THEN 0 ELSE 1

\* Claimed by converter_test.go (a malformed body falls back without dropping
\* text): the words of a body the decoder rejects are all in the text.
FallbackKeepsText ==
  Converted /\ ~WellFormed(body) =>
    ToSet(TokensOf(Text \cup Cdata)) \subseteq ToSet(result.text)

TreeOf == Parsed(body).nodes
\* n and the nodes around it.
Around(n) ==
  LET around[m \in DOMAIN TreeOf] ==
        {m} \cup (IF m = 1 THEN {} ELSE around[TreeOf[m].parent])
  IN around[n]
NodeOf(word) == CHOOSE n \in DOMAIN TreeOf : word \in ToSet(TreeOf[n].text)

\* Two words, one after the other, are to be kept apart: white space lies
\* between them, or the second is in a block that does not hold the first, and
\* everything around that block holds both.
Apart(v, w) ==
  LET m == NodeOf(v)
      n == NodeOf(w)
      shared == Max(Around(m) \cap Around(n))
      branch == CHOOSE c \in Around(n) : TreeOf[c].parent = shared
  IN \/ TreeOf[branch].type \in BlockTypes
     \/ \E b \in m..(n - 1) : Space \in ToSet(TreeOf[b].text)

\* extractText: the words of neighbouring blocks do not run together, and no
\* word is broken up by the marks and elements inside it.
WordsSeparated ==
  Converted /\ WellFormed(body) =>
    \A i \in 1..(Len(result.text) - 1) : result.text[i] # Space =>
      IF result.text[i + 1] # Space THEN ~Apart(result.text[i], result.text[i + 1])
      ELSE Apart(result.text[i], result.text[i + 2])

\* editorChildren and editorMacro: the editor's document shows the words the
\* search finds, in the same order, in no empty text node but that of an empty
\* code macro.
EditorShowsText ==
  Converted =>
    /\ Words(FlattenSeq(result.editor)) = Words(result.text)
    /\ <<>> \in ToSet(result.editor) =>
         \E n \in DOMAIN TreeOf :
           /\ TreeOf[n].type = "macro" /\ TreeOf[n].name = "code"
           /\ normalizeText(extractText(TreeOf)[n]) = <<>>

\* The tags of a type that are read, up to the first fault.
ReadTags(type) ==
  {i \in DOMAIN Accepted(body) : body[i].token = "start" /\ body[i].type = type}

\* startNode, dedupeMacros and dedupeLinks: the uses reported for the exceptions
\* and the macro inventory are those of the tags up to the first fault, nested
\* ones too; each macro is counted as often as it is there, those without a
\* name as unknown, a page and an address of the same name are two links, and
\* nothing else is reported.
UsesReported ==
  Converted =>
    LET name(i) == IF body[i].name = "" THEN "unknown" ELSE body[i].name
        targets(type) == {body[i].name : i \in ReadTags(type)} \ {""}
    IN /\ result.macros = [m \in {name(i) : i \in ReadTags("macro")} |->
                             Cardinality({i \in ReadTags("macro") : name(i) = m})]
       /\ result.links = [type : {"PAGE"}, target : targets("pageReference")]
                           \cup [type : {"URL"}, target : targets("link")]
=============================================================================
