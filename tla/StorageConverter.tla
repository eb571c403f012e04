--------------------------- MODULE StorageConverter ---------------------------
(***************************************************************************)
(* ConvertStorage: from the storage XHTML of a Confluence page to the text *)
(* for the search, the document of the editor, and the macros and links it *)
(* uses.                                                                   *)
(*                                                                         *)
(* A body is a sequence of tokens.  "start" opens an element, named by the *)
(* node it becomes; "end" closes the innermost one.  Character data is a   *)
(* "word", a word with a space ("wordSpace") or a raw > ("wordMore") after *)
(* it, spaces only ("blank"), white space with a line break only           *)
(* ("newline"), or a word in a CDATA section ("cdata", with a > before the *)
(* word "cdataMore"); any other text is several of these tokens, as one    *)
(* that begins with a space is a blank and a word.  The decoder of         *)
(* encoding/xml rejects an end tag that does not match ("mismatch"), an    *)
(* HTML entity like &nbsp; ("entity") and a raw < with a space after it    *)
(* ("less").  In a text, a word is the position of its token and 0 is      *)
(* white space; brackets that stay in it are not written down.             *)
(***************************************************************************)
EXTENDS Integers, Sequences, SequencesExt, Selections

Space == 0
Label == -1       \* the name of a macro in front of its body
Reference == -2   \* what the editor shows of a page or user that is referred to

Words(text) == Selected(text, Nat \ {Space})

BlockTypes == {"paragraph", "heading", "listItem", "codeBlock", "blockquote",
               "tableRow", "macro"}
VoidTypes == {"hardBreak", "horizontalRule"}
ElementTypes == BlockTypes \cup VoidTypes \cup
  {"bulletList", "orderedList", "strong", "emphasis", "underline", "strike", "inlineCode",
   "table", "tableHeader", "tableCell", "container", "link", "macroParameter", "macroBody",
   "pageReference", "userReference", "emoticon"}

Tokens ==
  [token : {"end", "word", "wordSpace", "wordMore", "blank", "newline", "cdata", "cdataMore",
            "mismatch", "entity", "less"}]
    \cup [token : {"start"}, type : ElementTypes, name : STRING]

\* Elements that the storage format knows without content: br, hr, ri:page,
\* ri:user and ac:emoticon.
Contentless == VoidTypes \cup {"pageReference", "userReference", "emoticon"}
IsContentless(tok) == tok.token = "start" /\ tok.type \in Contentless
Bodies ==
  {body \in Seq(Tokens) :
     \A i \in DOMAIN body : IsContentless(body[i]) =>
       i + 1 \in DOMAIN body /\ body[i + 1].token = "end"}

-----------------------------------------------------------------------------
(* The loop over the tokens: nodes in the order they are made, each with   *)
(* its parent; the first one is the document.                              *)

Node(type, text, name, parent) ==
  [type |-> type, text |-> text, name |-> name, parent |-> parent]

Document == Node("document", <<>>, "", 0)

\* The name of a macro; one without a name is unknown.
MacroName(tok) == IF tok.name = "" THEN "unknown" ELSE tok.name

\* An emoticon becomes a text of its own, the word of its token.
startNode(tok, i, parent) ==
  CASE tok.type = "emoticon" -> Node("text", <<i>>, "", parent)
    [] tok.type = "macro" -> Node("macro", <<>>, MacroName(tok), parent)
    [] OTHER -> Node(tok.type, <<>>, tok.name, parent)

\* What an element refers to: the address of an <a>, the page of an ri:page.
LinkTypes == [link |-> "URL", pageReference |-> "PAGE"]

\* CharData: white space is left out if it holds a line break.
CharData(tok, i) ==
  CASE tok.token \in {"word", "wordMore", "cdata", "cdataMore"} -> <<i>>
    [] tok.token = "wordSpace" -> <<i, Space>>
    [] tok.token = "blank" -> <<Space>>
    [] OTHER -> <<>>

Start == [nodes |-> <<Document>>, stack |-> <<1>>, macros |-> <<>>, links |-> <<>>]

Read(s, tok, i) ==
  CASE tok.token = "start" ->
         [nodes |-> Append(s.nodes, startNode(tok, i, Last(s.stack))),
          stack |-> Append(s.stack, Len(s.nodes) + 1),
          macros |-> IF tok.type = "macro" THEN Append(s.macros, MacroName(tok)) ELSE s.macros,
          links |-> IF tok.type \in DOMAIN LinkTypes
                      THEN Append(s.links, [type |-> LinkTypes[tok.type], target |-> tok.name])
                      ELSE s.links]
    [] tok.token = "end" -> [s EXCEPT !.stack = Front(@)]
    [] CharData(tok, i) # <<>> ->
         [s EXCEPT !.nodes = Append(@, Node("text", CharData(tok, i), "", Last(s.stack)))]
    [] OTHER -> s

\* The elements open before token i.
Depth(body, i) ==
  LET depth[j \in 1..i] ==
        IF j = 1 THEN 0
        ELSE depth[j - 1] + (CASE body[j - 1].token = "start" -> 1
                               [] body[j - 1].token = "end" -> -1
                               [] OTHER -> 0)
  IN depth[i]

Faults == {"mismatch", "entity", "less"}

\* Where the decoder gives up: at a fault, at an end with nothing to close, or
\* after the last token if an element is still open.
Rejected(body) ==
  {i \in DOMAIN body : \/ body[i].token \in Faults
                       \/ body[i].token = "end" /\ Depth(body, i) = 0}
    \cup (IF Depth(body, Len(body) + 1) # 0 THEN {Len(body) + 1} ELSE {})
WellFormed(body) == Rejected(body) = {}

\* The tokens the loop reads before it ends.
Accepted(body) ==
  IF WellFormed(body) THEN body ELSE SubSeq(body, 1, Min(Rejected(body)) - 1)

Parsed(body) ==
  LET tokens == Accepted(body)
      read[i \in 0..Len(tokens)] ==
        IF i = 0 THEN Start ELSE Read(read[i - 1], tokens[i], i)
  IN read[Len(tokens)]

-----------------------------------------------------------------------------
(* Texts                                                                   *)

normalizeText(text) ==
  LET collapsed == FoldLeft(LAMBDA b, x : IF x = Space /\ (b = <<>> \/ Last(b) = Space)
                                            THEN b ELSE Append(b, x), <<>>, text)
  IN IF collapsed # <<>> /\ Last(collapsed) = Space THEN Front(collapsed) ELSE collapsed

\* Mutant: the text up to the fault only.
FallbackSoFar(body) ==
  normalizeText(FlattenSeq([i \in DOMAIN Accepted(body) |->
    IF body[i].token \in {"word", "wordMore", "wordSpace"} THEN <<i, Space>> ELSE <<Space>>]))

\* tagStripper, <[^>]+>: the tokens that have a >, and those in front of which
\* a raw < is still waiting for one.
Tags == {"start", "end", "mismatch", "cdata"}
Closing == Tags \cup {"cdataMore", "wordMore"}
Swallowed(body, i) ==
  \E j \in 1..(i - 1), k \in i..Len(body) :
    /\ body[j].token = "less" /\ body[k].token \in Closing
    /\ \A m \in j..(k - 1) : body[m].token \notin Closing

\* Whatever is between a < and the next > becomes a space: tags, the words of
\* CDATA sections up to a > of their own, and any text after a raw <.
Fallback(body) ==
  normalizeText(FlattenSeq([i \in DOMAIN body |->
    CASE body[i].token = "cdataMore" -> <<Space, i>>
      [] body[i].token \in {"word", "wordMore", "wordSpace"} /\ ~Swallowed(body, i) ->
           CharData(body[i], i)
      [] OTHER -> <<Space>>]))

\* The nodes that are converted: after an error one paragraph with all text.
Nodes(body) ==
  IF WellFormed(body) THEN Parsed(body).nodes
  ELSE <<Document, Node("paragraph", <<>>, "", 1), Node("text", Fallback(body), "", 2)>>

NodeIds(nodes) == [c \in DOMAIN nodes |-> c]

\* Mutant: no break between blocks.
JoinedPlain(nodes, text, c) == text

\* A block that is not the first to have text begins on a line of its own.
Joined(nodes, text, c) ==
  IF text # <<>> /\ nodes[c].type \in BlockTypes THEN Append(text, Space) ELSE text

extractText(nodes) ==
  LET extract[n \in DOMAIN nodes] ==
        IF nodes[n].type = "text" THEN nodes[n].text
        ELSE FoldLeft(LAMBDA b, c : IF nodes[c].parent # n \/ extract[c] = <<>> THEN b
                                    ELSE Joined(nodes, b, c) \o extract[c],
                      <<>>, NodeIds(nodes))
  IN extract

\* Mutant: an element without a node type of its own is left out.
NotShownContainers == VoidTypes \cup {"container", "macroBody", "macroParameter"}
NotShown == VoidTypes

\* The text nodes of the editor's document in reading order; an element that
\* becomes a node or a mark only groups them.  A code macro loses its name.
editorChildren(nodes) ==
  LET extracted == extractText(nodes)
      macro(n) == LET body == normalizeText(extracted[n])
                  IN IF nodes[n].name = "code" THEN body
                     ELSE IF body = <<>> THEN <<Label>> ELSE <<Label, Space>> \o body
      shown[n \in DOMAIN nodes] ==
        CASE nodes[n].type = "text" -> IF nodes[n].text = <<>> THEN <<>> ELSE <<nodes[n].text>>
          [] nodes[n].type = "macro" -> <<macro(n)>>
          [] nodes[n].type \in {"pageReference", "userReference"} -> <<<<Reference>>>>
          [] nodes[n].type \in NotShown -> <<>>
          [] OTHER -> FlattenSeq([c \in DOMAIN nodes |->
                                   IF nodes[c].parent = n THEN shown[c] ELSE <<>>])
  IN shown[1]

-----------------------------------------------------------------------------
(* Macros and links                                                        *)

\* Mutant: an occurrence replaces the one before it.
dedupeMacrosLast(macros) == [name \in ToSet(macros) |-> 1]

dedupeMacros(macros) ==
  FoldLeft(LAMBDA m, name :
             [x \in DOMAIN m \cup {name} |->
                (IF x \in DOMAIN m THEN m[x] ELSE 0) + (IF x = name THEN 1 ELSE 0)],
           <<>>, macros)

dedupeLinks(links) == {link \in ToSet(links) : link.target # ""}

ConvertStorage(body) ==
  [text     |-> normalizeText(extractText(Nodes(body))[1]),
   editor   |-> editorChildren(Nodes(body)),
   macros   |-> dedupeMacros(Parsed(body).macros),
   links    |-> dedupeLinks(Parsed(body).links),
   warnings |-> IF WellFormed(body) THEN 0 ELSE 1]
=============================================================================
