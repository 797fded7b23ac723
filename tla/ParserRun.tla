------------------------------ MODULE ParserRun ------------------------------
(***************************************************************************)
(* Parsing a module: one declaration after another, each put in the list of *)
(* its kind, until the end of the source (ParserParseModule and what it     *)
(* calls in src/src/Parse/Parser.c), and what the parser promises.          *)
(***************************************************************************)
EXTENDS Printer
LOCAL INSTANCE SequencesExt
LOCAL INSTANCE FiniteSetsExt

CONSTANT Sources     \* of each, [tokens, decls, kept]: what is written; its declarations, or
                     \* Null where it is no program; a declaration that must be found, or Null

VARIABLES written,   \* the source that is parsed
          parser,    \* where the parser is
          decls      \* the declarations found, in order: [list, node]

parserVars == <<source, written, parser, decls>>

-----------------------------------------------------------------------------
\* Top-level declarations.

\* The list of the module a declaration goes to.
ListOf(n) ==
  CASE n.k = "alias"             -> "struct"
    [] n.k \notin {"alias", "function"} -> n.k
    [] n.signature.isDelegate    -> "delegate"
    [] ~n.signature.isDelegate /\ Contains(n.signature.attributes, "meta") -> "meta function"
    [] OTHER                     -> "function"

\* A bug: what is left of a declaration that failed is read as another.
FoundUnskipped(r) ==
  /\ parser' = r.p
  /\ decls' = IF Failed(r) THEN decls ELSE Append(decls, [list |-> ListOf(r.node), node |-> r.node])
  /\ UNCHANGED <<source, written>>

\* One declaration was read: it is listed, or what is left of it skipped.
Found(r) ==
  /\ parser' = IF Failed(r) THEN Synchronize(r.p) ELSE r.p
  /\ decls' = IF Failed(r) THEN decls ELSE Append(decls, [list |-> ListOf(r.node), node |-> r.node])
  /\ UNCHANGED <<source, written>>

ParseAttributed     == At(parser, "@") /\ Found(Declare("attributed", parser))
ParseTopLevelImport == At(parser, "import") /\ Found(Declare("import", parser))
ParseTopLevelHandle == AtHandleDecl(parser) /\ Found(Declare("handle", parser))
ParseTopLevelStruct == StartsStruct(parser) /\ Found(Declare("struct", parser))
ParseTopLevelEnum   == At(parser, "enum") /\ Found(Declare("enum", parser))
ParseTopLevelImpl   == At(parser, "impl") /\ Found(Declare("impl", parser))
ParseTopLevelExternStruct == StartsExternStruct(parser) /\ Found(Declare("struct", parser))

\* Everything else is a function or a global.
ParseTopLevelFunction ==
  /\ Tok(parser) \notin {"eof", ";", "}", "@", "import", "struct", "union", "enum", "impl"}
  /\ ~AtHandleDecl(parser) /\ ~StartsExternStruct(parser)
  /\ Found(Declare("declaration", parser))

\* What may be left of a declaration.
SkipToken ==
  /\ Tok(parser) \in {";", "}"}
  /\ parser' = Advance(parser)
  /\ UNCHANGED <<source, written, decls>>

Init ==
  /\ \E s \in DOMAIN Sources : written = Sources[s]
  /\ source = written.tokens
  /\ parser = ParserInit
  /\ decls = <<>>

\* The end of the source is the end of the run.
Finished == At(parser, "eof") /\ UNCHANGED parserVars

Next ==
  \/ Finished \/ SkipToken \/ ParseAttributed \/ ParseTopLevelImport \/ ParseTopLevelHandle \/ ParseTopLevelStruct
  \/ ParseTopLevelExternStruct \/ ParseTopLevelEnum \/ ParseTopLevelImpl \/ ParseTopLevelFunction

Spec == Init /\ [][Next]_parserVars
Done == At(parser, "eof")

-----------------------------------------------------------------------------
\* What is promised.

TypeOK ==
  /\ parser.cur \in 1..(Len(source) + 1) /\ parser.peek \in BOOLEAN /\ ~parser.split
  /\ parser.returnType = Null /\ ~parser.implSelf

Silent == parser.diags = {} /\ \A i \in DOMAIN source : parser.lexed[i] = 0
Nodes  == [i \in DOMAIN decls |-> decls[i].node]

\* A program is read as it was written, with nothing reported: the operators group as
\* their precedence says, and a `<`, a `(` or a `?` is taken for what it opens.
RoundTrip == Done /\ written.decls # Null => Silent /\ Nodes = written.decls.list

\* The tokens of a program, but for parentheses, a `;` after a body and a comma before it ends.
Core(ts) ==
  SelectSeq([i \in DOMAIN ts |-> IF \/ ts[i] \in {"(", ")"}
                                    \/ ts[i] = ";" /\ i > 1 /\ ts[i - 1] = "}"
                                    \/ ts[i] = "," /\ i < Len(ts) /\ ts[i + 1] = "}" THEN "" ELSE ts[i]],
            LAMBDA t : t # "")

\* What is read without a report has every token that was written, in its place. Not so after a
\* `const` or a `ref` that no type follows: ParseVarDeclOrExprStmt gives up on it without a word.
NothingSilent ==
  Done /\ Silent /\ (\A i \in DOMAIN source : source[i] \notin {"const", "ref"}) => Core(Joined([i \in DOMAIN decls |-> TopTokens(decls[i].node)])) = Core(source)

\* An error costs the statement or the member it is in: what follows is found.
Recovers == Done /\ written.kept # Null => \E i \in DOMAIN decls : decls[i].node = written.kept

\* What the lexer reports is reported once, however often a trial reads it (RestoreLexerState).
LexerReportsOnce == Done => \A i \in DOMAIN source : source[i] \in Malformed => parser.lexed[i] = 1

\* Every declaration consumes something, whatever is written, so parsing ends.
Progress == [][parser'.cur > parser.cur]_parserVars
=============================================================================
