----------------------------- MODULE ParserState -----------------------------
(***************************************************************************)
(* The parser's place in the source: the current token, the lexer's one    *)
(* token of lookahead, what has been reported, and the checkpoints a trial *)
(* parse goes back to (src/src/Parse/Parser.c, the peek of Lex/Lexer.c).    *)
(*                                                                         *)
(* A token is a string; names, integers and other literals are told apart  *)
(* by the sets below.  A token of Malformed is one the lexer reports.       *)
(***************************************************************************)
EXTENDS Naturals, Sequences

CONSTANTS Names, Integers, OtherLiterals, Malformed
VARIABLE source     \* the tokens

IsName(t)    == t \in Names
IsInteger(t) == t \in Integers
IsLiteral(t) == t \in Integers \cup OtherLiterals

Vectors   == {"float2", "float3", "float4"}
Numbers   == {"int", "uint", "long", "ulong", "byte", "sbyte", "short", "ushort", "float", "double"}
Scalars   == Numbers \cup {"bool", "string", "cstring"}
TypeWords == Scalars \cup Vectors \cup {"void"}

-----------------------------------------------------------------------------
\* What parsing gives: the parser afterwards and a node, Null where the code returns NULL.

Null         == [k |-> "null"]
Result(p, n) == [p |-> p, node |-> n]
Fail(p)      == Result(p, Null)
Failed(r)    == r.node = Null

\* What is done next, with the parser and the node; IfParsed: unless there is no node.
Then(r, F(_, _))     == F(r.p, r.node)
IfParsed(r, F(_, _)) == IF Failed(r) THEN r ELSE F(r.p, r.node)

-----------------------------------------------------------------------------
\* The current token and the next one.

TokenAt(i) == IF i \in DOMAIN source THEN source[i] ELSE "eof"

\* A `>>` whose first half closed a list is a `>`.
Tok(p)   == IF p.split THEN ">" ELSE TokenAt(p.cur)
At(p, t) == Tok(p) = t
Ahead(p) == TokenAt(p.cur + 1)

\* diags: what the parser reported, and where; lexed: how often the lexer reported each token.
ReportAt(p, at, what) == [p EXCEPT !.diags = @ \cup {<<at, what>>}]
Report(p, what)       == ReportAt(p, p.cur, what)
LexTokenImpl(p, i)    == IF TokenAt(i) \in Malformed THEN [p EXCEPT !.lexed[i] = @ + 1] ELSE p

LexerPeekToken(p) == IF p.peek THEN p ELSE [LexTokenImpl(p, p.cur + 1) EXCEPT !.peek = TRUE]

\* The end is never passed.
Following(p) == IF p.cur \in DOMAIN source THEN p.cur + 1 ELSE p.cur
Advance(p) ==
  [(IF p.peek THEN p ELSE LexTokenImpl(p, Following(p))) EXCEPT !.cur = Following(p), !.peek = FALSE, !.split = FALSE]

ParserInit == LexTokenImpl([cur |-> 1, peek |-> FALSE, split |-> FALSE, diags |-> {}, lexed |-> [i \in DOMAIN source |-> 0],
                            returnType |-> Null, implSelf |-> FALSE], 1)

ParserConsume(p, t) == IF At(p, t) THEN Advance(p) ELSE p
ParserExpect(p, t)  == IF At(p, t) THEN Advance(p) ELSE Report(p, t)

RECURSIVE Synchronize(_)

\* A bug: the `}` that ends what the error is in is skipped with it.
SynchronizePastBrace(p) ==
  IF At(p, "eof") THEN p ELSE IF Tok(p) \in {";", "}"} THEN Advance(p) ELSE Synchronize(Advance(p))

Synchronize(p) ==
  IF Tok(p) \in {"eof", "}"} THEN p ELSE IF At(p, ";") THEN Advance(p) ELSE Synchronize(Advance(p))

\* The tokens up to one of a set.
RECURSIVE SkipTo(_, _)
SkipTo(p, stops) == IF Tok(p) \in stops \cup {"eof"} THEN p ELSE SkipTo(Advance(p), stops)

-----------------------------------------------------------------------------
\* A checkpoint is the parser as it was: what was reported since is forgotten.

\* A bug: the token that was looked at is lexed again.
RestoreWithoutPeek(p, c) ==
  [p EXCEPT !.cur = c.cur, !.peek = FALSE, !.split = c.split, !.diags = c.diags, !.lexed = c.lexed]

RestoreLexerState(p, c) ==
  [p EXCEPT !.cur = c.cur, !.peek = c.peek, !.split = c.split, !.diags = c.diags, !.lexed = c.lexed]
=============================================================================
