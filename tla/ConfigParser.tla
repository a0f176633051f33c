----------------------------- MODULE ConfigParser -----------------------------
(******************************************************************************)
(* NginxConfigParser (src/config_parser.cc): text to tokens, tokens to a tree *)
(* of statements, and the tree back to text, as operators.                    *)
(*                                                                            *)
(* Text is a sequence of characters; where the characters of a word do not    *)
(* matter, the word stands as one element, so that <<"listen", " ", "5", ";">>*)
(* is a text, and <<"/", "a">> a word of two elements.                        *)
(*                                                                            *)
(* A NginxConfig is the sequence of its statements, each before those of its  *)
(* child block, with the depth of the block it stands in: every statement is  *)
(* added at the end of the block on top of config_stack, hence at the end.    *)
(******************************************************************************)
EXTENDS Integers, Sequences, SequencesExt

Delimiters == {" ", "\t", "\n", ";", "{", "}"}     \* IsTokenDelimiter
Whitespace == {" ", "\t", "\n", "\r"}              \* IsWhitespace
Quotes == {"'", "\""}

SingleTokens == [c \in {"{", "}", ";"} |->
    CASE c = "{" -> "START_BLOCK" [] c = "}" -> "END_BLOCK" [] OTHER -> "STATEMENT_END"]

--------------------------------------------------------------------------------
(* ParseToken: the next token of the input and what is left after it          *)

FirstIn(text, chars) == SelectInSeq(text, LAMBDA c : c \in chars)

Token(type, text, n) ==
    [type |-> type, value |-> SubSeq(text, 1, n), rest |-> SubSeq(text, n + 1, Len(text))]

EndOfFile == Token("EOF", <<>>, 0)
NotAToken == Token("ERROR", <<>>, 0)

SkipWhitespace(input) ==
    LET n == SelectInSeq(input, LAMBDA c : c \notin Whitespace)
    IN  IF n = 0 THEN <<>> ELSE SubSeq(input, n, Len(input))

\* A backslash keeps the next character, another backslash included, from being
\* the closing quote: one closes that has an even number of them before it.
Escaped(text, n) ==
    \E k \in 1 .. n - 1 : /\ text[k] # "\\"
                          /\ \A i \in k + 1 .. n - 1 : text[i] = "\\"
                          /\ (n - k) % 2 = 0

\* 0 if the quote is never closed.
ClosingQuote(text) ==
    LET closing == {n \in 2 .. Len(text) : text[n] = text[1] /\ ~Escaped(text, n)}
    IN  IF closing = {} THEN 0 ELSE CHOOSE n \in closing : \A k \in closing : n <= k

\* Bug that ConfigIsTheText catches: the quotes are left off.
BareToken(text) ==
    LET n == ClosingQuote(text)
    IN  IF n \in 1 .. Len(text) - 1 /\ text[n + 1] \in Delimiters
        THEN [Token("NORMAL", text, n) EXCEPT !.value = SubSeq(text, 2, n - 1)]
        ELSE NotAToken

QuotedToken(text) ==
    LET n == ClosingQuote(text)
    IN  IF n \in 1 .. Len(text) - 1 /\ text[n + 1] \in Delimiters
        THEN Token("NORMAL", text, n)
        ELSE NotAToken

\* A comment or a word that the file ends in is not a token.
ParseText(text) ==
    CASE text = <<>> -> EndOfFile
      [] text # <<>> /\ text[1] \in DOMAIN SingleTokens -> Token(SingleTokens[text[1]], text, 1)
      [] text # <<>> /\ text[1] = "#" ->
             LET n == FirstIn(text, {"\n", "\r"})
             IN  IF n = 0 THEN EndOfFile ELSE Token("COMMENT", text, n)
      [] text # <<>> /\ text[1] \in Quotes -> QuotedToken(text)
      [] OTHER ->
             LET n == FirstIn(text, Delimiters)
             IN  IF n = 0 THEN EndOfFile ELSE Token("NORMAL", text, n - 1)

ParseToken(input) == ParseText(SkipWhitespace(input))

--------------------------------------------------------------------------------
(* Parse: one turn of its loop is ParseStep                                   *)

NewParser(input) ==
    [input |-> input, config |-> <<>>, config_stack |-> 1, last_token_type |-> "START",
     verdict |-> "parsing"]

AddStatement(config, depth, token) ==
    Append(config, [depth |-> depth, tokens |-> <<token>>, block |-> FALSE])

AddToken(config, token) == [config EXCEPT ![Len(config)].tokens = Append(@, token)]

AddBlock(config) == [config EXCEPT ![Len(config)].block = TRUE]

\* Bug that AcceptsTheGrammar catches: no block may end right after another.
NoNesting(p, type) ==
    CASE type = "NORMAL" -> TRUE
      [] type \in {"STATEMENT_END", "START_BLOCK"} -> p.last_token_type = "NORMAL"
      [] type = "END_BLOCK" -> p.last_token_type = "STATEMENT_END" /\ p.config_stack > 1
      [] type = "EOF" -> p.last_token_type \in {"STATEMENT_END", "END_BLOCK"}
                         /\ p.config_stack = 1
      [] OTHER -> FALSE

\* The transitions that are not errors.
MayFollow(p, type) ==
    CASE type = "NORMAL" -> TRUE
      [] type \in {"STATEMENT_END", "START_BLOCK"} -> p.last_token_type = "NORMAL"
      [] type = "END_BLOCK" -> p.last_token_type \in {"STATEMENT_END", "END_BLOCK"}
                               /\ p.config_stack > 1
      [] type = "EOF" -> p.last_token_type \in {"STATEMENT_END", "END_BLOCK"}
                         /\ p.config_stack = 1
      [] OTHER -> FALSE

Consume(p, token) ==
    LET q == [p EXCEPT !.input = token.rest, !.last_token_type = token.type]
    IN  CASE token.type = "NORMAL" /\ p.last_token_type = "NORMAL" ->
                 [q EXCEPT !.config = AddToken(@, token.value)]
          [] token.type = "NORMAL" /\ p.last_token_type # "NORMAL" ->
                 [q EXCEPT !.config = AddStatement(@, p.config_stack, token.value)]
          [] token.type = "STATEMENT_END" -> q
          [] token.type = "START_BLOCK" ->
                 [q EXCEPT !.config = AddBlock(@), !.config_stack = @ + 1]
          [] token.type = "END_BLOCK" -> [q EXCEPT !.config_stack = @ - 1]
          [] OTHER -> [q EXCEPT !.verdict = "accepted"]

ParseStep(p) ==
    LET token == ParseToken(p.input)
    IN  CASE p.verdict # "parsing" -> p
          [] p.verdict = "parsing" /\ token.type = "COMMENT" -> [p EXCEPT !.input = token.rest]
          [] OTHER -> IF MayFollow(p, token.type) THEN Consume(p, token)
                      ELSE [p EXCEPT !.verdict = "rejected"]

\* The loop ends within a turn for each character and one for the end.
Parse(input) ==
    LET parsers[n \in 0 .. Len(input) + 1] ==
            IF n = 0 THEN NewParser(input) ELSE ParseStep(parsers[n - 1])
    IN  parsers[Len(input) + 1]

--------------------------------------------------------------------------------
(* NginxConfig::ToString                                                      *)

Indented(depth, text) == [i \in 1 .. 2 * (depth - 1) |-> " "] \o text

TokensToString(tokens) ==
    FlattenSeq([i \in DOMAIN tokens |-> IF i = 1 THEN tokens[i] ELSE <<" ">> \o tokens[i]])

\* Statement i, up to the end of the blocks that end with it.
StatementToString(config, i) ==
    LET s == config[i]
        inner == IF s.block THEN s.depth + 1 ELSE s.depth
        outer == IF i = Len(config) THEN 1 ELSE config[i + 1].depth
        Closed(k) == Indented(inner - k, <<"}", "\n">>)
    IN  Indented(s.depth, TokensToString(s.tokens))
            \o (IF s.block THEN <<" ", "{", "\n">> ELSE <<";", "\n">>)
            \o FlattenSeq([k \in 1 .. inner - outer |-> Closed(k)])

ConfigToString(config) ==
    FlattenSeq([i \in DOMAIN config |-> StatementToString(config, i)])
================================================================================
