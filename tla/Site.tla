--------------------------------- MODULE Site ---------------------------------
(******************************************************************************)
(* From a configuration file to an answer: Routing reads the file and finds   *)
(* the handler of a url, the handler answers it; StaticHandler with the steps *)
(* of StaticFiles, the others at once.  What ApiHandler answers is module     *)
(* Api's, and what a request goes through before it has a url Connection's.   *)
(******************************************************************************)
EXTENDS Routing, StaticFiles

vars == <<routingVars, staticVars>>

SiteInit == Init /\ FilesInit

\* handle_request of the handlers that look at nothing but the request; what
\* EchoHandler returns is the request.
EchoReply(url) == Ok(url)
HealthReply == Ok("OK")
SleepReply == Ok("Slept for 3 seconds.")
NotFoundReply == NotFoundResponse

Reply(handler, url) ==
    CASE handler = <<"EchoHandler">> -> EchoReply(url)
      [] handler = <<"HealthHandler">> -> HealthReply
      [] handler = <<"SleepHandler">> -> SleepReply
      [] handler = <<"NotFoundHandler">> -> NotFoundReply

Configure == StartUp /\ UNCHANGED staticVars

HandleStatic(url) ==
    /\ CreateHandler(url)
    /\ answer'[2].handler = <<"StaticHandler">>
    /\ Arrives([url |-> url, prefix |-> answer'[2].prefix, root |-> answer'[2].root])

HandleOther(url) ==
    /\ step = "idle"
    /\ CreateHandler(url)
    /\ answer'[2].handler \notin {<<"StaticHandler">>, <<"ApiHandler">>}
    /\ response' = Reply(answer'[2].handler, url)
    /\ step' = "done"
    /\ request' = [url |-> url]
    /\ UNCHANGED <<files, file_changes, requested_path, seen>>

\* The handler is made here, and module Api tells how it answers.
HandleApi(url) ==
    /\ step = "idle"
    /\ CreateHandler(url)
    /\ answer'[2].handler = <<"ApiHandler">>
    /\ UNCHANGED staticVars

FileStep == HandleFile /\ UNCHANGED routingVars

\* While the handler looks, and between two looks.
FileChange ==
    /\ \E path \in DOMAIN files, c \in Conditions : FileChanges(path, c)
    /\ UNCHANGED routingVars

\* The answer is on its way and the handler is gone.
Sent ==
    /\ answer # <<>>
    /\ step \in {"idle", "done"}
    /\ DropHandler
    /\ files' = <<>> /\ seen' = <<>> /\ request' = <<>> /\ requested_path' = <<>>
    /\ file_changes' = 0
    /\ step' = "idle"
    /\ response' = NoResponse

\* main has returned without serving, or an exception has ended the process.
Ended == (stage = "failed" \/ step = "thrown") /\ UNCHANGED vars

Next ==
    \/ Configure
    \/ \E url \in Urls : HandleStatic(url) \/ HandleOther(url) \/ HandleApi(url)
    \/ FileStep
    \/ FileChange
    \/ Sent
    \/ Ended

Spec == SiteInit /\ [][Next]_vars

--------------------------------------------------------------------------------
(* Properties; those of Routing and StaticFiles are checked here as well.     *)

\* Parts of the start-up and of a static request have their types: a port is a
\* short, what the locations hold are tokens of the file, a factory stands under
\* the path of its location, a response is one that a handler makes.
TypeOK ==
    /\ RoutingTypeOK
    /\ step \in Steps
    /\ DOMAIN seen = DOMAIN files
    /\ step \in {"done", "thrown"} => answer # <<>>
    /\ answer # <<>> /\ answer[2].handler = <<"StaticHandler">> => StaticTypeOK

\* The answer of a static location tells of the files under its own root, see
\* StaticFiles.
StaticAnswersReflectFiles ==
    answer # <<>> /\ answer[2].handler = <<"StaticHandler">> => AnswersReflectFiles

\* The type of the next token for one who reads the text: what ParseToken takes for
\* the end of the file is a word if it is neither nothing nor a comment.
TokenType(input) ==
    LET type == ParseToken(input).type
        rest == SkipWhitespace(input)
    IN  IF type = "EOF" /\ rest # <<>> /\ rest[1] # "#" THEN "CUT_WORD" ELSE type

\* The text that is left, and the types of the tokens taken from it so far, after
\* another token, up to the end of the text or an error; comments are left out.
TakeToken(taken) ==
    LET type == TokenType(taken.input)
    IN  IF taken.types # <<>> /\ Last(taken.types) \in {"EOF", "ERROR", "CUT_WORD"} THEN taken
        ELSE [input |-> ParseToken(taken.input).rest,
              types |-> IF type = "COMMENT" THEN taken.types ELSE Append(taken.types, type)]

\* There is at most a token for each character and one for the end.
TokenTypes(input) ==
    LET taken[n \in 0 .. Len(input) + 1] ==
            IF n = 0 THEN [input |-> input, types |-> <<>>] ELSE TakeToken(taken[n - 1])
    IN  taken[Len(input) + 1].types

TokenSequences == Seq({"NORMAL", "STATEMENT_END", "START_BLOCK", "END_BLOCK",
                       "EOF", "ERROR", "CUT_WORD"})

\* Config ::= Statement+
\* Statement ::= NORMAL+ (STATEMENT_END | START_BLOCK Config END_BLOCK)
IsConfig[t \in TokenSequences] ==
    \E n \in 1 .. Len(t) :
        /\ \E words \in 1 .. n - 1 :
              /\ \A i \in 1 .. words : t[i] = "NORMAL"
              /\ \/ words + 1 = n /\ t[n] = "STATEMENT_END"
                 \/ /\ t[words + 1] = "START_BLOCK"
                    /\ t[n] = "END_BLOCK"
                    /\ IsConfig[SubSeq(t, words + 2, n - 1)]
        /\ n = Len(t) \/ IsConfig[SubSeq(t, n + 1, Len(t))]

\* The parser, which remembers no more than the type of the last token and how
\* many blocks are open, accepts exactly the texts whose tokens are statements with
\* balanced, non-empty blocks, and those in which a word that the file ends in
\* follows them: that word is lost, and Parse returns true, although it says "true
\* iff the input config file is valid" (config_parser.h:31-32) and such a word alone
\* is rejected.
AcceptsTheGrammar ==
    stage = "start" /\ parser.verdict # "parsing" =>
        LET types == TokenTypes(text)
        IN  parser.verdict = "accepted" <=>
                Last(types) \in {"EOF", "CUT_WORD"} /\ IsConfig[Front(types)]

\* Without its white space.
Squeezed(t) == FlattenSeq([n \in DOMAIN t |-> IF t[n] \in Whitespace THEN <<>> ELSE <<t[n]>>])

\* A configuration that was accepted is the text: ToString writes what was read,
\* up to white space, with nothing lost, added or moved, and what ToString writes
\* is parsed to the same tree.  Texts with comments, and those that end in a
\* word, which the parser drops, are excepted from the first.
ConfigIsTheText ==
    stage = "start" /\ parser.verdict = "accepted" =>
        LET written == ConfigToString(parser.config)
        IN  /\ Parse(written).verdict = "accepted"
            /\ Parse(written).config = parser.config
            /\ "#" \notin ToSet(text) /\ Last(text) \in Delimiters
                   => Squeezed(written) = Squeezed(text)
================================================================================
