-------------------------------- MODULE MCSite --------------------------------
(* Every short text over the characters that mean something to the parser,    *)
(* and server blocks of up to three directives: nested paths and one path     *)
(* twice, known and unknown handlers, directives that do not count, ports on  *)
(* both sides of a short's sign, the one that wraps to 0 and one in quotes.   *)
EXTENDS Site, TLC

MCUrls == {<<"/">>, <<"/", "a", "b">>, <<"/", "a", "/", "b">>, <<"x">>}
MCNumbers == [token \in {<<"5">>, <<"12">>, <<"16">>} |->
                 CASE token = <<"5">> -> 5 [] token = <<"12">> -> 12 [] OTHER -> 16]

MCContents == {"c1", "c2", ""}

\* Beside the root d, named like it and longer; and elsewhere.
Beside == <<<<"d", "2">>, <<"x">>>>
Outside == <<<<"o">>, <<"x">>>>
MCOthers == (Beside :> File("c2")) @@ (Outside :> File("c2"))
MCFinds == {<<File("c1"), Absent>>, <<Absent, Absent>>, <<Directory, File("c1")>>,
            <<Directory, Absent>>, <<Directory, Directory>>, <<Directory, LeadsTo(Outside)>>,
            <<Unreadable, Absent>>, <<Unknown, Absent>>,
            <<LeadsTo(Beside), Absent>>, <<LeadsTo(Outside), Absent>>}

Statement(tokens) == TokensToString(tokens) \o <<";">>
Block(tokens, body) == TokensToString(tokens) \o <<" ", "{", "\n">> \o body \o <<"}", "\n">>

Listen(token) == Statement(<<<<"listen">>, token>>)
Handler(name) == Statement(<<<<"handler">>, <<name>>>>)
Root == Statement(<<<<"root">>, <<"d">>>>)
At(path, body) == Block(<<<<"location">>, path>>, body)

Slash == <<"/">>
SlashA == <<"/", "a">>
SlashASlash == <<"/", "a", "/">>

Routes == {At(path, Handler(name)) :
              path \in {Slash, SlashA, SlashASlash}, name \in {"EchoHandler", "NoSuchHandler"}}
Ports == {Listen(<<"5">>), Listen(<<"12">>)}

Directives == Routes \cup Ports \cup {
    Listen(<<"16">>), Listen(<<"\"", "5", "\"">>), Statement(<<<<"listen">>>>),
    At(SlashA, Statement(<<<<"data_path">>, <<"d">>>>) \o Handler("ApiHandler")),
    At(SlashA, Handler("EchoHandler") \o Handler("HealthHandler")),
    At(SlashA, Block(<<<<"x">>>>, Handler("SleepHandler")) \o Root),
    At(SlashA, Statement(<<<<"handler">>>>) \o Handler("SleepHandler")),
    Statement(<<<<"location">>, SlashA>>),
    Block(<<<<"x">>>>, At(SlashA, Handler("EchoHandler")))}

Statics == {At(Slash, Handler("StaticHandler")), At(SlashA, Root \o Handler("StaticHandler")),
            At(SlashASlash, Handler("StaticHandler") \o Root)}

Server(body) == Block(<<<<"server">>>>, body)

ServerTexts ==
    {Server(x) : x \in Directives \cup Statics}
        \cup UNION {{Server(x \o y), Server(y \o x)} : x \in Directives, y \in Routes \cup Ports}
        \cup {Server(x \o At(path, Handler("EchoHandler"))) : x \in Statics, path \in {Slash, SlashASlash}}
        \cup {Server(x \o y \o z) : x, y, z \in Routes \cup Ports}
        \cup {Statement(<<<<"server">>>>) \o Server(x) \o Server(y) :
                 x \in Directives, y \in {Listen(<<"12">>)}}
        \cup {Block(<<<<"http">>>>, Server(x)) : x \in Routes}

ShortTexts ==
    SeqOf({"w", " ", ";", "{", "}"}, 6)
        \cup SeqOf({"w", "\"", "\\", " ", ";"}, 6)
        \cup SeqOf({"w", "'", "#", "\r", "\n", ";"}, 5)

MCTexts == ServerTexts \cup ShortTexts
================================================================================
