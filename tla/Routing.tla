-------------------------------- MODULE Routing --------------------------------
(******************************************************************************)
(* From the text of the configuration to a request's handler: initialize_from_*)
(* args, ExtractServerConfig and RegisterHandlerForLocation                   *)
(* (src/server_main_utils.cc), HandlerRegistry, RequestDispatcher and the     *)
(* factories.  The text is parsed turn by turn and the statements of its      *)
(* configuration are visited one at a time; the registry (keyed by path) and  *)
(* the list of locations (in file order, a path perhaps twice) are filled     *)
(* side by side and looked up one after the other.                            *)
(*                                                                            *)
(* Paths and urls are sequences of characters, as tokens are: a path matches  *)
(* whatever it is a prefix of, whether or not it ends at a slash.             *)
(******************************************************************************)
EXTENDS ConfigParser, FiniteSets

CONSTANTS
    Texts,          \* contents of the configuration file
    Urls,           \* urls of requests
    Numbers,        \* the number that atoi reads in a token, where it is not 0
    default_port,
    MaxShort        \* the largest short

Shorts == -(MaxShort + 1) .. MaxShort

Characters == UNION {ToSet(t) : t \in Texts \cup Urls}

ASSUME ShortsAssumption == MaxShort \in Nat /\ default_port \in Shorts

ASSUME NumbersAssumption == \A token \in DOMAIN Numbers : Numbers[token] \in Int

ASSUME TextsAssumption == \A t \in Texts \cup Urls : t \in Seq(Characters)

VARIABLES
    stage,          \* how far initialize_from_args is, see Stages
    text,           \* the configuration file
    parser,         \* the parser and what it has built
    config, at,     \* NginxConfig, and the statement the extraction is at
    port, locations,   \* ServerConfig
    location,       \* the LocationConfig being read
    _factories,     \* HandlerRegistry::_factories, a map from path to factory
    locations_,     \* RequestDispatcher::locations_
    endpoint,       \* the port the acceptor listens on
    answer          \* the url being answered and the handler made for it

dispatchVars == <<_factories, locations_, endpoint>>
extractVars == <<port, locations, location, _factories>>
routingVars == <<stage, text, parser, config, at, port, locations, location,
                 dispatchVars, answer>>

Stages == {"start", "outside", "server", "location", "serving", "failed"}

NoToken == <<>>
NoMap == [p \in {} |-> p]
NewLocation(path) == [path |-> path, handler_name |-> NoToken, args |-> NoMap]

Set(map, key, value) ==
    [k \in DOMAIN map \cup {key} |-> IF k = key THEN value ELSE map[k]]

Init ==
    /\ stage = "start"
    /\ text \in Texts
    /\ parser = NewParser(text)
    /\ config = <<>>
    /\ at = 1
    /\ port = default_port
    /\ locations = <<>>
    /\ location = NewLocation(NoToken)
    /\ _factories = NoMap
    /\ locations_ = <<>>
    /\ endpoint = 0
    /\ answer = <<>>

--------------------------------------------------------------------------------
(* load_config_from_file                                                      *)

ParseTurn ==
    /\ stage = "start"
    /\ parser.verdict = "parsing"
    /\ parser' = ParseStep(parser)
    /\ UNCHANGED <<stage, text, config, at, extractVars, locations_, endpoint, answer>>

\* The parser is a local of load_config_from_file.
LoadConfig ==
    /\ stage = "start"
    /\ \/ parser.verdict = "accepted" /\ stage' = "outside" /\ config' = parser.config
       \/ parser.verdict = "rejected" /\ stage' = "failed" /\ UNCHANGED config
    /\ parser' = NewParser(<<>>)
    /\ UNCHANGED <<text, at, extractVars, locations_, endpoint, answer>>

\* A wrong number of arguments, or a file that cannot be opened.
LoadFails ==
    /\ stage = "start"
    /\ parser = NewParser(text)
    /\ stage' = "failed"
    /\ UNCHANGED <<text, parser, config, at, extractVars, locations_, endpoint, answer>>

--------------------------------------------------------------------------------
(* ExtractServerConfig                                                        *)

\* There is a next statement, in a block at least that deep.
Inside(depth) == at <= Len(config) /\ config[at].depth >= depth

Is(statement, depth, name) == statement.depth = depth /\ statement.tokens[1] = <<name>>

HasValue(statement) == Len(statement.tokens) >= 2

IsServer(statement) == Is(statement, 1, "server") /\ statement.block
IsListen(statement) == Is(statement, 2, "listen") /\ HasValue(statement)
IsLocation(statement) ==
    Is(statement, 2, "location") /\ HasValue(statement) /\ statement.block
IsDirective(statement) == statement.depth = 3 /\ HasValue(statement)

Value == config[at].tokens[2]

EnterServerBlock ==
    /\ stage = "outside"
    /\ Inside(1)
    /\ IsServer(config[at])
    /\ stage' = "server"
    /\ at' = at + 1
    /\ UNCHANGED <<text, parser, config, extractVars, locations_, endpoint, answer>>

\* Bug that TypeOK catches: the port kept as the int that atoi returns.
AsInt(n) == n

\* The conversion of an int to a short, and of a short to the unsigned short of
\* an endpoint.
Wrap == 2 * (MaxShort + 1)

AsShort(n) == IF n % Wrap > MaxShort THEN (n % Wrap) - Wrap ELSE n % Wrap

\* Bug that StartsAsConfigured catches: the sign dropped, not wrapped.
Magnitude(n) == IF n < 0 THEN -n ELSE n

AsUnsigned(n) == n % Wrap

atoi(token) == IF token \in DOMAIN Numbers THEN Numbers[token] ELSE 0

ReadListen ==
    /\ stage = "server"
    /\ Inside(2)
    /\ IsListen(config[at])
    /\ port' = AsShort(atoi(Value))
    /\ at' = at + 1
    /\ UNCHANGED <<stage, text, parser, config, locations, location, dispatchVars, answer>>

EnterLocation ==
    /\ stage = "server"
    /\ Inside(2)
    /\ IsLocation(config[at])
    /\ stage' = "location"
    /\ location' = NewLocation(Value)
    /\ at' = at + 1
    /\ UNCHANGED <<text, parser, config, port, locations, dispatchVars, answer>>

ReadHandler ==
    /\ stage = "location"
    /\ Inside(3)
    /\ IsDirective(config[at])
    /\ config[at].tokens[1] = <<"handler">>
    /\ location' = [location EXCEPT !.handler_name = Value]
    /\ at' = at + 1
    /\ UNCHANGED <<stage, text, parser, config, port, locations, dispatchVars, answer>>

\* root, data_path and any other name alike.
ReadArg ==
    /\ stage = "location"
    /\ Inside(3)
    /\ IsDirective(config[at])
    /\ config[at].tokens[1] # <<"handler">>
    /\ location' = [location EXCEPT !.args = Set(@, config[at].tokens[1], Value)]
    /\ at' = at + 1
    /\ UNCHANGED <<stage, text, parser, config, port, locations, dispatchVars, answer>>

\* Other blocks, what is in them, and directives without a value.
SkipStatement ==
    /\ \/ stage = "outside" /\ Inside(1) /\ ~IsServer(config[at])
       \/ stage = "server" /\ Inside(2) /\ ~IsListen(config[at]) /\ ~IsLocation(config[at])
       \/ stage = "location" /\ Inside(3) /\ ~IsDirective(config[at])
    /\ at' = at + 1
    /\ UNCHANGED <<stage, text, parser, config, extractVars, locations_, endpoint, answer>>

\* The names RegisterHandlerForLocation makes a factory for.
Known == {<<name>> : name \in {"EchoHandler", "StaticHandler", "HealthHandler",
                               "SleepHandler", "ApiHandler"}}

Registers(l) == l.handler_name \in Known

\* Bug that LongestPrefixIsCalled catches: std::map::insert, which keeps the
\* first factory of a path.
KeepsFirst(path, l) ==
    _factories' = IF path \in DOMAIN _factories THEN _factories
                  ELSE Set(_factories, path, l)

\* HandlerRegistry::RegisterHandler; a factory is its copy of the location.
RegisterHandler(path, l) == _factories' = Set(_factories, path, l)

EndLocation ==
    /\ stage = "location"
    /\ ~Inside(3)
    /\ stage' = "server"
    /\ \/ /\ Registers(location)
          /\ RegisterHandler(location.path, location)
          /\ locations' = Append(locations, location)
       \/ /\ ~Registers(location)
          /\ UNCHANGED <<_factories, locations>>
    /\ UNCHANGED <<text, parser, config, at, port, location, locations_, endpoint, answer>>

--------------------------------------------------------------------------------
(* initialize_from_args and main                                              *)

is_valid == locations # <<>> /\ port # 0

\* After the first server block, or without one: InitFromServerConfig, is_valid
\* and the acceptor of the server, which throws when the port is not to be had.
Start ==
    /\ \/ stage = "outside" /\ ~Inside(1)
       \/ stage = "server" /\ ~Inside(2)
    /\ \/ /\ is_valid
          /\ stage' = "serving"
          /\ endpoint' = AsUnsigned(port)
       \/ /\ stage' = "failed"
          /\ UNCHANGED endpoint
    /\ locations_' = locations
    /\ UNCHANGED <<text, parser, config, at, extractVars, answer>>

--------------------------------------------------------------------------------
(* RequestDispatcher::CreateHandler, called by every session                  *)

Matches(url) ==
    {i \in DOMAIN locations_ :
        locations_[i].path # <<>> /\ IsPrefix(locations_[i].path, url)}

Longer(i, j) == Len(locations_[i].path) > Len(locations_[j].path)

\* The first of the longest matches.
FindBestMatch(url) ==
    CHOOSE i \in Matches(url) :
        \A j \in Matches(url) \ {i} : Longer(i, j) \/ (~Longer(j, i) /\ i < j)

NotFound == [handler |-> <<"NotFoundHandler">>]

ArgOrHere(l, name) == IF <<name>> \in DOMAIN l.args THEN l.args[<<name>>] ELSE <<".">>

\* HandlerFactory::Create, by the class of the factory.
Made(l) ==
    CASE l.handler_name = <<"StaticHandler">> ->
             [handler |-> l.handler_name, prefix |-> l.path, root |-> ArgOrHere(l, "root")]
      [] l.handler_name = <<"ApiHandler">> ->
             [handler |-> l.handler_name, prefix |-> l.path,
              data_path |-> ArgOrHere(l, "data_path")]
      [] OTHER -> [handler |-> l.handler_name]

\* HandlerRegistry::GetFactory: by the path of the match, not by its position.
GetFactory(path) ==
    IF path \in DOMAIN _factories THEN Made(_factories[path]) ELSE NotFound

CreateHandler(url) ==
    /\ stage = "serving"
    /\ answer = <<>>
    /\ answer' = <<url, IF Matches(url) = {} THEN NotFound
                        ELSE GetFactory(locations_[FindBestMatch(url)].path)>>
    /\ UNCHANGED <<stage, text, parser, config, at, extractVars, locations_, endpoint>>

\* The session's handler object goes out of scope.
DropHandler ==
    /\ answer' = <<>>
    /\ UNCHANGED <<stage, text, parser, config, at, extractVars, locations_, endpoint>>

StartUp ==
    \/ ParseTurn \/ LoadConfig \/ LoadFails
    \/ EnterServerBlock \/ SkipStatement \/ ReadListen
    \/ EnterLocation \/ ReadHandler \/ ReadArg \/ EndLocation
    \/ Start

--------------------------------------------------------------------------------
(* Properties                                                                 *)

Tokens == UNION {ToSet(config[i].tokens) : i \in DOMAIN config}

IsLocationConfig(l) ==
    /\ l.path \in Tokens \cup {NoToken}
    /\ l.handler_name \in Tokens \cup {NoToken}
    /\ \A key \in DOMAIN l.args : key \in Tokens /\ l.args[key] \in Tokens

RoutingTypeOK ==
    /\ stage \in Stages
    /\ at \in 1 .. Len(config) + 1
    /\ port \in Shorts
    /\ IsLocationConfig(location)
    /\ \A p \in DOMAIN _factories :
          IsLocationConfig(_factories[p]) /\ _factories[p].path = p
    /\ \A i \in DOMAIN locations : IsLocationConfig(locations[i])
    /\ locations_ \in {<<>>, locations}
    /\ endpoint \in 0 .. Wrap - 1

\* The tree: the statements in the block of statement i.
Children(i) ==
    {j \in i + 1 .. Len(config) :
        /\ config[j].depth = config[i].depth + 1
        /\ \A k \in i + 1 .. j : config[k].depth > config[i].depth}

FirstServer == SelectInSeq(config, IsServer)

InServer == IF FirstServer = 0 THEN {} ELSE Children(FirstServer)

\* The value of the last statement of that name among them.
LastValue(statements, name, default) ==
    LET named == {i \in statements : config[i].tokens[1] = name /\ HasValue(config[i])}
    IN  IF named = {} THEN default
        ELSE config[CHOOSE i \in named : \A j \in named : j <= i].tokens[2]

\* What the statements inside configure for location block i.
Configured(i, inside) ==
    LET names == {config[j].tokens[1] : j \in {k \in inside : HasValue(config[k])}}
    IN  [path |-> config[i].tokens[2],
         handler_name |-> LastValue(inside, <<"handler">>, NoToken),
         args |-> [name \in names \ {<<"handler">>} |-> LastValue(inside, name, NoToken)]]

Location(i) == Configured(i, Children(i))

\* The location blocks that serve requests.
Served == {i \in InServer : IsLocation(config[i]) /\ Registers(Location(i))}

\* README's longest-prefix matching, stated on the tree of the file and not on
\* the registry and the list: a url gets the handler of the last block among
\* those with the longest path that is a prefix of it, with that block's own
\* arguments, and NotFoundHandler only when no block's path is.  What could go
\* wrong: the list is searched for the first of equal paths while the registry
\* keeps the last, and an unknown handler after a known one of the same path
\* must not hide it.
LongestPrefixIsCalled ==
    answer # <<>> =>
        LET url == answer[1]
            fits == {i \in Served : IsPrefix(config[i].tokens[2], url)}
            Beats(i, j) == \/ Len(config[i].tokens[2]) > Len(config[j].tokens[2])
                           \/ config[i].tokens[2] = config[j].tokens[2] /\ i >= j
        IN  IF fits = {} THEN answer[2] = NotFound
            ELSE \E i \in fits :
                    answer[2] = Made(Location(i)) /\ \A j \in fits : Beats(i, j)

\* The server listens on the port of the last listen directive of the first
\* server block, or the default, for every number that is a port (although
\* ServerConfig keeps it in a short and half of the ports are negative there),
\* never on one that the system would choose, and only with a location to
\* serve.
StartsAsConfigured ==
    stage = "serving" =>
        LET token == LastValue({i \in InServer : IsListen(config[i])}, <<"listen">>, NoToken)
            number == IF token = NoToken THEN default_port ELSE atoi(token)
        IN  /\ number \in 0 .. Wrap - 1 => endpoint = number
            /\ endpoint # 0
            /\ Served # {}
================================================================================
