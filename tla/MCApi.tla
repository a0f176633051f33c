--------------------------------- MODULE MCApi ---------------------------------
(* Two threads and a location /api, with a word that only begins like it and  *)
(* what that word would leave as entities of their own; requests that name a  *)
(* second object or entity behind what they may change, in the query or with  *)
(* the prefix twice; "33" wraps to 1 and "17" to -15.                         *)
EXTENDS Api, TLC

CONSTANTS t1, t2

MCThreads == {t1, t2}
MCEntities == {<<"E">>, <<"api">>, <<"ary">>, <<"api", "ary">>}
MCNumber == (<<"1">> :> 1) @@ (<<"12">> :> 12) @@ (<<"17">> :> 17) @@ (<<"33">> :> 33)
MCNewIds == {0, 1}
MCPrefix == <<"/", "api">>

E == MCPrefix \o <<"/", "E">>
Bodiless(method, url) == [method |-> method, url |-> url, body |-> "bad"]
MCHttpRequests ==
    [method : {"POST"}, url : {E}, body : {"a", "bad"}]
        \cup [method : {"PUT"}, body : {"b"},
              url : {E \o <<"/", "1", "/">>, E \o <<"/", "33">>, E \o <<"/", "1", "/", "12">>,
                     <<"/", "api", "ary", "/", "12">>}]
        \cup {[method |-> "POST", url |-> MCPrefix \o E, body |-> "a"],
              Bodiless("PUT", E \o <<"/", "1">>), Bodiless("POST", E \o <<"/", "1">>),
              Bodiless("GET", MCPrefix \o <<"/", "/", "E">>), Bodiless("GET", E \o <<"/", "1", "/", "x">>),
              Bodiless("GET", E \o <<"/", "x">>), Bodiless("GET", MCPrefix \o <<"?", "/", "E">>),
              Bodiless("GET", MCPrefix \o <<"/", "a b">>), Bodiless("DELETE", E \o <<"/", "1", "?", "2">>),
              Bodiless("DELETE", E \o <<"/", "17">>), Bodiless("DELETE", E \o <<"?", "/", "1">>),
              Bodiless("PATCH", E)}
================================================================================
