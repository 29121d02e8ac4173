--------------------------- MODULE MCPluginOptions ---------------------------
(***************************************************************************)
(* An instance of PluginOptions: the arguments that the tables know, with  *)
(* one or more values each, valid and invalid, and some they do not.  The  *)
(* package is a/b or ab; both start with a, and only one is below it.      *)
(***************************************************************************)
EXTENDS PluginOptions

CONSTANT Absent

Plain(key)       == [kind |-> "plain", key |-> key]
Keyed(key, val)  == [kind |-> "keyed", key |-> key, val |-> val]
Package(path, n) == Keyed("go-gapic-package", [semicolon |-> TRUE, path |-> path, name |-> n])
File(valid)      == [valid |-> valid, config |-> "service.yaml"]

MCArguments ==
  {Plain(k) : k \in {"metadata", "diregapic", "rest-numeric-enums", "transport",
                     "gapic-service-config"}}
  \cup {Package(p, "pkg") : p \in {<<"a", "/", "b">>, <<"a", "b">>}}
  \cup {Package(<<"a", "/", "b">>, ""), Package(<<>>, "pkg"),
        Keyed("go-gapic-package", [semicolon |-> FALSE, path |-> <<"a">>, name |-> ""])}
  \cup {Keyed("module", p) : p \in {<<>>, <<"a">>, <<"a", "/">>, <<"b">>}}
  \cup {Keyed("transport", ts) : ts \in {{"grpc"}, {"rest"}, {"grpc", "rest"}, {"tcp", "rest"}}}
  \cup {Keyed("release-level", l) : l \in {"alpha", "beta", "ga"}}
  \cup {Keyed(k, File(v)) : k \in {"api-service-config", "grpc-service-config"}, v \in BOOLEAN}
  \cup {Keyed("gapic-service-config", "service.yaml")}
  \cup {[kind |-> "M", key |-> "f.proto", val |-> v] : v \in {"p", "q", "", Absent}}
  \cup {[kind |-> "F_", key |-> f] : f \in {"ordered_routing_headers", "no_such_feature"}}

MCFeatures == {"ordered_routing_headers", "wrapper_types_for_page_size"}

Library == <<"Library">>
MCNames == {Library, Append(Library, "Get")}
MethodConfig(policy, timeout, maxReq, maxRes) ==
  [retryPolicy |-> policy, timeout |-> timeout, maxReq |-> maxReq, maxRes |-> maxRes]
MCMethodConfigs ==
  {MethodConfig({}, {}, {7}, {}),        MethodConfig({{"UNAVAILABLE"}}, {}, {}, {8}),
   MethodConfig({{}}, {30}, {}, {}),     MethodConfig({}, {60}, {9}, {9})}
MCRPCs ==
  {[serv |-> Library, name |-> "Get", streaming |-> FALSE],
   [serv |-> Library, name |-> "Watch", streaming |-> TRUE]}
=============================================================================
