------------------------------ MODULE MCGenerator ------------------------------
(***************************************************************************)
(* Requests for Generator: one or two services whose methods are taken     *)
(* from a pool with every kind of method and every way a method can be     *)
(* refused, for each choice of transports, with and without snippets,      *)
(* metadata and mixins, and a package with a custom operation.             *)
(***************************************************************************)
EXTENDS Generator

In(pkg) == <<pkg, "Request">>
M(name, out) ==
  [name |-> name, in |-> In("pb"), out |-> out, page |-> NoPage, info |-> NoInfo,
   cs |-> FALSE, ss |-> FALSE, opts |-> TRUE, http |-> "post", opServ |-> "none",
   proto |-> "library"]
Paged(name, elem) == [M(name, name) EXCEPT !.page = [iter |-> "BookIterator", elem |-> elem], !.http = "get"]
Operation(name, resp) ==
  [M(name, "longrunning.Operation") EXCEPT !.info = [response |-> resp, meta |-> "Meta"]]

Get == [M("Get", "Book") EXCEPT !.http = "get"]
Plain == [M("Plain", "Book") EXCEPT !.http = "none", !.opts = FALSE]
NoRule == [M("NoRule", "Book") EXCEPT !.http = "none"]
Delete == M("Delete", "Empty")
List == Paged("List", "pb.Book")
Search == Paged("Search", "pb.Book")
Create == Operation("Create", "Book")
Purge == [Operation("Purge", "Empty") EXCEPT !.http = "none"]
NoOpInfo == M("NoOpInfo", "longrunning.Operation")
Upload == [M("Upload", "Book") EXCEPT !.cs = TRUE, !.http = "none", !.opts = FALSE]
Watch == [M("Watch", "Book") EXCEPT !.ss = TRUE]
Chat == [M("Chat", "Book") EXCEPT !.cs = TRUE, !.ss = TRUE, !.http = "none"]
TwoSizes == [M("TwoSizes", "List") EXCEPT !.page = BadPage]
TwoSizesEmpty == [M("TwoSizesEmpty", "Empty") EXCEPT !.page = BadPage]
GetIamPolicy == M("GetIamPolicy", "Policy")
GetLocation == M("GetLocation", "Location")

Pool == {Get, Plain, NoRule, Delete, List, Search, Create, Purge, NoOpInfo, Upload,
         Watch, Chat, TwoSizes, TwoSizesEmpty, GetIamPolicy, GetLocation}
Serv(name, methods) == [name |-> name, pkg |-> "pb", methods |-> methods]
Second == {<<Get>>, <<Plain>>, <<List, Create>>, <<[Create EXCEPT !.info.response = "Page"]>>}
ServiceLists ==
  {<<Serv("Library", <<m, n>>)>> : m \in Pool, n \in {Get, List, Create, Upload}}
    \cup {<<Serv("Shelf", ns), Serv("Library", <<m>>)>> : ns \in Second, m \in Pool}
Distinct(services) ==
  \A i \in DOMAIN services : Len(services[i].methods) = 2 =>
     services[i].methods[1].name # services[i].methods[2].name

(* What a service config mixes in, and how many APIs it lists. *)
Mixed(m, proto) == [m EXCEPT !.in = In(proto), !.proto = proto]
ListLocations ==
  [Paged("ListLocations", "locationpb.Location") EXCEPT !.page.iter = "LocationIterator"]
Locations == <<Mixed(ListLocations, "google.cloud.location"),
               Mixed(GetLocation, "google.cloud.location")>>
IAMPolicy == <<Mixed(GetIamPolicy, "google.iam.v1")>>
Operations == <<Mixed(M("GetOperation", "longrunning.Operation"), "google.longrunning"),
                Mixed(M("DeleteOperation", "Empty"), "google.longrunning")>>
Config(apis, locations, iamPolicy, operations) ==
  [apis |-> apis,
   mixins |-> [locations |-> locations, iamPolicy |-> iamPolicy, operations |-> operations]]
NoMixins == Config(1, <<>>, <<>>, <<>>)
IAMOnly == Config(2, <<>>, IAMPolicy, <<>>)
Configs == {NoMixins, IAMOnly, Config(4, Locations, IAMPolicy, Operations)}

Request(services, ts, snippets, config) ==
  [services |-> services, transports |-> ts, snippets |-> snippets, metadata |-> snippets,
   customOp |-> FALSE, apis |-> config.apis, mixins |-> config.mixins]

(* Left out: getMixinMethods does not look at the services for the methods of
   Locations and Operations, so these clients would have one twice. *)
Redeclared(r) ==
  /\ r.apis > 1
  /\ \E s \in Range1(r.services) : \E own \in Range1(s.methods) :
       \E m \in Range1(r.mixins.locations) \cup Range1(r.mixins.operations) :
         own.name = m.name
AllRequests ==
  {r \in {Request(ss, ts, config # IAMOnly, config) :
           ss \in {l \in ServiceLists : Distinct(l)},
           ts \in {<<"grpc">>, <<"rest">>, <<"grpc", "rest">>}, config \in Configs} :
     ~Redeclared(r)}

(* The client of IAMPolicy itself: its own API is the only one. *)
IAMPolicyRequest ==
  Request(<<Serv("IAMPolicy", <<GetIamPolicy>>)>>, <<"grpc", "rest">>, TRUE,
          Config(1, <<>>, IAMPolicy, <<>>))

(* A service without HTTP bindings while REST is the only transport: its own
   run, MCGeneratorREST.cfg. *)
NoBindings(r) ==
  r.transports = <<"rest">> /\ \E s \in Range1(r.services) : \A m \in Range1(s.methods) : m.http = "none"

(* The custom operation of a DIREGAPIC, REST only. *)
Insert == [M("Insert", "Operation") EXCEPT !.opServ = "Ops"]
CustomOpRequest(first) ==
  [Request(<<Serv("Library", <<first, Insert>>), Serv("Ops", <<[Get EXCEPT !.out = "Operation"],
                                                        M("Wait", "Operation")>>)>>,
           <<"rest">>, TRUE, NoMixins) EXCEPT !.customOp = TRUE]

MCRequests ==
  {r \in AllRequests : ~NoBindings(r)} \cup {IAMPolicyRequest}
    \cup {CustomOpRequest(m) : m \in {Get, Delete, List}}
MCRequestsREST == {r \in AllRequests : NoBindings(r)}
===============================================================================
