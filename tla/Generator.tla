------------------------------- MODULE Generator -------------------------------
(***************************************************************************)
(* gen() of gengapic/gengapic.go: one run of protoc-gen-go_gapic, from a   *)
(* parsed CodeGeneratorRequest to the files of the response.               *)
(*                                                                         *)
(* The generator prints Go text into one shared buffer that is committed   *)
(* file by file, while it walks services, transports and methods and       *)
(* collects on the way what later files must define (iterators, operation  *)
(* wrappers, metadata).  Text is abstracted to what makes the package      *)
(* compile: the identifiers a file defines, each with its signature, and   *)
(* the identifiers it uses, each with as much of a signature as the use    *)
(* depends on.                                                             *)
(*                                                                         *)
(* Operators named Bad... are not the code: each is the definition after   *)
(* it with a plausible defect, kept to show that a property notices it.    *)
(***************************************************************************)
EXTENDS Naturals, Sequences

CONSTANT Requests   (* parsed and validated requests: see IsRequest *)

VARIABLES
  request,     (* descriptors and options; only cfg.transports ever changes *)
  transports,  (* g.cfg.transports                                          *)
  saved,       (* gen's local transports: what to restore                   *)
  pc,          (* the step of gen()                                         *)
  current,     (* index of the service being generated                      *)
  todo,        (* methods the present loop has still to visit               *)
  lanes,       (* transports genGRPCMethods/genRESTMethods still to run for *)
  buffer,      (* g.pt since the last reset: definitions and uses           *)
  iters,       (* g.aux.iters: iterator name to element type                *)
  wrappers,    (* g.aux.opWrappers: wrapper name to operation_info          *)
  wrapped,     (* domain of g.aux.methodToWrapper                           *)
  listed,      (* snippetMetadata: methods added                            *)
  explained,   (* snippetMetadata: methods with parameters and result       *)
  metadata,    (* g.metadata: service, transport, rpc                       *)
  files        (* g.resp.File                                               *)

loopVars == <<current, todo, lanes>>
auxVars == <<iters, wrappers, wrapped>>
metaVars == <<listed, explained, metadata>>
cfgVars == <<request, transports, saved>>
vars == <<cfgVars, pc, loopVars, buffer, auxVars, metaVars, files>>

NoText == [defs |-> {}, refs |-> {}]
NoPage == [iter |-> "none", elem |-> "none"]
BadPage == [iter |-> "none", elem |-> "two page size fields"]
NoInfo == [response |-> "none", meta |-> "none"]

Range1(seq) == {seq[i] : i \in DOMAIN seq}
IsList(seq) == seq \in Seq(Range1(seq))

(* opts: the descriptor has options, whichever they are; proto: the proto
   package that declares the method. *)
IsMethod(m) ==
  /\ m.page.iter = "none" => m.page \in {NoPage, BadPage}
  /\ m.cs \in BOOLEAN /\ m.ss \in BOOLEAN
  /\ m.opts \in BOOLEAN
  /\ m.http \in {"none", "get", "post"}
  /\ m.http # "none" \/ m.info # NoInfo \/ m.opServ # "none" => m.opts
  /\ m.out = "longrunning.Operation" => m.page = NoPage

(* The mixin APIs and their methods, some of which a service config lists;
   apis counts all the APIs it lists. *)
LocationsRPCs == {"ListLocations", "GetLocation"}
IAMPolicyRPCs == {"SetIamPolicy", "GetIamPolicy", "TestIamPermissions"}
OperationsRPCs == {"ListOperations", "GetOperation", "DeleteOperation",
                   "CancelOperation", "WaitOperation"}
IsMixin(seq, names) ==
  /\ IsList(seq)
  /\ \A m \in Range1(seq) :
        /\ IsMethod(m)
        /\ m.name \in names
        /\ m.out # "Operation"   (* a message of the generated package *)
        /\ m.out = "longrunning.Operation" => m.proto = "google.longrunning"
MixinSet(r) ==
  Range1(r.mixins.locations) \cup Range1(r.mixins.iamPolicy) \cup Range1(r.mixins.operations)

IsRequest(r) ==
  /\ r.transports \in {<<"grpc">>, <<"rest">>, <<"grpc", "rest">>}
  /\ r.snippets \in BOOLEAN /\ r.metadata \in BOOLEAN /\ r.customOp \in BOOLEAN
  /\ IsList(r.services) /\ r.services # <<>>
  /\ \A s \in Range1(r.services) :
        /\ IsList(s.methods)
        /\ \A m \in Range1(s.methods) : IsMethod(m)
  /\ r.apis \in Nat
  /\ IsMixin(r.mixins.locations, LocationsRPCs)
  /\ IsMixin(r.mixins.iamPolicy, IAMPolicyRPCs)
  /\ IsMixin(r.mixins.operations, OperationsRPCs)

ASSUME RequestsAssumption == \A r \in Requests : IsRequest(r)

-------------------------------------------------------------------------------
(* What a method is. *)
Streaming(m) == m.cs \/ m.ss
PagingError(m) == ~Streaming(m) /\ m.page = BadPage
IsPaged(m) == ~Streaming(m) /\ m.page.iter # "none"
IsLRO(m) == m.out = "longrunning.Operation" /\ m.proto # "google.longrunning"
IsCustomOp(m) ==
  /\ request.customOp
  /\ m.out = "Operation"
  /\ m.name # "Wait"
  /\ m.opts /\ m.http # "get"

Is(kind, m) ==
  CASE kind = "empty" -> m.out = "Empty"
    [] kind = "paging" -> IsPaged(m)
    [] kind = "lro" -> IsLRO(m)
    [] kind = "operation" -> IsLRO(m) \/ IsCustomOp(m)
    [] kind = "clientStream" -> m.cs
    [] kind = "serverStream" -> m.ss
    [] kind = "bidi" -> m.cs /\ m.ss
    [] kind = "unary" -> TRUE

(* The interface, the client, its transports and the examples each decide
   what a method is in an order of their own. *)
InterfaceOrder == <<"empty", "paging", "lro", "clientStream", "serverStream", "unary">>
ClientOrder == <<"empty", "lro", "paging", "clientStream", "serverStream", "unary">>
BadTransportOrder == <<"lro", "empty", "paging", "serverStream", "clientStream", "unary">>
TransportOrder == <<"lro", "empty", "paging", "clientStream", "serverStream", "unary">>
ExampleOrder == <<"paging", "operation", "empty", "bidi", "unary">>

Kind(order, m) ==
  order[CHOOSE i \in DOMAIN order :
          Is(order[i], m) /\ \A j \in 1 .. i - 1 : ~Is(order[j], m)]

OpName(m) == <<m.name, "Operation">>
Result(m) == IF IsCustomOp(m) THEN <<"operation", m.in, <<"Operation">> >>
             ELSE <<"message", m.in, m.out>>

(* A Go signature: what the caller does with the result, the request's type,
   the type of the result; pkg qualifies the name of a stream type. *)
Signature(kind, s, m, pkg) ==
  [empty        |-> <<"error", m.in>>,
   paging       |-> <<"iterator", m.in, m.page.iter>>,
   lro          |-> <<"operation", m.in, OpName(m)>>,
   clientStream |-> <<"stream", <<>>, <<pkg, s.name, m.name>> >>,
   serverStream |-> <<"stream", m.in, <<pkg, s.name, m.name>> >>,
   unary        |-> Result(m)][kind]

-------------------------------------------------------------------------------
(* Text. *)
Def(id, sig, by) == [id |-> id, sig |-> sig, by |-> by]
Ref(id, sig) == [id |-> id, sig |-> sig]

Reset(text) == NoText
Printed(text, defs, refs) ==
  [defs |-> text.defs \cup defs, refs |-> text.refs \cup refs]
File(name, text) == [name |-> name, defs |-> text.defs, refs |-> text.refs]

Services == request.services
Service == Services[current]

(* getMixinMethods: the mixins of a config that lists more than one API.  A
   service that declares a configured method of IAMPolicy keeps that mixin out
   of every client; the other two stay whatever the services declare. *)
IAMPolicyOverridden ==
  \E s \in Range1(Services), m \in Range1(request.mixins.iamPolicy) :
    \E own \in Range1(s.methods) : own.name = m.name
BadMixins ==   (* no look at the services *)
  IF request.apis <= 1 THEN <<>>
  ELSE request.mixins.locations \o request.mixins.iamPolicy \o request.mixins.operations
Mixins ==
  IF request.apis <= 1 THEN <<>>
  ELSE request.mixins.locations
         \o (IF IAMPolicyOverridden THEN <<>> ELSE request.mixins.iamPolicy)
         \o request.mixins.operations
Methods(s) == s.methods \o Mixins

HasRESTMethod(s) == \E m \in Range1(s.methods) : m.http # "none"

Fail == /\ pc' = "failed"
        /\ files' = {}
        /\ UNCHANGED <<cfgVars, loopVars, buffer, auxVars, metaVars>>

Init ==
  /\ request \in Requests
  /\ transports = request.transports
  /\ saved = <<>>
  /\ pc = "helpers"
  /\ current = 1
  /\ todo = <<>>
  /\ lanes = <<>>
  /\ buffer = NoText
  /\ iters = {}
  /\ wrappers = {}
  /\ wrapped = {}
  /\ listed = {}
  /\ explained = {}
  /\ metadata = {}
  /\ files = {}

-------------------------------------------------------------------------------
(* helpers.go, shared by all clients. *)
RESTHelpers == {"executeHTTPRequest", "executeHTTPRequestWithResponse",
                "executeStreamingHTTPRequest"}
BadHelperFuncs ==   (* one transport's helpers only *)
  {"getVersionClient", "DefaultAuthScopes", "clientHook"}
    \cup (IF "rest" \in Range1(transports) THEN RESTHelpers ELSE {"executeRPC"})
HelperFuncs ==
  {"getVersionClient", "DefaultAuthScopes", "clientHook"}
    \cup (IF "rest" \in Range1(transports) THEN RESTHelpers ELSE {})
    \cup (IF "grpc" \in Range1(transports) THEN {"executeRPC"} ELSE {})
Helper(f) == <<"func", f>>

GenAndCommitHelpers ==
  /\ pc = "helpers"
  /\ buffer' = Printed(Reset(buffer), {Def(Helper(f), <<"func">>, 0) : f \in HelperFuncs}, {})
  /\ files' = files \cup {File(<<"helpers">>, buffer')}
  /\ pc' = "service"
  /\ UNCHANGED <<cfgVars, loopVars, auxVars, metaVars>>

NextService ==
  /\ pc = "service"
  /\ IF current > Len(Services)
     THEN pc' = "snippetMetadata" /\ UNCHANGED todo
     ELSE IF request.snippets
          THEN pc' = "snippets" /\ todo' = Methods(Service)
          ELSE pc' = "client" /\ todo' = <<>>
  /\ UNCHANGED <<cfgVars, current, lanes, buffer, auxVars, metaVars, files>>

New(s, t) == <<"New", s.name, t>>
ClientMethod(s, m) == <<"client", s.name, m.name>>

(* "Pick the first transport for simplicity": example code calls its
   constructor and uses the result of the method as its kind suggests. *)
OpType(m) == <<"type">> \o (IF IsLRO(m) THEN OpName(m) ELSE <<"Operation">>)
WaitShape(m) == IF m.info.response \in {"none", "Empty"} THEN "error" ELSE "response"
ExampleRefs(s, m) ==
  LET kind == Kind(ExampleOrder, m)
      shape == [paging |-> "iterator", operation |-> "operation", empty |-> "error",
                bidi |-> "stream", unary |-> "message"][kind]
      waits == {Ref(OpType(m), <<"type", WaitShape(m)>>)}
  IN  {Ref(New(s, transports[1]), <<"func">>), Ref(ClientMethod(s, m), <<shape>>)}
        \cup (IF kind = "operation" THEN waits ELSE {})

(* Examples are written for unary and bidirectional methods only. *)
BadHasExample(m) == ~Streaming(m)   (* bidirectional ones forgotten *)
HasExample(m) == m.cs = m.ss

GenSnippet ==
  /\ pc = "snippets"
  /\ todo # <<>>
  /\ LET m == Head(todo) IN
       IF ~HasExample(m)
       THEN UNCHANGED <<pc, buffer, listed, files>>
       ELSE /\ ~PagingError(m)
            /\ buffer' = Printed(Reset(buffer), {}, ExampleRefs(Service, m))
            /\ files' = files \cup {File(<<"snippet", Service.name, m.name>>, buffer')}
            /\ listed' = listed \cup {<<Service.name, m.name>>}
            /\ UNCHANGED pc
  /\ todo' = Tail(todo)
  /\ UNCHANGED <<cfgVars, current, lanes, auxVars, explained, metadata>>

SnippetFails ==
  /\ pc = "snippets"
  /\ todo # <<>>
  /\ HasExample(Head(todo)) /\ PagingError(Head(todo))
  /\ Fail

SnippetsDone ==
  /\ pc = "snippets"
  /\ todo = <<>>
  /\ pc' = "client"
  /\ UNCHANGED <<cfgVars, loopVars, buffer, auxVars, metaVars, files>>

-------------------------------------------------------------------------------
(* NAME_client.go.  A service without HTTP bindings gets a gRPC client only,
   whatever transports are enabled. *)
ServiceTransports(s) == IF HasRESTMethod(s) THEN transports ELSE <<"grpc">>

StartClient ==
  /\ pc = "client"
  /\ saved' = transports
  /\ transports' = ServiceTransports(Service)
  /\ buffer' = Reset(buffer)
  /\ todo' = Methods(Service)
  /\ pc' = "interface"
  /\ UNCHANGED <<request, current, lanes, auxVars, metaVars, files>>

(* iterTypeOf: one iterator for each name; the first element type stays. *)
IterNames == {p[1] : p \in iters}
AddIter(page) ==
  IF page.iter \in IterNames THEN iters ELSE iters \cup {<<page.iter, page.elem>>}

(* The entries of a method in the interface or among the wrappers: an
   operation also gets a constructor that takes the operation's name. *)
MethodDefs(receiver, s, m, sig) ==
  {Def(<<receiver, s.name, m.name>>, sig, Len(todo))}
    \cup (IF sig[1] = "operation" /\ IsLRO(m)
          THEN {Def(<<receiver, s.name>> \o OpName(m), <<"byName">>, Len(todo))}
          ELSE {})

(* internalClientIntfInit; stream types are qualified with the package of
   the request type, m.in[1]. *)
InterfaceMethod ==
  /\ pc = "interface"
  /\ todo # <<>>
  /\ LET m == Head(todo)
         kind == Kind(InterfaceOrder, m)
     IN  /\ kind = "empty" \/ ~PagingError(m)
         /\ buffer' = Printed(buffer,
              MethodDefs("interface", Service, m, Signature(kind, Service, m, m.in[1])), {})
         /\ iters' = IF kind = "paging" THEN AddIter(m.page) ELSE iters
  /\ todo' = Tail(todo)
  /\ UNCHANGED <<cfgVars, pc, current, lanes, wrappers, wrapped, metaVars, files>>

InterfaceFails ==
  /\ pc = "interface"
  /\ todo # <<>>
  /\ Kind(InterfaceOrder, Head(todo)) # "empty" /\ PagingError(Head(todo))
  /\ Fail

InterfaceDone ==
  /\ pc = "interface"
  /\ todo = <<>>
  /\ todo' = Methods(Service)
  /\ pc' = "wrappers"
  /\ UNCHANGED <<cfgVars, current, lanes, buffer, auxVars, metaVars, files>>

(* genClientWrapperMethod, whose error clientInit drops: the method would be
   missing.  The snippet's parameters and result are those of the wrapper;
   an entry that was never added would be a nil dereference. *)
BadExplained(s, m, sig) == <<s.name, m.name, <<"message", m.in, m.out>> >>   (* raw *)
Explained(s, m, sig) == <<s.name, m.name, sig>>

WrapperMethod ==
  /\ pc = "wrappers"
  /\ todo # <<>>
  /\ LET m == Head(todo)
         kind == Kind(ClientOrder, m)
         sig == Signature(kind, Service, m, Service.pkg)
     IN  /\ todo' = Tail(todo)
         /\ IF kind \notin {"empty", "lro"} /\ PagingError(m)
            THEN UNCHANGED <<pc, buffer, iters, explained>>
            ELSE /\ buffer' = Printed(buffer, MethodDefs("client", Service, m, sig), {})
                 /\ iters' = IF kind = "paging" THEN AddIter(m.page) ELSE iters
                 /\ IF ~request.snippets \/ m.cs # m.ss
                    THEN UNCHANGED <<pc, explained>>
                    ELSE IF <<Service.name, m.name>> \in listed
                    THEN /\ explained' = explained \cup {Explained(Service, m, sig)}
                         /\ UNCHANGED pc
                    ELSE pc' = "panicked" /\ UNCHANGED explained
  /\ UNCHANGED <<cfgVars, current, lanes, wrappers, wrapped, listed, metadata, files>>

(* The service that manages a client's custom operations: the one its first
   method with google.cloud.operation_service names. *)
OpService(s) ==
  LET ms == {i \in DOMAIN s.methods : s.methods[i].opServ # "none"}
  IN  IF ms = {} \/ ~request.customOp THEN "none"
      ELSE s.methods[CHOOSE i \in ms : \A j \in ms : i <= j].opServ

(* grpcClientInit and restClientInit, with the constructors. *)
ConstructorRefs(s, t) ==
  {Ref(Helper("getVersionClient"), <<"func">>), Ref(Helper("DefaultAuthScopes"), <<"func">>),
   Ref(Helper("clientHook"), <<"func">>)}
    \cup (IF t = "rest" /\ OpService(s) # "none"
          THEN {Ref(<<"New", OpService(s), "rest">>, <<"func">>)} ELSE {})

MakeTransports ==
  /\ pc = "wrappers"
  /\ todo = <<>>
  /\ buffer' = Printed(buffer,
       {Def(New(Service, transports[i]), <<"func">>, i) : i \in DOMAIN transports},
       UNION {ConstructorRefs(Service, t) : t \in Range1(transports)})
  /\ lanes' = transports
  /\ todo' = Methods(Service)
  /\ pc' = "transport"
  /\ UNCHANGED <<cfgVars, current, auxVars, metaVars, files>>

(* genGRPCMethod and genRESTMethod. *)
TransportSignature(t, kind, s, m) ==
  IF t = "grpc" /\ kind = "unary" THEN <<"message", m.in, m.out>>
  ELSE Signature(kind, s, m, s.pkg)

Executor(t, kind) ==
  IF kind = "clientStream" \/ (t = "grpc" /\ kind = "serverStream") THEN {}
  ELSE IF t = "grpc" THEN {"executeRPC"}
  ELSE IF kind = "serverStream" THEN {"executeStreamingHTTPRequest"}
  ELSE {"executeHTTPRequest"}

TransportRefs(t, kind, s, m) ==
  {Ref(Helper(f), <<"func">>) : f \in Executor(t, kind)}
    \cup (IF kind = "paging" THEN {Ref(<<"type", m.page.iter>>, <<"iterator", m.page.elem>>)} ELSE {})
    \cup (IF kind = "lro" THEN {Ref(OpType(m), <<"type">>)} ELSE {})
    \cup (IF t = "rest" /\ kind = "unary" /\ IsCustomOp(m)
          THEN {Ref(OpType(m), <<"type">>), Ref(<<"handle", m.opServ>>, <<"type">>)}
          ELSE {})

(* maybeAddOperationWrapper: operation_info must be complete, and two
   methods of one name must agree on it. *)
WrapperError(m) ==
  \/ m.info.response = "none" \/ m.info.meta = "none"
  \/ \E w \in wrappers : w[1] = OpName(m) /\ w[2] # m.info

TransportError(t, kind, m) ==
  \/ kind = "lro" /\ WrapperError(m)
  \/ kind \notin {"lro", "empty"} /\ PagingError(m)
  \/ t = "rest" /\ kind # "clientStream" /\ ~m.opts   (* getHTTPInfo: nil *)

BadRecorded(t, s, m) == IF m.cs THEN {} ELSE {<<s.name, t, m.name>>}   (* no streams *)
Recorded(t, s, m) == {<<s.name, t, m.name>>}

TransportMethod ==
  /\ pc = "transport"
  /\ lanes # <<>> /\ todo # <<>>
  /\ LET m == Head(todo)
         t == Head(lanes)
         kind == Kind(TransportOrder, m)
         sig == TransportSignature(t, kind, Service, m)
     IN  /\ ~TransportError(t, kind, m)
         /\ buffer' = Printed(buffer, {Def(<<t, Service.name, m.name>>, sig, Len(todo))},
                              TransportRefs(t, kind, Service, m))
         /\ iters' = IF kind = "paging" THEN AddIter(m.page) ELSE iters
         /\ wrappers' = IF kind = "lro" THEN wrappers \cup {<<OpName(m), m.info>>} ELSE wrappers
         /\ wrapped' = IF kind = "lro" THEN wrapped \cup {<<Service.name, m.name>>} ELSE wrapped
         /\ metadata' = metadata \cup Recorded(t, Service, m)
  /\ todo' = Tail(todo)
  /\ UNCHANGED <<cfgVars, pc, current, lanes, listed, explained, files>>

TransportFails ==
  /\ pc = "transport"
  /\ lanes # <<>> /\ todo # <<>>
  /\ TransportError(Head(lanes), Kind(TransportOrder, Head(todo)), Head(todo))
  /\ Fail

TransportDone ==
  /\ pc = "transport"
  /\ lanes # <<>> /\ todo = <<>>
  /\ lanes' = Tail(lanes)
  /\ todo' = IF Len(lanes) > 1 THEN Methods(Service) ELSE <<>>
  /\ UNCHANGED <<cfgVars, pc, current, buffer, auxVars, metaVars, files>>

(* genOperationBuilders, after which the client's file is committed. *)
BuilderDefs(s) ==
  LET lros == {i \in DOMAIN s.methods : <<s.name, s.methods[i].name>> \in wrapped}
  IN  {Def(<<t, s.name>> \o OpName(s.methods[i]), <<"byName">>, i) :
         i \in lros, t \in Range1(transports)}

GenOperationBuilders ==
  /\ pc = "transport"
  /\ lanes = <<>>
  /\ buffer' = Printed(buffer, BuilderDefs(Service), {})
  /\ files' = files \cup {File(<<"client", Service.name>>, buffer')}
  /\ pc' = "example"
  /\ UNCHANGED <<cfgVars, loopVars, auxVars, metaVars>>

-------------------------------------------------------------------------------
(* The two files of examples, from the transports of this service. *)
MethodSet(s) == Range1(Methods(s))

GenExampleFile ==
  /\ pc = "example"
  /\ \A m \in MethodSet(Service) : HasExample(m) => ~PagingError(m)
  /\ buffer' = Printed(Reset(buffer), {},
       {Ref(New(Service, t), <<"func">>) : t \in Range1(transports)}
         \cup UNION {ExampleRefs(Service, m) : m \in {n \in MethodSet(Service) : HasExample(n)}})
  /\ files' = files \cup {File(<<"example", Service.name>>, buffer')}
  /\ pc' = "iterExample"
  /\ UNCHANGED <<cfgVars, loopVars, auxVars, metaVars>>

ExampleFails ==
  /\ pc = "example"
  /\ \E m \in MethodSet(Service) : HasExample(m) /\ PagingError(m)
  /\ Fail

(* Afterwards the original transports come back "for the next service that
   may have REST-able RPCs". *)
BadRestored == transports   (* not put back *)
Restored == IF HasRESTMethod(Service) THEN transports ELSE saved

GenExampleIteratorFile ==
  /\ pc = "iterExample"
  /\ buffer' = Printed(Reset(buffer), {},
       UNION {{Ref(New(Service, transports[1]), <<"func">>),
               Ref(ClientMethod(Service, m), <<"iterator">>)} :
                 m \in {n \in MethodSet(Service) : IsPaged(n)}})
  /\ files' = files \cup {File(<<"iterExample", Service.name>>, buffer')}
  /\ transports' = Restored
  /\ current' = current + 1
  /\ pc' = "service"
  /\ UNCHANGED <<request, saved, todo, lanes, auxVars, metaVars>>

-------------------------------------------------------------------------------
(* The files of the whole package. *)
GenSnippetMetadata ==
  /\ pc = "snippetMetadata"
  /\ IF request.snippets
     THEN /\ buffer' = Reset(buffer)
          /\ files' = files \cup {File(<<"snippet_metadata">>, NoText)}
     ELSE UNCHANGED <<buffer, files>>
  /\ pc' = "doc"
  /\ UNCHANGED <<cfgVars, loopVars, auxVars, metaVars>>

GenDocFile ==
  /\ pc = "doc"
  /\ buffer' = Reset(buffer)
  /\ files' = files \cup {File(<<"doc">>, buffer')}
  /\ pc' = "gapicMetadata"
  /\ UNCHANGED <<cfgVars, loopVars, auxVars, metaVars>>

GenGapicMetadataFile ==
  /\ pc = "gapicMetadata"
  /\ IF request.metadata
     THEN /\ buffer' = Printed(Reset(buffer), {},
               {Ref(<<r[2], r[1], r[3]>>, <<>>) : r \in metadata})
          /\ files' = files \cup {File(<<"gapic_metadata">>, buffer')}
     ELSE UNCHANGED <<buffer, files>>
  /\ pc' = "operations"
  /\ UNCHANGED <<cfgVars, loopVars, auxVars, metaVars>>

(* operations.go: the custom operation type and one handle for each service
   that manages operations of some service. *)
Handles == {OpService(s) : s \in Range1(Services)} \ {"none"}

CustomOperationType ==
  /\ pc = "operations"
  /\ IF request.customOp
     THEN /\ buffer' = Printed(Reset(buffer),
               {Def(<<"type", "Operation">>, <<"type", "error">>, 0)}
                 \cup {Def(<<"handle", h>>, <<"type">>, 0) : h \in Handles}, {})
          /\ files' = files \cup {File(<<"operations">>, buffer')}
     ELSE UNCHANGED <<buffer, files>>
  /\ pc' = "aux"
  /\ UNCHANGED <<cfgVars, loopVars, auxVars, metaVars>>

(* auxiliary.go: every wrapper and iterator that was collected. *)
WrapperDef(w) ==
  Def(<<"type">> \o w[1],
      <<"type", IF w[2].response = "Empty" THEN "error" ELSE "response", w[2].meta>>, 0)
IterDef(p) == Def(<<"type", p[1]>>, <<"iterator", p[2]>>, 0)

GenAuxFile ==
  /\ pc = "aux"
  /\ buffer' = Printed(Reset(buffer),
       {WrapperDef(w) : w \in wrappers} \cup {IterDef(p) : p \in iters}, {})
  /\ files' = files \cup {File(<<"auxiliary">>, buffer')}
  /\ pc' = "done"
  /\ UNCHANGED <<cfgVars, loopVars, auxVars, metaVars>>

GenService ==
  \/ NextService
  \/ GenSnippet \/ SnippetFails \/ SnippetsDone
  \/ StartClient
  \/ InterfaceMethod \/ InterfaceFails \/ InterfaceDone
  \/ WrapperMethod \/ MakeTransports
  \/ TransportMethod \/ TransportFails \/ TransportDone
  \/ GenOperationBuilders
  \/ GenExampleFile \/ ExampleFails \/ GenExampleIteratorFile

GenPackage ==
  \/ GenAndCommitHelpers
  \/ GenSnippetMetadata \/ GenDocFile \/ GenGapicMetadataFile
  \/ CustomOperationType \/ GenAuxFile

Next == GenService \/ GenPackage

Spec == Init /\ [][Next]_vars

-------------------------------------------------------------------------------
Inside == {"interface", "wrappers", "transport", "example", "iterExample"}
Steps == Inside \cup
  {"helpers", "service", "snippets", "client", "snippetMetadata", "doc",
   "gapicMetadata", "operations", "aux", "done", "failed", "panicked"}

(* cfg.transports is changed for the files of one service only: every other
   step, and every next service, sees the transports that were asked for. *)
OptionsKept ==
  pc \notin Inside \cup {"failed", "panicked"} => transports = request.transports

(* What makes OptionsKept inductive: inside a service the original transports
   are in gen's local variable, and the service's own were derived from them. *)
OptionsInv ==
  /\ pc \in Steps
  /\ OptionsKept
  /\ pc \in Inside =>
       /\ saved = request.transports
       /\ transports = IF HasRESTMethod(Service) THEN saved ELSE <<"grpc">>

AllDefs == UNION {f.defs : f \in files}
AllRefs == UNION {f.refs : f \in files}
Fits(ref, def) == ref.id = def.id /\ ref.sig = SubSeq(def.sig, 1, Len(ref.sig))

(* A package that is answered without an error links: whatever a file uses -
   helper functions, constructors in examples and snippets, iterators,
   operation types and handles, the methods metadata names - some file
   defines, in the way it is used. *)
Linked ==
  pc = "done" => \A r \in AllRefs : \E d \in AllDefs : Fits(r, d)

(* Nothing is defined twice, in one file or in two: text does not leak from
   one file into the next, a method of the IAM mixin and a service's own
   redefinition of it do not meet, and methods that share an iterator or a
   wrapper share one definition.  The requests leave out a service that
   declares a method of a configured Locations or Operations mixin: its client
   has that method twice. *)
DefinedOnce ==
  /\ \A d, e \in AllDefs : d.id = e.id => d = e
  /\ \A f, g \in files : f # g => \A d \in f.defs, e \in g.defs : d.id # e.id

(* The client, its interface and every transport behind it agree on the
   methods and their signatures, and no RPC is missing, although each of them
   classifies methods in its own order and clientInit drops errors. *)
Surface(receiver, s) ==
  {<<SubSeq(d.id, 3, Len(d.id)), d.sig>> : d \in {e \in AllDefs : e.id[1] = receiver /\ e.id[2] = s.name}}
SameSurface ==
  pc = "done" =>
    \A s \in Range1(Services) :
      /\ \A m \in MethodSet(s) : \E e \in Surface("interface", s) : e[1] = <<m.name>>
      /\ Surface("client", s) = Surface("interface", s)
      /\ \A t \in {"grpc", "rest"} :
            (\E d \in AllDefs : d.id = New(s, t)) => Surface(t, s) = Surface("interface", s)

(* gapic_metadata.json lists the methods of each transport's client that were
   generated, and no other. *)
MetadataMatches ==
  pc = "done" =>
    metadata = {<<d.id[2], d.id[1], d.id[3]>> :
                 d \in {e \in AllDefs : e.id[1] \in {"grpc", "rest"} /\ Len(e.id) = 3}}

(* Snippet metadata is filled in two passes, when a snippet is generated and
   when the client's wrapper is.  No wrapper updates an entry that the first
   pass has not added, which would crash the generator. *)
EntriesExist == pc # "panicked"

(* What makes it inductive: the methods that have left the first pass's loop
   are listed, and all of them are when the second pass runs. *)
AllListed(ms) ==
  request.snippets =>
    \A m \in ms : HasExample(m) => <<Service.name, m.name>> \in listed
EntriesInv ==
  /\ request \in Requests
  /\ pc \in Steps
  /\ EntriesExist
  /\ current \in Nat \ {0}
  /\ pc \in Inside \cup {"snippets", "client"} => current <= Len(Services)
  /\ pc \in {"snippets", "interface", "wrappers"} => todo \in Seq(MethodSet(Service))
  /\ pc = "snippets" => AllListed(MethodSet(Service) \ Range1(todo))
  /\ pc \in {"client", "interface", "wrappers"} => AllListed(MethodSet(Service))

(* What lets auxiliary.go define each of its types once: the iterators and
   wrappers collected so far have one element type, one operation_info, for
   each name. *)
OneTypeEach ==
  /\ \A p, q \in iters : p[1] = q[1] => p[2] = q[2]
  /\ \A v, w \in wrappers : v[1] = w[1] => v[2] = w[2]

(* Both passes visit the same methods, and what is recorded of a method is
   what the client's method returns. *)
SnippetsExplained ==
  pc = "done" /\ request.snippets =>
    /\ listed = {<<e[1], e[2]>> : e \in explained}
    /\ \A e \in explained : \E d \in AllDefs :
          d.id = <<"client", e[1], e[2]>> /\ d.sig = e[3]

(* "If the service has no REST-able RPCs, then a REGAPIC should not be
   generated for it, even if REST is an enabled transport", nor used. *)
NoRESTWithoutBindings ==
  \A s \in Range1(Services) :
    ~HasRESTMethod(s) => \A x \in AllRefs \cup AllDefs : x.id # New(s, "rest")
===============================================================================
