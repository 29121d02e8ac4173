------------------------------- MODULE Transcoding -------------------------------
(***************************************************************************)
(* Where each field of a request goes when a REST method sends it, and     *)
(* which routing headers go with it: pathParams, queryParams, getLeafs,    *)
(* generateBaseURL and generateQueryString of gengapic/genrest.go, and     *)
(* insertRequestHeaders of gengapic/gengapic.go, with the name of the      *)
(* resource that telemetry is told of.  The generator decides from the     *)
(* descriptors, the emitted code from the values of a request.             *)
(*                                                                         *)
(* A path is the sequence of fields that leads to a leaf.  Of the value of *)
(* a leaf only this counts: nothing there, the default value explicitly or *)
(* not, or another value; and for routed strings which one.                *)
(*                                                                         *)
(* Operators named Bad... are not the code: each is the definition after   *)
(* it with a plausible defect, kept to show that a property notices it.    *)
(***************************************************************************)
EXTENDS Naturals, Sequences, FiniteSets, ResourceNames

CONSTANTS
  Messages,   (* message types                                              *)
  Request,    (* the type of the request                                    *)
  Fields,     (* fields of all of them                                      *)
  FieldsOf,   (* FieldsOf[t]: the fields of type t                          *)
  Info,       (* Info[f]: kind, repeated, presence, required, type          *)
  Methods,    (* annotated methods                                          *)
  Siblings,   (* the other methods of the package, for their URL patterns   *)
  Texts,      (* values of routed fields, besides the empty string          *)
  MaxSet      (* bound: leaves of a request that are not left alone         *)

NoField == "none"     (* no body, or no field *)
Whole == "*"
Empty == ""
NoMatch == "no match"

IsSequence(s) == s \in Seq({ s[i] : i \in DOMAIN s })

Kinds == {"primitive", "bytes", "wellknown", "message"}

ASSUME TranscodingAssumption ==
  /\ Request \in Messages /\ IsFiniteSet(Fields)
  /\ FieldsOf \in [Messages -> SUBSET Fields]
  /\ Info \in [Fields -> [kind : Kinds, repeated : BOOLEAN, required : BOOLEAN,
                          presence : {"none", "optional", "oneof"},
                          type : Messages \cup {NoField}]]
  /\ \A f \in Fields : Info[f].kind = "message" => Info[f].type \in Messages
  /\ \A f \in Fields : Info[f].repeated => Info[f].presence = "none"
  /\ \A t, u \in Messages : t # u => FieldsOf[t] \cap FieldsOf[u] = {}
  /\ \A m \in Methods : m.body \in FieldsOf[Request] \cup {NoField, Whole}
  /\ \A m \in Methods : \A s \in {m.patterns, m.references, m.params} : IsSequence(s)
  /\ \A m \in Methods : m.patterns # <<>> /\ \A i \in DOMAIN m.patterns : IsSequence(m.patterns[i])
  /\ {NoField, Whole} \cap Fields = {} /\ {Empty, NoMatch} \cap Texts = {}
  /\ MaxSet \in Nat

-------------------------------------------------------------------------------
(* The leaves of the request, as the generator sees them. *)
IsMessage(f) == Info[f].kind = "message"
Top(stack) == IF stack = <<>> THEN Request ELSE Info[stack[Len(stack)]].type
On(stack) == { stack[i] : i \in DOMAIN stack }

(* handleMsg: what recurse goes into, from a stack of fields. *)
Descends(stack, f, excluded) ==
  /\ IsMessage(f)
  /\ ~Info[f].repeated
  /\ f # excluded
  /\ f \notin On(stack)

Stacks(excluded) ==
  LET atDepth[n \in 0..Cardinality(Fields)] ==
        IF n = 0 THEN {<<>>}
        ELSE UNION { { Append(s, f) : f \in { g \in FieldsOf[Top(s)] : Descends(s, g, excluded) } }
                     : s \in atDepth[n - 1] }
  IN  UNION { atDepth[n] : n \in DOMAIN atDepth }

getLeafs == [excluded \in Fields \cup {NoField, Whole} |->
  UNION { { Append(s, f) : f \in { g \in FieldsOf[Top(s)] : ~IsMessage(g) } }
          : s \in Stacks(excluded) }]

(* pathParams: what the URL template names, in order; the other bindings of the
   method name more. *)
FieldsIn(patterns) ==
  LET upTo[i \in 0..Len(patterns)] ==
        IF i = 0 THEN <<>> ELSE upTo[i - 1] \o VariableFields(patterns[i])
  IN  upTo[Len(patterns)]
pathParams(m) == { m.patterns[1][i].field : i \in { j \in DOMAIN m.patterns[1] :
                                                    IsVariable(m.patterns[1][j]) } }

(* queryParams: nothing if the request is the body, else the leaves that are
   neither in the URL nor in the field that is the body. *)
queryParams(m) ==
  IF m.body = Whole THEN {}
  ELSE getLeafs[m.body] \ (pathParams(m) \cup {<<m.body>>})

(* A body is refused where HTTP has none. *)
Accepted(m) == m.body # NoField => m.verb \notin {"get", "delete"}

-------------------------------------------------------------------------------
VARIABLES
  method,    (* the method and its annotations                              *)
  ordered,   (* is the ordered-routing-headers feature on?                  *)
  heuristics, (* is the dynamic-resource-heuristics feature on?             *)
  has,       (* has[p]: "absent", "default" or "set", the value of leaf p   *)
  text,      (* text[p]: the string in routed leaf p                        *)
  pc,        (* the next part of the emitted method                         *)
  body,      (* the leaves that are sent in the body                        *)
  url,       (* the leaves that are sent in the path                        *)
  query,     (* the leaves that are sent in the query string                *)
  routing,   (* x-goog-request-params: a sequence of names and values       *)
  resource   (* the name of the resource that telemetry is told of          *)

vars == <<method, ordered, heuristics, has, text, pc, body, url, query, routing, resource>>
request == <<method, ordered, heuristics, has, text>>

AllLeafs == getLeafs[NoField]
LeafInfo(p) == Info[p[Len(p)]]

(* The values that Go and proto3 allow; a nil message is absent, and bytes may
   be nil or empty.  An absent parent leaves all its leaves alone. *)
LeftAlone(p) == IF LeafInfo(p).presence = "none" /\ LeafInfo(p).kind = "primitive"
                THEN "default"
                ELSE IF LeafInfo(p).repeated THEN "default" ELSE "absent"
Values(p) == {LeftAlone(p), "set"} \cup (IF LeafInfo(p).kind = "wellknown" THEN {} ELSE {"default"})

HasText(m) == { m.params[i].field : i \in DOMAIN m.params } \cup
              (IF m.dynamic THEN {} ELSE pathParams(m))

Init ==
  /\ method \in Methods
  /\ ordered \in BOOLEAN /\ heuristics \in BOOLEAN
  /\ \E touched \in { S \in SUBSET AllLeafs : Cardinality(S) <= MaxSet } :
       \E v \in { w \in [touched -> {"absent", "default", "set"}] :
                  \A p \in touched : w[p] \in Values(p) } :
         has = [p \in AllLeafs |-> IF p \in touched THEN v[p] ELSE LeftAlone(p)]
  /\ text \in { t \in [HasText(method) -> Texts \cup {Empty}] :
                  \A p \in HasText(method) : t[p] # Empty <=> has[p] = "set" }
  /\ pc = "body"
  /\ body = {} /\ url = {} /\ query = {} /\ routing = <<>> /\ resource = NoTarget

(* jsonReq, err := m.Marshal(...): the request or one field of it. *)
MarshalBody ==
  /\ pc = "body"
  /\ IF Accepted(method)
     THEN /\ pc' = "url"
          /\ body' = IF method.body = Whole THEN AllLeafs
                     ELSE { p \in AllLeafs : p[1] = method.body }
     ELSE pc' = "refused" /\ UNCHANGED body
  /\ UNCHANGED <<request, url, query, routing, resource>>

(* generateBaseURL: the fields in the order of the template. *)
BaseURL ==
  /\ pc = "url"
  /\ url' = pathParams(method)
  /\ pc' = "query"
  /\ UNCHANGED <<request, body, query, routing, resource>>

(* generateQueryString: whether a query parameter is added, by its type. *)
BadAdds(p) ==   (* presence of optional fields is not asked for *)
  LET f == LeafInfo(p)
  IN  \/ f.required /\ f.kind = "primitive" /\ ~f.repeated
      \/ has[p] = "set"
Adds(p) ==
  LET f == LeafInfo(p)
  IN  \/ f.required /\ f.kind = "primitive" /\ ~f.repeated
      \/ f.repeated /\ has[p] = "set"
      \/ ~f.repeated /\ f.presence = "optional" /\ has[p] # "absent"
      \/ ~f.repeated /\ f.presence # "optional" /\ f.kind # "primitive" /\ has[p] # "absent"
      \/ ~f.repeated /\ f.presence # "optional" /\ f.kind = "primitive" /\ has[p] = "set"

QueryString ==
  /\ pc = "query"
  /\ query' = { p \in queryParams(method) : Adds(p) }
  /\ pc' = "headers"
  /\ UNCHANGED <<request, body, url, routing, resource>>

-------------------------------------------------------------------------------
(* insertRequestHeaders.  A method with a routing annotation takes its headers
   from it and from nowhere else, even if it is empty. *)
FirstsIn(s, S) ==   (* the elements that are in S, each where it comes first *)
  LET upTo[i \in 0..Len(s)] ==
        IF i = 0 THEN <<>>
        ELSE IF s[i] \in S /\ s[i] \notin On(upTo[i - 1]) THEN Append(upTo[i - 1], s[i])
        ELSE upTo[i - 1]
  IN  upTo[Len(s)]

(* insertImplicitRequestHeaders: every field of the URL templates once. *)
Implicit == LET named == FieldsIn(method.patterns)
                fields == FirstsIn(named, On(named))
            IN  [i \in DOMAIN fields |-> [name |-> fields[i], value |-> text[fields[i]]]]

(* insertDynamicRequestHeaders: each parameter whose pattern matches and
   captures something overrides the earlier ones of its header. *)
Capture(i) == method.params[i].capture[text[method.params[i].field]]
Matches(i) == Capture(i) \notin {NoMatch, Empty}
routingHeadersMap ==
  LET upTo[i \in 0..Len(method.params)] ==
        IF i = 0 THEN [h \in {} |-> Empty]
        ELSE LET before == upTo[i - 1]
                 header == method.params[i].header
             IN  IF Matches(i)
                 THEN [h \in DOMAIN before \cup {header} |->
                         IF h = header THEN Capture(i) ELSE before[h]]
                 ELSE before
  IN  upTo[Len(method.params)]

(* The map is written out in the order of the annotation, each header deleted
   once it is written, or without the feature in any order. *)
Headers == [i \in DOMAIN method.params |-> method.params[i].header]
BadWritten == SelectSeq(Headers, LAMBDA h : h \in DOMAIN routingHeadersMap)   (* not deleted *)
Written == FirstsIn(Headers, DOMAIN routingHeadersMap)
Orders(S) == { o \in [1..Cardinality(S) -> S] : \A i, j \in DOMAIN o : o[i] = o[j] => i = j }
Dynamic ==
  { [i \in DOMAIN o |-> [name |-> o[i], value |-> routingHeadersMap[o[i]]]]
    : o \in IF ordered THEN {Written} ELSE Orders(DOMAIN routingHeadersMap) }

(* resourceNameField: the annotated field, among several the first that is in
   a URL; or the name that the pattern of the URL suggests.  (Only with the
   feature open_telemetry_attributes, which is taken to be on.) *)
Selected(candidates) ==
  LET inURL == { i \in DOMAIN candidates : candidates[i] \in On(FieldsIn(method.patterns)) }
  IN  IF Len(candidates) > 1 /\ inURL # {} THEN candidates[Min(inURL)] ELSE candidates[1]
ResourceNameField ==
  IF method.references # <<>>
  THEN [format |-> <<"%v">>, fields |-> <<Selected(method.references)>>]
  ELSE IF heuristics
  THEN identifyHeuristicTarget(method.patterns[1],
                               buildHeuristicVocabulary(Siblings \cup {method}))
  ELSE NoTarget

(* Without headers that depend on the request there is no resource either. *)
HasHeaders == IF method.dynamic THEN method.params # <<>> ELSE FieldsIn(method.patterns) # <<>>

InsertHeaders ==
  /\ pc = "headers"
  /\ routing' \in IF method.dynamic THEN Dynamic ELSE {Implicit}
  /\ resource' = IF HasHeaders THEN ResourceNameField ELSE NoTarget
  /\ pc' = "sent"
  /\ UNCHANGED <<request, body, url, query>>

Next == MarshalBody \/ BaseURL \/ QueryString \/ InsertHeaders

Spec == Init /\ [][Next]_vars

-------------------------------------------------------------------------------
(* What a server could not assume by itself.  An explicit default in a oneof
   is left out: the emitted test compares with the default value. *)
Informative(p) ==
  \/ has[p] = "set"
  \/ LeafInfo(p).presence = "optional" /\ has[p] = "default"

(* What a comment in queryParams says: "If, and only if, a leaf field is not a
   path parameter or a body parameter, it is a query parameter."  It holds until
   a request can contain another one: handleMsg leaves the body's field out at
   any depth (queryParams, getLeafs). *)
OthersInQuery ==
  pc = "sent" => \A p \in AllLeafs : p \in queryParams(method) <=> p \notin body \cup url

(* Every value in a request that is not inside a repeated message reaches the
   server, in the path, the query or the body, whatever its type; a parameter
   of the query is sent nowhere else; what may be one is exactly what nothing
   else sends; and required fields are always sent (queryParams, getLeafs,
   generateQueryString). *)
EachFieldOnce ==
  /\ OthersInQuery
  /\ pc = "sent" =>
       /\ \A p \in AllLeafs : Informative(p) => p \in body \cup url \cup query
       /\ query \cap (body \cup url) = {}
       /\ \A p \in AllLeafs :
            LeafInfo(p).required /\ LeafInfo(p).kind = "primitive" /\ ~LeafInfo(p).repeated
              => p \in body \cup url \cup query

(* A routing header is sent once, with the value captured by the last
   parameter that names it and captures anything, and not at all if none does;
   implicit headers carry each field of the URL once
   (insertDynamicRequestHeaders, insertImplicitRequestHeaders). *)
LastCapture(h) ==
  LET named == { i \in DOMAIN method.params :
                   /\ method.params[i].header = h
                   /\ Capture(i) # NoMatch /\ Capture(i) # Empty }
  IN  IF named = {} THEN NoMatch
      ELSE Capture(CHOOSE i \in named : \A j \in named : j <= i)
RoutedOnce ==
  pc = "sent" =>
    /\ \A i, j \in DOMAIN routing : routing[i].name = routing[j].name => i = j
    /\ IF method.dynamic
       THEN \A h \in { method.params[i].header : i \in DOMAIN method.params } :
              IF LastCapture(h) = NoMatch
              THEN \A i \in DOMAIN routing : routing[i].name # h
              ELSE \E i \in DOMAIN routing : routing[i] = [name |-> h, value |-> LastCapture(h)]
       ELSE \A p \in url : \E i \in DOMAIN routing : routing[i] = [name |-> p, value |-> text[p]]

(* Whenever headers are sent for a method without annotated fields, the name of
   its resource is whole: it spells the URL from its version to its last
   variable that follows a collection, with every variable on the way, each
   after its own noun, and with no version inside.  Where a noun on the way is
   not a known collection, the name ends before it.  An annotated field is
   preferred if it is in the URL (identifyHeuristicTarget, resourceNameField). *)
Nameable(p, nouns) ==
  { i \in { k \in DOMAIN p : IsVariable(p[k]) } :
      \A k \in 1..i :
        /\ IsVariable(p[k]) => k > 1 /\ (Known(p[k - 1], nouns) \/ IsVersion(p[k - 1]))
        /\ IsVersion(p[k]) => \A j \in 1..k : ~IsVariable(p[j]) }
ResourceIsWhole ==
  pc = "sent" /\ routing # <<>> =>
    LET p == method.patterns[1]
        nouns == buildHeuristicVocabulary(Siblings \cup {method})
        last == Max(Nameable(p, nouns) \cup {0})
        start == Max({ k \in 1..last : IsVersion(p[k]) } \cup {0}) + 1
        wanted == { c \in On(method.references) : c \in On(FieldsIn(method.patterns)) }
    IN  IF method.references # <<>>
        THEN wanted # {} => resource.fields[1] \in wanted
        ELSE IF ~heuristics \/ last = 0 THEN resource = NoTarget
        ELSE /\ Len(resource.format) = last - start + 1
             /\ \A k \in start..last :
                  resource.format[k - start + 1] = IF IsVariable(p[k]) THEN "%v" ELSE p[k].name
             /\ resource.fields = FieldsIn(<<SubSeq(p, 1, last)>>)
==================================================================================
