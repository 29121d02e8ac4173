------------------------------ MODULE UnaryCalls ------------------------------
(***************************************************************************)
(* Goroutines that share one generated client and call a unary method of   *)
(* it (unaryGRPCCall of gengapic/gengrpc.go, unaryRESTCall of              *)
(* gengapic/genrest.go), the owner of the client who changes CallOptions   *)
(* between calls, and a server that performs a request once for each       *)
(* request id, over a network that delays requests and loses answers.      *)
(*                                                                         *)
(* "Methods, except Close, may be called concurrently."  What concurrent   *)
(* calls share are two slices of the client, the call options of the       *)
(* method and the x-goog headers, which each call extends by appending.    *)
(* Slices are therefore modelled with their backing arrays: append writes  *)
(* in place when the capacity allows.                                      *)
(*                                                                         *)
(* Operators named Bad... are not the code: each is the definition after   *)
(* it with a plausible defect, kept to show that a property notices it.    *)
(***************************************************************************)
EXTENDS Naturals, Sequences, FiniteSets

CONSTANTS
  Callers,         (* goroutines                                            *)
  Msgs,            (* request messages                                      *)
  Transports,      (* transports a client may have: "grpc", "rest"          *)
  MaxCalls,        (* bound: calls altogether                               *)
  MaxAttempts,     (* bound: attempts of one call; the emitted settings say
                      "this ignores max_attempts"                           *)
  MaxOptions,      (* bound: call options of the method                     *)
  ReuseMessages    (* may a message be passed to a second call?             *)

ASSUME UnaryAssumption ==
  /\ Transports \subseteq {"grpc", "rest"}
  /\ MaxCalls \in Nat
  /\ MaxAttempts \in Nat \ {0}
  /\ MaxOptions \in Nat
  /\ ReuseMessages \in BOOLEAN

VARIABLES
  transport,    (* of the client                                            *)
  memory,       (* memory[a]: the cells of backing array a                  *)
  methodOpts,   (* methodOpts[s]: slice of the method in options struct s   *)
  field,        (* the struct the client's CallOptions field points to      *)
  xGoogHeaders, (* slice                                                    *)
  requests,     (* requests[m]: request id, who set it, passed to a call    *)
  nextId,       (* the next uuid                                            *)
  pc,           (* pc[c]: what c is about to do, "idle" between calls       *)
  call,         (* call[c]: number of c's present call                      *)
  msg,          (* msg[c]: its request message                              *)
  opts,         (* opts[c]: the local slice opts                            *)
  hds,          (* hds[c]: the local slice hds                              *)
  settings,     (* settings[c]: options gax.Invoke resolved                 *)
  metadata,     (* metadata[c]: headers put in the context or the request   *)
  jsonReq,      (* jsonReq[c]: the id in the body REST has marshalled       *)
  tries,        (* tries[c]: attempts so far                                *)
  calls,        (* calls issued                                             *)
  outcome,      (* outcome[k]: of call k                                    *)
  network,      (* requests on their way                                    *)
  sent,         (* history: every request that was put on the network       *)
  effects,      (* what the server performed: call and id                   *)
  answered      (* answers that arrive unless the caller has given up       *)

clientVars == <<transport, methodOpts, field, xGoogHeaders>>
messageVars == <<requests, nextId>>
localVars == <<call, msg, opts, hds, settings, metadata, jsonReq, tries>>
callVars == <<calls, outcome>>
serverVars == <<network, sent, effects, answered>>
vars == <<clientVars, memory, messageVars, pc, localVars, callVars, serverVars>>

NoId == 0
Structs == {"default", "replaced"}
Shared(name) == <<"client", name>>   (* backing arrays of the client *)
Own(c, name) == <<c, name>>          (* and of a call's locals       *)
Arrays == ({"client"} \X (Structs \cup {"headers"})) \cup (Callers \X {"opts", "hds"})

-------------------------------------------------------------------------------
(* Go slices. *)
Slice(a, len, cap) == [array |-> a, len |-> len, cap |-> cap]
Content(s) == SubSeq(memory[s.array], 1, s.len)

(* append(s, xs...): in place if it fits, else in the array fresh, with spare
   cells beyond what is needed. *)
Fits(s, xs) == s.len + Len(xs) <= s.cap
Appended(s, xs, fresh, spare) ==
  LET n == s.len + Len(xs)
  IN  IF Fits(s, xs) THEN [s EXCEPT !.len = n] ELSE Slice(fresh, n, n + spare)
Written(s, xs, fresh, spare) ==
  IF Fits(s, xs)
  THEN [memory EXCEPT ![s.array] =
          [i \in DOMAIN @ |-> IF i > s.len /\ i <= s.len + Len(xs) THEN xs[i - s.len] ELSE @[i]]]
  ELSE [memory EXCEPT ![fresh] =
          Content(s) \o xs \o [i \in 1 .. spare |-> "free"]]

(* setGoogleClientInfo assigns a slice literal: no capacity to spare. *)
BadClientInfo == Slice(Shared("headers"), 1, 2)   (* one append too many *)
ClientInfo == Slice(Shared("headers"), 1, 1)

(* The constructor: options of the method from a literal (gRPCCallOptions,
   restCallOptions), grown by one option when metrics are enabled. *)
Init ==
  /\ transport \in Transports
  /\ \E options \in {<<"retry">>, <<"retry", "metrics", "free">>} :
       LET used == {i \in DOMAIN options : options[i] # "free"}
       IN  /\ methodOpts = [s \in Structs |-> Slice(Shared(s), Cardinality(used), Len(options))]
           /\ memory = [a \in Arrays |->
                IF a \in {Shared(s) : s \in Structs} THEN options
                ELSE IF a = Shared("headers") THEN [i \in 1 .. ClientInfo.cap |->
                                              IF i = 1 THEN "x-goog" ELSE "free"]
                ELSE <<>>]
  /\ field = "default"
  /\ xGoogHeaders = ClientInfo
  /\ requests = [m \in Msgs |-> [id |-> NoId, byUser |-> FALSE, passed |-> FALSE]]
  /\ nextId = 1
  /\ pc = [c \in Callers |-> "idle"]
  /\ call = [c \in Callers |-> 0]
  /\ msg \in [Callers -> {CHOOSE m \in Msgs : TRUE}]
  /\ opts = [c \in Callers |-> Slice(Own(c, "opts"), 0, 0)]
  /\ hds = [c \in Callers |-> Slice(Own(c, "hds"), 0, 0)]
  /\ settings = [c \in Callers |-> <<>>]
  /\ metadata = [c \in Callers |-> <<>>]
  /\ jsonReq = [c \in Callers |-> NoId]
  /\ tries = [c \in Callers |-> 0]
  /\ calls = 0
  /\ outcome = [k \in 1 .. MaxCalls |-> "new"]
  /\ network = {}
  /\ sent = {}
  /\ effects = {}
  /\ answered = {}

-------------------------------------------------------------------------------
(* The owner of the client.  "Fields must not be modified concurrently with
   method calls." *)
Quiet == \A c \in Callers : pc[c] = "idle"

(* client.CallOptions.M = append(client.CallOptions.M, option) *)
AddOption ==
  /\ Quiet
  /\ methodOpts[field].len < MaxOptions
  /\ \E spare \in {0, 1} :
       /\ methodOpts' = [methodOpts EXCEPT ![field] = Appended(@, <<"added">>, Shared(field), spare)]
       /\ memory' = Written(methodOpts[field], <<"added">>, Shared(field), spare)
  /\ UNCHANGED <<transport, field, xGoogHeaders, messageVars, pc, localVars, callVars, serverVars>>

(* client.CallOptions = &CallOptions{...} *)
ReplaceOptions ==
  /\ Quiet
  /\ field = "default"
  /\ field' = "replaced"
  /\ UNCHANGED <<transport, methodOpts, xGoogHeaders, memory, messageVars, pc, localVars,
                 callVars, serverVars>>

(* The struct behind the internal client's CallOptions: the gRPC constructor
   stores the address of the field, the REST constructor that of a local. *)
CallOptions == IF transport = "grpc" THEN field ELSE "default"

(* A caller prepares a message, with an id of its own or without one. *)
NewMessage(m) ==
  /\ requests[m].passed
  /\ \A c \in Callers : pc[c] # "idle" => msg[c] # m
  /\ calls < MaxCalls
  /\ \E byUser \in BOOLEAN :
       /\ requests' = [requests EXCEPT ![m] =
            [id |-> IF byUser THEN nextId ELSE NoId, byUser |-> byUser, passed |-> FALSE]]
       /\ nextId' = IF byUser THEN nextId + 1 ELSE nextId
  /\ UNCHANGED <<clientVars, memory, pc, localVars, callVars, serverVars>>

-------------------------------------------------------------------------------
(* The statements of the emitted method, in the order of each transport. *)
Order(t) == IF t = "grpc" THEN <<"headers", "metadata", "ids", "opts", "invoke">>
            ELSE <<"ids", "headers", "metadata", "opts", "invoke">>
After(step) ==
  LET order == Order(transport)
      i == CHOOSE j \in DOMAIN order : order[j] = step
  IN  IF i < Len(order) THEN order[i + 1] ELSE "attempt"

(* A message in use by one call is left alone until the call returns. *)
Begin(c, m) ==
  /\ pc[c] = "idle"
  /\ calls < MaxCalls
  /\ requests[m].passed => ReuseMessages
  /\ \A d \in Callers : pc[d] # "idle" => msg[d] # m
  /\ calls' = calls + 1
  /\ call' = [call EXCEPT ![c] = calls + 1]
  /\ outcome' = [outcome EXCEPT ![calls + 1] = "issued"]
  /\ msg' = [msg EXCEPT ![c] = m]
  /\ requests' = [requests EXCEPT ![m].passed = TRUE]
  /\ pc' = [pc EXCEPT ![c] = Order(transport)[1]]
  /\ UNCHANGED <<clientVars, memory, nextId, opts, hds, settings, metadata, jsonReq, tries,
                 serverVars>>

(* initializeAutoPopulatedFields; REST then marshals the message. *)
FillId(c) ==
  /\ pc[c] = "ids"
  /\ IF requests[msg[c]].id = NoId
     THEN /\ requests' = [requests EXCEPT ![msg[c]].id = nextId]
          /\ nextId' = nextId + 1
     ELSE UNCHANGED messageVars
  /\ jsonReq' = [jsonReq EXCEPT ![c] =
       IF transport = "rest" THEN requests'[msg[c]].id ELSE NoId]
  /\ pc' = [pc EXCEPT ![c] = After("ids")]
  /\ UNCHANGED <<clientVars, memory, call, msg, opts, hds, settings, metadata, tries,
                 callVars, serverVars>>

(* hds = append(c.xGoogHeaders, hds...): routing parameters of the request,
   and for REST a content type. *)
OwnHeaders(c) == IF transport = "rest" THEN <<c, "json">> ELSE <<c>>
AppendHeaders(c) ==
  /\ pc[c] = "headers"
  /\ hds' = [hds EXCEPT ![c] = Appended(xGoogHeaders, OwnHeaders(c), Own(c, "hds"), 0)]
  /\ memory' = Written(xGoogHeaders, OwnHeaders(c), Own(c, "hds"), 0)
  /\ pc' = [pc EXCEPT ![c] = After("headers")]
  /\ UNCHANGED <<clientVars, messageVars, call, msg, opts, settings, metadata, jsonReq, tries,
                 callVars, serverVars>>

(* gax.InsertMetadataIntoOutgoingContext and gax.BuildHeaders copy. *)
InsertMetadata(c) ==
  /\ pc[c] = "metadata"
  /\ metadata' = [metadata EXCEPT ![c] = Content(hds[c])]
  /\ pc' = [pc EXCEPT ![c] = After("metadata")]
  /\ UNCHANGED <<clientVars, memory, messageVars, call, msg, opts, hds, settings, jsonReq, tries,
                 callVars, serverVars>>

(* appendCallOpts: the method's default options are sliced as [0:len:len], so
   that appending the caller's own always copies. *)
BadDefaults(s) == s   (* not capped *)
BadDefaults2(s) == [s EXCEPT !.cap = s.len + 1]   (* more than the array may have *)
Defaults(s) == [s EXCEPT !.cap = s.len]
AppendCallOpts(c) ==
  /\ pc[c] = "opts"
  /\ LET defaults == Defaults(methodOpts[CallOptions])
     IN  /\ opts' = [opts EXCEPT ![c] = Appended(defaults, <<c>>, Own(c, "opts"), 0)]
         /\ memory' = Written(defaults, <<c>>, Own(c, "opts"), 0)
  /\ pc' = [pc EXCEPT ![c] = After("opts")]
  /\ UNCHANGED <<clientVars, messageVars, call, msg, hds, settings, metadata, jsonReq, tries,
                 callVars, serverVars>>

(* gax.Invoke resolves the options once. *)
Invoke(c) ==
  /\ pc[c] = "invoke"
  /\ settings' = [settings EXCEPT ![c] = Content(opts[c])]
  /\ pc' = [pc EXCEPT ![c] = After("invoke")]
  /\ UNCHANGED <<clientVars, memory, messageVars, call, msg, opts, hds, metadata, jsonReq, tries,
                 callVars, serverVars>>

(* What an attempt sends: REST a new reader on the marshalled bytes, gRPC the
   message itself, marshalled again. *)
BadBody(c) ==   (* one reader for all attempts *)
  IF transport = "rest" THEN (IF tries[c] = 0 THEN jsonReq[c] ELSE NoId)
  ELSE requests[msg[c]].id
Body(c) == IF transport = "rest" THEN jsonReq[c] ELSE requests[msg[c]].id

Attempt(c) ==
  /\ pc[c] = "attempt"
  /\ LET r == [call |-> call[c], try |-> tries[c] + 1, id |-> Body(c)]
     IN  network' = network \cup {r} /\ sent' = sent \cup {r}
  /\ tries' = [tries EXCEPT ![c] = @ + 1]
  /\ pc' = [pc EXCEPT ![c] = "waiting"]
  /\ UNCHANGED <<clientVars, memory, messageVars, call, msg, opts, hds, settings, metadata,
                 jsonReq, callVars, effects, answered>>

(* The locals of the method are gone when it returns. *)
Return(c, result) ==
  /\ outcome' = [outcome EXCEPT ![call[c]] = result]
  /\ pc' = [pc EXCEPT ![c] = "idle"]
  /\ call' = [call EXCEPT ![c] = 0]
  /\ opts' = [opts EXCEPT ![c] = Slice(Own(c, "opts"), 0, 0)]
  /\ hds' = [hds EXCEPT ![c] = Slice(Own(c, "hds"), 0, 0)]
  /\ memory' = [memory EXCEPT ![Own(c, "opts")] = <<>>, ![Own(c, "hds")] = <<>>]
  /\ settings' = [settings EXCEPT ![c] = <<>>]
  /\ metadata' = [metadata EXCEPT ![c] = <<>>]
  /\ jsonReq' = [jsonReq EXCEPT ![c] = NoId]
  /\ tries' = [tries EXCEPT ![c] = 0]
  /\ UNCHANGED <<clientVars, messageVars, msg, calls, serverVars>>

Answered(c) ==
  /\ pc[c] = "waiting"
  /\ <<call[c], tries[c]>> \in answered
  /\ Return(c, "ok")

(* An attempt fails in its transport and is repeated, unless the context has
   ended. *)
Retry(c) ==
  /\ pc[c] = "waiting"
  /\ tries[c] < MaxAttempts
  /\ pc' = [pc EXCEPT ![c] = "attempt"]
  /\ UNCHANGED <<clientVars, memory, messageVars, localVars, callVars, serverVars>>

BadGiveUp(c) ==   (* the error of Invoke is not returned *)
  /\ pc[c] = "waiting"
  /\ Return(c, "ok")
GiveUp(c) ==
  /\ pc[c] = "waiting"
  /\ Return(c, "failed")

(* The server takes a request, however late, and performs it unless it has
   performed one with this id; without an id it cannot tell. *)
ServerTakes(r) ==
  /\ r \in network
  /\ network' = network \ {r}
  /\ effects' = IF r.id # NoId /\ r.id \in {e.id : e \in effects} THEN effects
                ELSE effects \cup {r}
  /\ answered' = answered \cup {<<r.call, r.try>>}
  /\ UNCHANGED <<clientVars, memory, messageVars, pc, localVars, callVars, sent>>

CallSteps(c) ==
  \/ FillId(c) \/ AppendHeaders(c) \/ InsertMetadata(c) \/ AppendCallOpts(c) \/ Invoke(c)
  \/ Attempt(c) \/ Answered(c) \/ Retry(c) \/ GiveUp(c)

Next ==
  \/ AddOption \/ ReplaceOptions
  \/ \E m \in Msgs : NewMessage(m) \/ \E c \in Callers : Begin(c, m)
  \/ \E c \in Callers : CallSteps(c)
  \/ \E r \in network : ServerTakes(r)

Spec == Init /\ [][Next]_vars

-------------------------------------------------------------------------------
(* Shape of the state: every slice that the client or a call holds lies within
   its backing array - no slice expression of the emitted method panics - and
   a call in progress was issued, has no outcome yet and is one goroutine's. *)
SliceOK(s) == s.array \in Arrays /\ s.len <= s.cap /\ s.cap <= Len(memory[s.array])
TypeOK ==
  /\ \A s \in Structs : SliceOK(methodOpts[s])
  /\ SliceOK(xGoogHeaders)
  /\ \A c \in Callers :
       /\ pc[c] \in {"idle", "ids", "headers", "metadata", "opts", "invoke", "attempt", "waiting"}
       /\ SliceOK(opts[c]) /\ SliceOK(hds[c])
       /\ tries[c] \in Nat
       /\ pc[c] # "idle" =>
            /\ call[c] \in 1 .. calls /\ outcome[call[c]] = "issued"
            /\ \A d \in Callers \ {c} : pc[d] # "idle" => call[d] # call[c]
  /\ calls \in 0 .. MaxCalls
  /\ outcome \in [1 .. MaxCalls -> {"new", "issued", "ok", "failed"}]

(* Concurrent calls do not see each other's options: a call's attempts use
   the options of the method, then its own, whatever other calls append to
   the shared slice in the meantime. *)
OptionsAreOwn ==
  \A c \in Callers :
    pc[c] \in {"attempt", "waiting"} =>
      settings[c] = Append(Content(methodOpts[CallOptions]), c)

(* Nor each other's headers, routing parameters among them. *)
HeadersAreOwn ==
  \A c \in Callers :
    metadata[c] # <<>> => metadata[c] = Content(xGoogHeaders) \o OwnHeaders(c)

(* "Values automatically populated this way must be reused for retries of the
   same request": all attempts of a call carry one id, and no other call's. *)
RetriesReuseId ==
  \A r, q \in sent : r.id # NoId /\ (r.id = q.id <=> r.call = q.call)

(* A call is performed at most once and succeeds only if it was performed,
   although attempts time out, arrive late and are repeated. *)
AtMostOnce == INSTANCE AtMostOnceCalls WITH
  Calls <- 1 .. MaxCalls,
  performed <- [k \in 1 .. MaxCalls |-> Cardinality({e \in effects : e.call = k})]
PerformsAtMostOnce == AtMostOnce!Spec

(* "If the field value is not equal to default value at the time of sending
   the request, implying it was set by the user": an id found in a request
   message is one that its caller put there. *)
IdMeansSetByUser ==
  \A c \in Callers :
    pc[c] = "ids" /\ requests[msg[c]].id # NoId => requests[msg[c]].byUser

(* "Points back to the CallOptions field of the containing client": calls use
   the options that the client shows, after it was reconfigured too. *)
PointsBack ==
  \A c \in Callers :
    pc[c] \in {"attempt", "waiting"} =>
      settings[c] = Append(Content(methodOpts[field]), c)
===============================================================================
