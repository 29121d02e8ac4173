---------------------------- MODULE CustomOperations ----------------------------
(***************************************************************************)
(* What the generator knows of custom operations when it prints their      *)
(* handles (gengapic/custom_operation.go): which operation service manages *)
(* the operations a service creates, and which fields of a creating        *)
(* request have to be repeated in every polling request.                   *)
(*                                                                         *)
(* An API's annotations are one record: api.serv[m] is the service named   *)
(* by google.cloud.operation_service on method m, api.mapped[m] the fields *)
(* of the polling request that fields of m's request are annotated with    *)
(* (operation_request_field), and api.required[o] the required fields of   *)
(* the polling request of operation service o; api.lro are the transports  *)
(* of services with methods that return google.longrunning.Operation.      *)
(*                                                                         *)
(* Operators named Bad... are not the code: each is the definition after   *)
(* it with a plausible defect, kept to show that a property notices it.    *)
(***************************************************************************)
EXTENDS Naturals, Sequences

CONSTANTS
  OpServices,       (* operation services                                   *)
  Methods,          (* methods that may create operations                   *)
  Params,           (* fields of polling requests besides the name          *)
  ServiceMethods    (* the services in order, each the sequence of methods  *)

NoService == "none"

ASSUME CustomOperationsAssumption ==
  /\ NoService \notin OpServices
  /\ ServiceMethods \in Seq(Seq(Methods))
  /\ \A m \in Methods : \E i \in DOMAIN ServiceMethods :
       \E j \in DOMAIN ServiceMethods[i] : ServiceMethods[i][j] = m

Annotations ==
  [serv : [Methods -> OpServices \cup {NoService}],
   mapped : [Methods -> SUBSET Params],
   required : [OpServices -> SUBSET Params],
   lro : SUBSET {"grpc", "rest"}]

(* pollingRequestParameters: the annotated fields that are required there. *)
BadpollingRequestParameters(api, m, o) ==   (* stops at the first *)
  LET params == api.mapped[m] \cap api.required[o]
  IN  { p \in params : p = CHOOSE q \in params : TRUE }
pollingRequestParameters(api, m, o) == api.mapped[m] \cap api.required[o]

(* loadCustomOpServices looks at the first method of each service that names
   an operation service ... *)
NamesOne(api, i) == { j \in DOMAIN ServiceMethods[i] : api.serv[ServiceMethods[i][j]] # NoService }
FirstNaming(api, i) ==
  ServiceMethods[i][CHOOSE j \in NamesOne(api, i) : \A k \in NamesOne(api, i) : j <= k]
customOpServices(api, i) ==
  IF NamesOne(api, i) = {} THEN NoService ELSE api.serv[FirstNaming(api, i)]

(* ... and takes the polling parameters of an operation service from the
   first service that uses it. *)
Users(api, o) == { i \in DOMAIN ServiceMethods : customOpServices(api, i) = o }
pollingParams(api, o) ==
  pollingRequestParameters(api,
    FirstNaming(api, CHOOSE i \in Users(api, o) : \A k \in Users(api, o) : i <= k), o)

(* The Go compiler accepts the package: a client has one operationClient, so
   all methods of a service have their operations managed by one service. *)
Compiles(api) ==
  \A i \in DOMAIN ServiceMethods : \A j \in NamesOne(api, i) :
    api.serv[ServiceMethods[i][j]] = customOpServices(api, i)

(* customOpInit: the fields of the handle, read from the creating request;
   what m's request is not annotated with stays empty. *)
customOpInit(api, m, req, unset) ==
  [p \in Params |-> IF p \in pollingParams(api, api.serv[m]) \cap api.mapped[m]
                    THEN req[p] ELSE unset]

(* What the authors of an API owe the generator: every method that creates
   operations says where each required polling field comes from. *)
WellAnnotated(api) ==
  \A m \in Methods :
    api.serv[m] # NoService => api.required[api.serv[m]] \subseteq api.mapped[m]
=================================================================================
