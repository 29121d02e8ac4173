--------------------------- MODULE OperationPollProofs ---------------------------
(***************************************************************************)
(* Proofs about OperationPoll, for every number of services, methods,      *)
(* polling fields, handles and operations: polls ask for the operation the *)
(* handle was created for, Done is final, and what a call reports is how   *)
(* that operation ended.                                                   *)
(***************************************************************************)
EXTENDS OperationPoll, FiniteSetTheorems, WellFoundedInduction, TLAPS

(* The server's operations.  One that is running has no error code yet; one
   of a custom service was created with a value in every field. *)
OperationSet == [serv : OpServices \cup {"lro", "none"},
                 params : [Params -> Values \cup {Unset}], msg : Messages]
OpsTyped ==
  /\ api \in Apis
  /\ ops \in [Ops -> OperationSet]
  /\ \A k \in Ops :
       IF ops[k].serv = "none" THEN ops[k].msg = NoMessage
       ELSE /\ ops[k].msg.name \in Ops
            /\ ops[k].msg.status = "RUNNING" => ops[k].msg.code = 0
            /\ ops[k].serv = "lro" \/ ops[k].params \in [Params -> Values]

(* Names are given in order within a place, so they identify an operation
   there. *)
NamesInOrder ==
  \A o \in OpServices \cup {"lro"}, v \in [Params -> Values \cup {Unset}] :
    \A k \in Neighbours(o, v) : ops[k].msg.name \in 1 .. Cardinality(Neighbours(o, v))
NamesUnique ==
  \A o \in OpServices \cup {"lro"}, v \in [Params -> Values \cup {Unset}] :
    \A k, l \in Neighbours(o, v) : ops[k].msg.name = ops[l].msg.name => k = l

OpsInv == OpsTyped /\ NamesInOrder /\ NamesUnique

(* The state of handles. *)
RPCSet == [state : {"none", "asked", "answered"}, req : Requests, resp : Messages]
HandlesTyped ==
  /\ kind \in [Handles -> Kinds]
  /\ target \in [Handles -> 0 .. MaxOps]
  /\ proto \in [Handles -> Messages]
  /\ pollPath \in [Handles -> Paths]
  /\ params \in [Handles -> [Params -> Values \cup {Unset}]]
  /\ calling \in [Handles -> {"none", "Poll", "Wait", "paused"}]
  /\ rpc \in [Handles -> RPCSet]
  /\ report \in [Handles -> {"nothing", "pending", "ok", "failed", "unavailable"}]

(* A handle has the name of its operation and what it takes to find it: a
   value it has for a field is the one the operation was created with, and it
   has all that are required if the API is annotated completely. *)
Created(h) ==
  /\ target[h] \in Ops
  /\ ops[target[h]].serv # "none"
  /\ proto[h].name = ops[target[h]].msg.name
  /\ kind[h] = "custom" =>
       /\ \A p \in Params : params[h][p] \in {ops[target[h]].params[p], Unset}
       /\ ops[target[h]].serv \in OpServices
       /\ WellAnnotated(api) =>
            \A p \in api.required[ops[target[h]].serv] : params[h][p] = ops[target[h]].params[p]
  /\ kind[h] \in {"grpc", "rest"} => ops[target[h]].serv = "lro"
  /\ kind[h] = "rest" => pollPath[h] = "api"

(* A message about an operation that is done is the last one there is. *)
Truthful(msg, k) ==
  /\ msg.name = ops[k].msg.name
  /\ msg.status = "DONE" => msg = ops[k].msg
  /\ msg.status = "RUNNING" => msg.code = 0

(* A polling call in progress asks what the handle would ask now, and an
   answer to it is no older than what the handle holds. *)
Calling(h) ==
  rpc[h].state # "none" =>
    /\ calling[h] \in {"Poll", "Wait"}
    /\ rpc[h].req = PollRequest(h)
    /\ rpc[h].resp # NoMessage =>
         Truthful(rpc[h].resp, target[h]) /\ (Done(h) => rpc[h].resp.status = "DONE")

HandleOK(h) ==
  /\ kind[h] = "none" => /\ target[h] = NoOp /\ calling[h] = "none"
                         /\ rpc[h].state = "none" /\ report[h] = "nothing"
  /\ kind[h] # "none" => Created(h) /\ Truthful(proto[h], target[h])
  /\ Calling(h)
  /\ report[h] \in {"ok", "failed"} => Done(h)
HandleInv == \A h \in Handles : HandleOK(h)

IInv == OpsInv /\ HandlesTyped /\ HandleInv

-------------------------------------------------------------------------------
(* The least-number principle. *)
LEMMA LeastExists ==
  ASSUME NEW T \in SUBSET Nat, T # {}
  PROVE  \E x \in T : \A y \in T : x <= y
<1> DEFINE R == OpToRel(<, Nat)
<1>1. \E x \in T : \A y \in T : ~ (<<y, x>> \in R)
  BY NatLessThanWellFounded, WFMin
<1>2. \A x, y \in T : y < x => <<y, x>> \in R
  BY DEF OpToRel
<1> HIDE DEF R
<1>3. \E x \in T : \A y \in T : ~ (y < x)
  BY <1>1, <1>2, Zenon
<1> QED
  BY <1>3

(* The methods of a service are methods (CustomOperationsAssumption). *)
LEMMA ListedMethods ==
  ASSUME NEW i \in DOMAIN ServiceMethods, NEW j \in DOMAIN ServiceMethods[i]
  PROVE  ServiceMethods[i][j] \in Methods /\ i \in Nat /\ j \in Nat
BY CustomOperationsAssumption

(* loadCustomOpServices finds a method that names an operation service if the
   service has one. *)
LEMMA FirstNamingNames ==
  ASSUME NEW a, NEW i \in DOMAIN ServiceMethods, NamesOne(a, i) # {}
  PROVE  FirstNaming(a, i) \in Methods /\ a.serv[FirstNaming(a, i)] # NoService
<1> DEFINE first == CHOOSE j \in NamesOne(a, i) : \A k \in NamesOne(a, i) : j <= k
<1>1. NamesOne(a, i) \in SUBSET Nat
  BY ListedMethods DEF NamesOne
<1>2. first \in NamesOne(a, i)
  BY <1>1, LeastExists
<1>3. FirstNaming(a, i) = ServiceMethods[i][first]
  BY DEF FirstNaming
<1> HIDE DEF first
<1> QED
  BY <1>2, <1>3, ListedMethods DEF NamesOne

(* A handle of a completely annotated API has all fields that polling
   requires, although they are computed from another method than the one that
   created it (customOpInit, pollingRequestParameters). *)
LEMMA AllRequiredInit ==
  ASSUME NEW a \in Annotations, Compiles(a), WellAnnotated(a),
         NEW m \in Methods, a.serv[m] # NoService, NEW req, NEW unset
  PROVE  \A p \in a.required[a.serv[m]] : customOpInit(a, m, req, unset)[p] = req[p]
<1> DEFINE o == a.serv[m]
           first == CHOOSE i \in Users(a, o) : \A k \in Users(a, o) : i <= k
<1>1. o \in OpServices /\ a.required[o] \subseteq Params
  BY DEF Annotations
<1>2. Users(a, o) # {}
  <2>1. PICK i \in DOMAIN ServiceMethods : \E j \in DOMAIN ServiceMethods[i] : ServiceMethods[i][j] = m
    BY CustomOperationsAssumption
  <2>2. PICK j \in DOMAIN ServiceMethods[i] : ServiceMethods[i][j] = m
    BY <2>1
  <2>3. j \in NamesOne(a, i)
    BY <2>2 DEF NamesOne
  <2>4. customOpServices(a, i) = o
    BY <2>2, <2>3 DEF Compiles
  <2> QED
    BY <2>4 DEF Users
<1>3. Users(a, o) \in SUBSET Nat
  BY CustomOperationsAssumption DEF Users
<1>4. first \in Users(a, o)
  BY <1>2, <1>3, LeastExists
<1>5. pollingParams(a, o) = a.mapped[FirstNaming(a, first)] \cap a.required[o]
  BY DEF pollingParams, pollingRequestParameters
<1> HIDE DEF first
<1>6. first \in DOMAIN ServiceMethods /\ customOpServices(a, first) = o
  BY <1>4 DEF Users
<1>7. NamesOne(a, first) # {} /\ a.serv[FirstNaming(a, first)] = o
  BY <1>6 DEF customOpServices
<1>8. FirstNaming(a, first) \in Methods
  BY <1>6, <1>7, FirstNamingNames
<1>9. a.required[o] \subseteq a.mapped[FirstNaming(a, first)] /\ a.required[o] \subseteq a.mapped[m]
  BY <1>7, <1>8 DEF WellAnnotated
<1> QED
  BY <1>1, <1>5, <1>9 DEF customOpInit

-------------------------------------------------------------------------------
(* The server. *)
LEMMA NeighboursFinite ==
  \A o, v : IsFiniteSet(Neighbours(o, v)) /\ Cardinality(Neighbours(o, v)) \in Nat
<1> SUFFICES ASSUME NEW o, NEW v
             PROVE  IsFiniteSet(Neighbours(o, v)) /\ Cardinality(Neighbours(o, v)) \in Nat
  OBVIOUS
<1>1. IsFiniteSet(Ops)
  BY OperationAssumption, FS_Interval DEF Ops
<1> QED
  BY <1>1, FS_Subset, FS_CardinalityType DEF Neighbours

LEMMA NewOpIsFree == FreeOps # {} => NewOp \in FreeOps
<1>1. FreeOps \in SUBSET Nat
  BY OperationAssumption DEF FreeOps, Ops
<1> QED
  BY <1>1, LeastExists DEF NewOp

(* What the server does when an operation is created. *)
Started(k, o, v) ==
  /\ \A l \in Ops \ {k} : ops'[l] = ops[l]
  /\ ops'[k].serv = o /\ ops'[k].params = v
  /\ ops'[k].msg.name = NewName(o, v)
  /\ ops'[k].msg.status \in {"RUNNING", "DONE"}
  /\ ops'[k].msg.code \in Codes
  /\ ops'[k].msg.status = "RUNNING" => ops'[k].msg.code = 0

LEMMA StartsOne ==
  ASSUME OpsInv, NEW k \in FreeOps, NEW o \in OpServices \cup {"lro"},
         NEW v \in [Params -> Values \cup {Unset}], ServerStarts(k, o, v)
  PROVE  /\ Started(k, o, v)
         /\ NewName(o, v) \in Ops
         /\ ops' \in [Ops -> OperationSet]
<1>1. PICK m \in {[status |-> "RUNNING", code |-> 0]} \cup Outcomes(o) :
        ops' = [ops EXCEPT ![k] = [serv |-> o, params |-> v,
          msg |-> [name |-> NewName(o, v), status |-> m.status, code |-> m.code]]]
  BY DEF ServerStarts
<1>2. /\ m.status \in {"RUNNING", "DONE"} /\ m.code \in Codes
      /\ m.status = "RUNNING" => m.code = 0
  BY DEF Outcomes, Codes
<1>3. k \in Ops /\ ops[k].serv = "none" /\ o # "none" /\ ops \in [Ops -> OperationSet]
  BY CustomOperationsAssumption DEF FreeOps, OpsInv, OpsTyped, NoService
<1>4. NewName(o, v) \in Ops
  <2>1. Neighbours(o, v) \subseteq Ops \ {k}
    BY <1>3 DEF Neighbours
  <2>2. IsFiniteSet(Ops) /\ Cardinality(Ops) = MaxOps /\ MaxOps \in Nat
    <3>1. \A n \in Nat : IsFiniteSet(1 .. n) /\ Cardinality(1 .. n) = n
      BY FS_Interval
    <3> QED
      BY <3>1, OperationAssumption DEF Ops
  <2>3. IsFiniteSet(Ops \ {k}) /\ Cardinality(Ops \ {k}) = MaxOps - 1
    BY <1>3, <2>2, FS_RemoveElement
  <2>4. Cardinality(Neighbours(o, v)) <= MaxOps - 1
    BY <2>1, <2>3, FS_Subset
  <2>5. Cardinality(Neighbours(o, v)) \in Nat
    BY NeighboursFinite
  <2> QED
    BY <2>2, <2>4, <2>5 DEF NewName, Ops
<1>5. Started(k, o, v)
  BY <1>1, <1>2, <1>3 DEF Started
<1>6. [name |-> NewName(o, v), status |-> m.status, code |-> m.code] \in Messages
  BY <1>2, <1>4 DEF Messages
<1>7. ops' \in [Ops -> OperationSet]
  BY <1>1, <1>3, <1>6 DEF OperationSet
<1> QED
  BY <1>4, <1>5, <1>7

LEMMA StartsKeepOps ==
  ASSUME OpsInv, UNCHANGED api, NEW k \in FreeOps, NEW o \in OpServices \cup {"lro"},
         NEW v \in [Params -> Values \cup {Unset}], o = "lro" \/ v \in [Params -> Values],
         ServerStarts(k, o, v)
  PROVE  OpsInv'
<1>1. /\ k \in Ops /\ ops[k].serv = "none" /\ o # "none"
      /\ Started(k, o, v) /\ NewName(o, v) \in Ops
      /\ ops' \in [Ops -> OperationSet]
  BY StartsOne, CustomOperationsAssumption DEF FreeOps, NoService
<1>2. OpsTyped'
  BY <1>1 DEF Started, OpsInv, OpsTyped
<1>3. k \notin Neighbours(o, v) /\ Neighbours(o, v)' = Neighbours(o, v) \cup {k}
  BY <1>1 DEF Started, Neighbours, SamePlace
<1>4. \A l \in Ops \ {k} : ops'[l] = ops[l]
  BY <1>1 DEF Started
<1>5. ops'[k].msg.name = Cardinality(Neighbours(o, v)) + 1
  BY <1>1 DEF Started, NewName
(* Another place gets the new operation only if it is the same place. *)
<1>6. ASSUME NEW p \in OpServices \cup {"lro"}, NEW w \in [Params -> Values \cup {Unset}]
      PROVE  /\ Neighbours(p, w) \subseteq Ops \ {k}
             /\ \/ Neighbours(p, w)' = Neighbours(p, w)
                \/ /\ Neighbours(p, w) = Neighbours(o, v)
                   /\ Neighbours(p, w)' = Neighbours(p, w) \cup {k}
  <2>1. /\ Neighbours(p, w) \subseteq Ops \ {k}
        /\ Neighbours(p, w) \subseteq Neighbours(p, w)'
        /\ Neighbours(p, w)' \subseteq Neighbours(p, w) \cup {k}
    <3>1. p # "none"
      BY CustomOperationsAssumption DEF NoService
    <3>2. Neighbours(p, w) \subseteq Ops \ {k}
      BY <1>1, <3>1 DEF Neighbours
    <3>3. \A l \in Ops \ {k} : l \in Neighbours(p, w)' <=> l \in Neighbours(p, w)
      BY <1>4 DEF Neighbours, SamePlace
    <3>4. Neighbours(p, w)' \subseteq Ops
      BY DEF Neighbours
    <3> QED
      BY <3>2, <3>3, <3>4
  <2>2. ASSUME k \in Neighbours(p, w)' PROVE Neighbours(p, w) = Neighbours(o, v)
    <3>1. p = o /\ (o = "lro" \/ \A q \in api.required[o] : v[q] = w[q])
      BY <1>1, <2>2 DEF Started, Neighbours, SamePlace
    <3> QED
      BY <3>1 DEF Neighbours, SamePlace
  <2> QED
    BY <2>1, <2>2
<1>7. ASSUME NEW p \in OpServices \cup {"lro"}, NEW w \in [Params -> Values \cup {Unset}]
      PROVE  /\ \A l \in Neighbours(p, w)' :
                  ops'[l].msg.name \in 1 .. Cardinality(Neighbours(p, w)')
             /\ \A l, j \in Neighbours(p, w)' : ops'[l].msg.name = ops'[j].msg.name => l = j
  <2> DEFINE N == Neighbours(p, w)
             n == Cardinality(N)
  <2>1. IsFiniteSet(N) /\ n \in Nat
    BY NeighboursFinite
  <2>2. /\ N \subseteq Ops \ {k}
        /\ \A l \in N : ops[l].msg.name \in 1 .. n
        /\ \A l, j \in N : ops[l].msg.name = ops[j].msg.name => l = j
    BY <1>6 DEF OpsInv, NamesInOrder, NamesUnique
  <2>3. \A l \in N : ops'[l] = ops[l]
    BY <1>4, <2>2
  <2>4. CASE N' = N
    BY <2>2, <2>3, <2>4
  <2>5. CASE N = Neighbours(o, v) /\ N' = N \cup {k}
    <3>1. ops'[k].msg.name = n + 1 /\ Cardinality(N') = n + 1
      BY <1>5, <2>1, <2>2, <2>5, FS_AddElement
    <3> HIDE DEF n
    <3>2. \A l \in N : /\ ops'[l].msg.name \in 1 .. n + 1
                       /\ ops'[l].msg.name # n + 1
      BY <2>1, <2>2, <2>3
    <3>3. n + 1 \in 1 .. n + 1
      BY <2>1
    <3> QED
      BY <2>2, <2>3, <2>5, <3>1, <3>2, <3>3
  <2> QED
    BY <1>6, <2>4, <2>5
<1> QED
  BY <1>1, <1>2, <1>7 DEF OpsInv, NamesInOrder, NamesUnique

(* Operations are not forgotten, and what is done stays as it is. *)
OpsGrow ==
  \A k \in Ops : ops[k].serv # "none" =>
    /\ ops'[k].serv = ops[k].serv /\ ops'[k].params = ops[k].params
    /\ ops'[k].msg.name = ops[k].msg.name
    /\ ops[k].msg.status = "DONE" => ops'[k].msg = ops[k].msg

LEMMA OpsInit == Init => OpsInv
<1> SUFFICES ASSUME Init PROVE OpsInv
  OBVIOUS
<1>1. OpsTyped
  BY DEF Init, OpsTyped, OperationSet, NoOperation, NoParams, Messages
<1>2. \A v : \A o \in OpServices \cup {"lro"} : Neighbours(o, v) = {}
  BY CustomOperationsAssumption DEF Init, Neighbours, NoOperation, NoService
<1> QED
  BY <1>1, <1>2 DEF OpsInv, NamesInOrder, NamesUnique

LEMMA EndsKeepOps ==
  ASSUME OpsInv, NEW k \in Ops, ServerEnds(k)
  PROVE  OpsInv' /\ OpsGrow /\ UNCHANGED api
<1>1. PICK m \in Outcomes(ops[k].serv) :
        ops' = [ops EXCEPT ![k].msg.status = m.status, ![k].msg.code = m.code]
  BY DEF ServerEnds
<1>2. /\ m.status = "DONE" /\ m.code \in Codes /\ UNCHANGED api
      /\ ops[k].msg.status = "RUNNING"
  BY DEF Outcomes, Codes, ServerEnds
<1>3. /\ ops \in [Ops -> OperationSet]
      /\ ops[k].serv # "none" /\ ops[k].msg.name \in Ops
  BY <1>2 DEF OpsInv, OpsTyped, NoMessage
<1>4. /\ ops'[k].serv = ops[k].serv /\ ops'[k].params = ops[k].params
      /\ ops'[k].msg = [name |-> ops[k].msg.name, status |-> m.status, code |-> m.code]
      /\ \A l \in Ops \ {k} : ops'[l] = ops[l]
      /\ ops' \in [Ops -> OperationSet]
  <2>1. ops[k].msg \in [name : Ops, status : {"RUNNING", "DONE"}, code : Codes]
    BY <1>3 DEF OperationSet, Messages, NoMessage, Ops
  <2>2. [ops[k].msg EXCEPT !.status = m.status, !.code = m.code]
          = [name |-> ops[k].msg.name, status |-> m.status, code |-> m.code]
    <3> DEFINE g == [name |-> ops[k].msg.name, status |-> ops[k].msg.status, code |-> ops[k].msg.code]
               d == [g EXCEPT !.status = m.status]
    <3>1. ops[k].msg = g
      BY <2>1
    <3>2. d = [name |-> ops[k].msg.name, status |-> m.status, code |-> ops[k].msg.code]
      OBVIOUS
    <3>3. [ops[k].msg EXCEPT !.status = m.status, !.code = m.code] = [d EXCEPT !.code = m.code]
      BY <3>1
    <3> HIDE DEF d
    <3> QED
      BY <3>2, <3>3
  <2>3. [name |-> ops[k].msg.name, status |-> m.status, code |-> m.code] \in Messages
    BY <1>2, <1>3 DEF Messages
  <2>4. ops[k] \in OperationSet
    BY <1>3
  <2> DEFINE r == [ops[k] EXCEPT !.msg = [name |-> ops[k].msg.name, status |-> m.status, code |-> m.code]]
  <2>5. /\ r \in OperationSet /\ r.serv = ops[k].serv /\ r.params = ops[k].params
        /\ r.msg = [name |-> ops[k].msg.name, status |-> m.status, code |-> m.code]
    BY <2>3, <2>4 DEF OperationSet
  <2>6. ops' = [ops EXCEPT ![k] = r]
    BY <1>1, <1>3, <2>1, <2>2, <2>4 DEF OperationSet
  <2> HIDE DEF r
  <2> QED
    BY <1>3, <2>5, <2>6
<1>5. OpsTyped'
  BY <1>2, <1>3, <1>4 DEF OpsInv, OpsTyped
<1>6. \A v : \A o \in OpServices \cup {"lro"} : Neighbours(o, v)' = Neighbours(o, v)
  BY <1>2, <1>4 DEF Neighbours, SamePlace
<1>7. \A l \in Ops : ops'[l].msg.name = ops[l].msg.name
  BY <1>4
<1>8. \A o, v : Neighbours(o, v) \subseteq Ops
  BY DEF Neighbours
<1>9. NamesInOrder' /\ NamesUnique'
  BY <1>6, <1>7, <1>8 DEF OpsInv, NamesInOrder, NamesUnique
<1>10. OpsGrow
  BY <1>2, <1>4 DEF OpsGrow
<1> QED
  BY <1>2, <1>5, <1>9, <1>10 DEF OpsInv

LEMMA OpsUnchanged ==
  ASSUME OpsInv, UNCHANGED <<api, ops>>
  PROVE  OpsInv' /\ OpsGrow
<1>1. \A o, v : Neighbours(o, v)' = Neighbours(o, v)
  BY DEF Neighbours, SamePlace
<1> QED
  BY <1>1 DEF OpsInv, OpsTyped, NamesInOrder, NamesUnique, OpsGrow

-------------------------------------------------------------------------------
(* The operation a handle polls for: its own, because the name is unique in
   its place and a field that it lacks matches no operation. *)
LEMMA AsksRight ==
  ASSUME OpsInv, HandlesTyped, NEW h \in Handles, kind[h] # "none", Created(h)
  PROVE  /\ Asked(PollRequest(h)) \in {NoOp, target[h]}
         /\ (kind[h] = "custom" => WellAnnotated(api)) => Asked(PollRequest(h)) = target[h]
         /\ PollRequest(h) \in Requests
<1> DEFINE t == target[h]
           r == PollRequest(h)
           o == ops[t].serv
           v == ops[t].params
<1>1. /\ t \in Ops /\ o \in OpServices \cup {"lro"} /\ o # "none"
      /\ v \in [Params -> Values \cup {Unset}] /\ proto[h].name = ops[t].msg.name
      /\ ops[t].msg.name \in Ops
      /\ kind[h] \in {"custom", "grpc", "rest"}
      /\ params[h] \in [Params -> Values \cup {Unset}]
      /\ api \in Annotations
  BY OperationAssumption DEF Created, OpsInv, OpsTyped, OperationSet, HandlesTyped, Kinds
<1>2. /\ r.serv = o /\ r.name = ops[t].msg.name
      /\ r.path # "library"
      /\ r \in Requests
  <2>1. CASE kind[h] = "custom"
    BY <1>1, <2>1 DEF PollRequest, Created, Requests, Paths, Ops
  <2>2. CASE kind[h] = "grpc"
    BY <1>1, <2>2 DEF PollRequest, Created, Requests, Paths, Ops, NoParams
  <2>3. CASE kind[h] = "rest"
    <3>1. o = "lro" /\ pollPath[h] = "api"
      BY <2>3 DEF Created
    <3>2. r = [serv |-> "lro", name |-> proto[h].name, params |-> NoParams, path |-> "api"]
      BY <2>3, <3>1 DEF PollRequest
    <3> HIDE DEF r
    <3> QED
      BY <1>1, <3>1, <3>2 DEF Requests, Paths, Ops, NoParams
  <2> QED
    BY <1>1, <2>1, <2>2, <2>3
<1>3. t \in Neighbours(o, v)
  BY <1>1 DEF Neighbours, SamePlace
<1>4. kind[h] = "custom" /\ o # "lro" => \A p \in api.required[o] : p \in Params
  BY <1>1 DEF Annotations
<1>5. \A k \in Neighbours(r.serv, r.params) : k \in Neighbours(o, v)
  <2> SUFFICES ASSUME NEW k \in Neighbours(o, r.params) PROVE k \in Neighbours(o, v)
    BY <1>2
  <2>1. k \in Ops /\ ops[k].serv = o
    BY DEF Neighbours
  <2>2. CASE o = "lro"
    BY <2>1, <2>2 DEF Neighbours
  <2>3. CASE o # "lro"
    <3>1. kind[h] = "custom" /\ r.params = params[h]
      BY <1>1, <2>3 DEF Created, PollRequest
    <3>2. \A p \in api.required[o] : ops[k].params[p] = params[h][p]
      BY <2>3, <3>1 DEF Neighbours, SamePlace
    <3>3. ops[k].params \in [Params -> Values]
      BY <1>1, <2>1, <2>3 DEF OpsInv, OpsTyped
    <3>4. \A p \in api.required[o] : params[h][p] = v[p]
      BY <1>4, <2>3, <3>1, <3>2, <3>3, OperationAssumption DEF Created
    <3> QED
      BY <2>1, <2>3, <3>2, <3>4 DEF Neighbours, SamePlace
  <2> QED
    BY <2>2, <2>3
<1>6. (kind[h] = "custom" => WellAnnotated(api)) => t \in Neighbours(r.serv, r.params)
  <2>1. CASE o = "lro"
    BY <1>1, <1>2, <2>1 DEF Neighbours
  <2>2. CASE o # "lro"
    <3>1. kind[h] = "custom" /\ r.params = params[h]
      BY <1>1, <2>2 DEF Created, PollRequest
    <3> QED
      BY <1>1, <1>2, <2>2, <3>1 DEF Neighbours, SamePlace, Created
  <2> QED
    BY <2>1, <2>2
<1> DEFINE found == {k \in Neighbours(r.serv, r.params) : ops[k].msg.name = r.name}
<1>7. found \subseteq {t}
  BY <1>1, <1>2, <1>3, <1>5 DEF OpsInv, NamesUnique
<1>8. Asked(r) = IF found = {} THEN NoOp ELSE CHOOSE k \in found : TRUE
  BY <1>2 DEF Asked
<1>9. found = {} \/ found = {t}
  BY <1>7
<1>10. (kind[h] = "custom" => WellAnnotated(api)) => t \in found
  BY <1>2, <1>6
<1> HIDE DEF found, t, r
<1> QED
  BY <1>2, <1>8, <1>9, <1>10 DEF t, r

-------------------------------------------------------------------------------
(* The handles. *)
LEMMA HandlesInit == Init => HandlesTyped /\ HandleInv
<1> SUFFICES ASSUME Init PROVE HandlesTyped /\ HandleInv
  OBVIOUS
<1>1. NoParams \in [Params -> Values \cup {Unset}] /\ 0 \in 0 .. MaxOps
  BY OperationAssumption DEF NoParams
<1>2. NoRequest \in Requests
  BY <1>1 DEF NoRequest, Requests, Paths
<1>3. HandlesTyped
  BY <1>1, <1>2 DEF Init, HandlesTyped, Kinds, NoOp, Messages, Paths, RPCSet, NoRPC
<1>4. HandleInv
  BY DEF Init, HandleInv, HandleOK, Calling, NoRPC, NoMessage, NoOp
<1> QED
  BY <1>3, <1>4

(* A step that leaves the variables of a handle alone, while the server goes
   on, keeps what holds of it: its operation keeps its place and name. *)
SameHandle(g) ==
  /\ kind'[g] = kind[g] /\ target'[g] = target[g] /\ proto'[g] = proto[g]
  /\ pollPath'[g] = pollPath[g] /\ params'[g] = params[g]
SameCall(g) == calling'[g] = calling[g] /\ rpc'[g] = rpc[g] /\ report'[g] = report[g]

LEMMA KeepsOperation ==
  ASSUME NEW h \in Handles, kind[h] # "none", Created(h),
         OpsGrow, UNCHANGED api, SameHandle(h)
  PROVE  /\ Created(h)'
         /\ PollRequest(h)' = PollRequest(h)
         /\ \A msg, k : k = target[h] /\ Truthful(msg, k) => Truthful(msg, k)'
<1>1. /\ target[h] \in Ops /\ target'[h] = target[h]
      /\ ops'[target[h]].serv = ops[target[h]].serv
      /\ ops'[target[h]].params = ops[target[h]].params
      /\ ops'[target[h]].msg.name = ops[target[h]].msg.name
      /\ ops[target[h]].msg.status = "DONE" => ops'[target[h]].msg = ops[target[h]].msg
  BY DEF Created, OpsGrow, SameHandle
<1>2. Created(h)'
  BY <1>1 DEF Created, SameHandle
<1>3. PollRequest(h)' = PollRequest(h)
  BY <1>1 DEF PollRequest, SameHandle
<1>4. \A msg, k : k = target[h] /\ Truthful(msg, k) => Truthful(msg, k)'
  BY <1>1 DEF Truthful
<1> QED
  BY <1>2, <1>3, <1>4

LEMMA HandleKept ==
  ASSUME NEW h \in Handles, HandleOK(h), OpsGrow, UNCHANGED api, SameHandle(h), SameCall(h)
  PROVE  HandleOK(h)'
<1>1. CASE kind[h] = "none"
  BY <1>1 DEF HandleOK, Calling, SameHandle, SameCall, Done
<1>2. CASE kind[h] # "none"
  <2>1. Created(h) /\ Truthful(proto[h], target[h]) /\ Calling(h)
    BY <1>2 DEF HandleOK
  <2>2. /\ Created(h)'
        /\ PollRequest(h)' = PollRequest(h)
        /\ \A msg, k : k = target[h] /\ Truthful(msg, k) => Truthful(msg, k)'
    BY <1>2, <2>1, KeepsOperation
  <2>3. Calling(h)'
    <3>1. ASSUME rpc[h].resp # NoMessage, rpc[h].state # "none"
          PROVE  Truthful(rpc[h].resp, target[h])'
      BY <2>1, <2>2, <3>1 DEF Calling, SameHandle, SameCall, Truthful
    <3> QED
      BY <2>1, <2>2, <3>1 DEF Calling, SameHandle, SameCall, Done
  <2>4. Truthful(proto[h], target[h])'
    BY <2>1, <2>2 DEF SameHandle, Truthful
  <2> QED
    BY <1>2, <2>2, <2>3, <2>4 DEF HandleOK, SameHandle, SameCall, Done
<1> QED
  BY <1>1, <1>2

(* Steps of one handle leave the others alone. *)
LEMMA OneHandle ==
  ASSUME IInv, NEW h \in Handles, UNCHANGED api, OpsInv', OpsGrow,
         \A g \in Handles \ {h} : SameHandle(g) /\ SameCall(g),
         HandlesTyped', HandleOK(h)'
  PROVE  IInv'
<1>1. \A g \in Handles \ {h} : HandleOK(g)'
  BY HandleKept DEF IInv, HandleInv
<1> QED
  BY <1>1 DEF IInv, HandleInv

(* Creating a handle: what it gets is right, and it is in no call. *)
LEMMA CreateKeeps ==
  ASSUME IInv, NEW h \in Handles, NEW k \in Ops, NEW what \in Kinds \ {"none"},
         kind[h] = "none", Holds(h, k, what), OpsInv', OpsGrow,
         NEW msg \in Messages, proto' = [proto EXCEPT ![h] = msg],
         NEW path \in Paths, pollPath' = [pollPath EXCEPT ![h] = path],
         NEW ps \in [Params -> Values \cup {Unset}], params' = [params EXCEPT ![h] = ps],
         Truthful(msg, k)', Created(h)'
  PROVE  IInv'
<1>1. /\ HandlesTyped /\ HandleOK(h)
      /\ kind' = [kind EXCEPT ![h] = what] /\ target' = [target EXCEPT ![h] = k]
      /\ UNCHANGED <<api, calling, rpc, report>>
  BY DEF Holds, IInv, HandleInv
<1>2. k \in 0 .. MaxOps
  BY OperationAssumption DEF Ops
<1>3. HandlesTyped'
  BY <1>1, <1>2 DEF HandlesTyped
<1>4. kind'[h] = what /\ target'[h] = k /\ proto'[h] = msg
  BY <1>1 DEF HandlesTyped
<1>5. \A g \in Handles \ {h} : SameHandle(g) /\ SameCall(g)
  BY <1>1 DEF HandlesTyped, SameHandle, SameCall
<1>6. calling[h] = "none" /\ rpc[h].state = "none" /\ report[h] = "nothing"
  BY <1>1 DEF HandleOK
<1>7. Truthful(proto[h], target[h])'
  BY <1>4 DEF Truthful
<1>8. HandleOK(h)'
  BY <1>1, <1>4, <1>6, <1>7 DEF HandleOK, Calling
<1> QED
  BY <1>1, <1>3, <1>5, <1>8, OneHandle

(* What a new operation is: the handle gets the message as it is. *)
LEMMA StartsForHandle ==
  ASSUME OpsInv, UNCHANGED api, FreeOps # {}, NEW o \in OpServices \cup {"lro"},
         NEW v \in [Params -> Values \cup {Unset}], o = "lro" \/ v \in [Params -> Values],
         ServerStarts(NewOp, o, v)
  PROVE  /\ NewOp \in Ops /\ OpsInv' /\ OpsGrow
         /\ ops'[NewOp].serv = o /\ ops'[NewOp].params = v
         /\ ops'[NewOp].msg \in Messages
         /\ ops'[NewOp].msg.status = "RUNNING" => ops'[NewOp].msg.code = 0
<1>1. PICK k \in FreeOps : k = NewOp
  BY NewOpIsFree
<1>2. ServerStarts(k, o, v)
  BY <1>1
<1>3. Started(k, o, v) /\ ops' \in [Ops -> OperationSet]
  BY <1>2, StartsOne
<1>4. OpsInv'
  BY <1>2, StartsKeepOps
<1>5. k \in Ops /\ ops[k].serv = "none"
  BY <1>1 DEF FreeOps
<1>6. OpsGrow
  BY <1>3, <1>5 DEF Started, OpsGrow
<1>7. ops'[k] \in OperationSet
  BY <1>3, <1>5
<1>8. ops'[k].msg \in Messages
  BY <1>7 DEF OperationSet
<1> QED
  BY <1>1, <1>3, <1>4, <1>5, <1>6, <1>8 DEF Started

LEMMA CreateCustomKeeps ==
  ASSUME IInv, NEW h \in Handles, NEW m \in Methods, NEW req \in Places, CreateCustom(h, m, req)
  PROVE  IInv' /\ OpsGrow /\ UNCHANGED api
<1>1. /\ OpsInv /\ HandlesTyped /\ api \in Annotations /\ Compiles(api)
      /\ req \in [Params -> Values] /\ req \in [Params -> Values \cup {Unset}]
  BY OperationAssumption DEF IInv, OpsInv, OpsTyped
<1>2. /\ kind[h] = "none" /\ FreeOps # {} /\ api.serv[m] # NoService
      /\ ServerStarts(NewOp, api.serv[m], req) /\ Holds(h, NewOp, "custom")
      /\ proto' = [proto EXCEPT ![h] = ops'[NewOp].msg]
      /\ params' = [params EXCEPT ![h] = customOpInit(api, m, req, Unset)]
      /\ UNCHANGED <<api, pollPath>>
  BY DEF CreateCustom, Holds
<1>3. api.serv[m] \in OpServices
  BY <1>1, <1>2 DEF Annotations
<1>4. PICK k, o, msg : k = NewOp /\ o = api.serv[m] /\ msg = ops'[NewOp].msg
  OBVIOUS
<1>5. /\ k \in Ops /\ OpsInv' /\ OpsGrow
      /\ ops'[k].serv = o /\ ops'[k].params = req
      /\ msg = ops'[k].msg /\ msg \in Messages
      /\ msg.status = "RUNNING" => msg.code = 0
  BY <1>1, <1>2, <1>3, <1>4, StartsForHandle
<1>6. PICK ps : ps = customOpInit(api, m, req, Unset)
  OBVIOUS
<1>7. /\ ps \in [Params -> Values \cup {Unset}]
      /\ \A p \in Params : ps[p] \in {req[p], Unset}
  BY <1>1, <1>6 DEF customOpInit
<1>8. WellAnnotated(api) => \A p \in api.required[o] : ps[p] = req[p]
  BY <1>1, <1>2, <1>4, <1>6, AllRequiredInit
<1>9. pollPath[h] \in Paths /\ pollPath' = [pollPath EXCEPT ![h] = pollPath[h]]
  BY <1>1, <1>2 DEF HandlesTyped
<1>10. /\ kind'[h] = "custom" /\ target'[h] = k /\ proto'[h] = msg /\ params'[h] = ps
       /\ api' = api
  BY <1>1, <1>2, <1>4, <1>6 DEF HandlesTyped, Holds
<1>11. Created(h)'
  <2>1. target'[h] \in Ops /\ ops'[target'[h]].serv = o /\ o \in OpServices /\ o # "none"
    BY <1>3, <1>4, <1>5, <1>10, CustomOperationsAssumption DEF NoService
  <2>2. WellAnnotated(api)' => WellAnnotated(api)
    BY <1>10 DEF WellAnnotated
  <2>3. WellAnnotated(api)' =>
          \A p \in api'.required[o] : params'[h][p] = ops'[target'[h]].params[p]
    BY <1>5, <1>8, <1>10, <2>2
  <2> QED
    BY <1>5, <1>7, <1>10, <2>1, <2>3 DEF Created
<1>12. Truthful(msg, k)'
  BY <1>5 DEF Truthful
<1>13. Holds(h, k, "custom") /\ "custom" \in Kinds \ {"none"}
  BY <1>2, <1>4 DEF Kinds
<1>14. proto' = [proto EXCEPT ![h] = msg] /\ params' = [params EXCEPT ![h] = ps]
  BY <1>2, <1>4, <1>6
<1>15. IInv'
  BY <1>2, <1>5, <1>7, <1>9, <1>11, <1>12, <1>13, <1>14, CreateKeeps
<1> QED
  BY <1>2, <1>5, <1>15

(* A wrapper, returned by a method or built by name. *)
LEMMA WrapperKeeps ==
  ASSUME IInv, NEW h \in Handles, NEW t \in {"grpc", "rest"}, NEW k \in Ops,
         kind[h] = "none", Holds(h, k, t), OpsInv', OpsGrow,
         NEW msg \in Messages, proto' = [proto EXCEPT ![h] = msg],
         pollPath' = [pollPath EXCEPT ![h] = Override(t)], UNCHANGED params,
         ops'[k].serv = "lro", Truthful(msg, k)'
  PROVE  IInv'
<1>1. HandlesTyped
  BY DEF IInv
<1>2. PICK path \in Paths : path = Override(t)
  BY DEF Override, Paths
<1>3. params[h] \in [Params -> Values \cup {Unset}] /\ params' = [params EXCEPT ![h] = params[h]]
  BY <1>1 DEF HandlesTyped
<1>4. /\ kind'[h] = t /\ target'[h] = k /\ proto'[h] = msg
      /\ t = "rest" => pollPath'[h] = "api"
  BY <1>1 DEF HandlesTyped, Holds, Override
<1>5. Created(h)'
  BY <1>4 DEF Created, Truthful
<1>6. t \in Kinds \ {"none"} /\ pollPath' = [pollPath EXCEPT ![h] = path]
  BY <1>2 DEF Kinds
<1> QED
  BY <1>3, <1>5, <1>6, CreateKeeps

LEMMA CreateLROKeeps ==
  ASSUME IInv, NEW h \in Handles, NEW t \in {"grpc", "rest"}, CreateLRO(h, t)
  PROVE  IInv' /\ OpsGrow /\ UNCHANGED api
<1>1. OpsInv /\ NoParams \in [Params -> Values \cup {Unset}]
  BY DEF IInv, NoParams
<1>2. /\ kind[h] = "none" /\ FreeOps # {}
      /\ ServerStarts(NewOp, "lro", NoParams) /\ Holds(h, NewOp, t)
      /\ proto' = [proto EXCEPT ![h] = ops'[NewOp].msg]
      /\ pollPath' = [pollPath EXCEPT ![h] = Override(t)]
      /\ UNCHANGED <<api, params>>
  BY DEF CreateLRO, Holds
<1>3. PICK k, msg : k = NewOp /\ msg = ops'[NewOp].msg
  OBVIOUS
<1>4. /\ k \in Ops /\ OpsInv' /\ OpsGrow /\ ops'[k].serv = "lro"
      /\ msg = ops'[k].msg /\ msg \in Messages
      /\ msg.status = "RUNNING" => msg.code = 0
  BY <1>1, <1>2, <1>3, StartsForHandle
<1>5. Truthful(msg, k)'
  BY <1>4 DEF Truthful
<1>6. Holds(h, k, t) /\ proto' = [proto EXCEPT ![h] = msg]
  BY <1>2, <1>3
<1>7. IInv'
  BY <1>2, <1>4, <1>5, <1>6, WrapperKeeps
<1> QED
  BY <1>2, <1>4, <1>7

LEMMA FromNameKeeps ==
  ASSUME IInv, NEW h \in Handles, NEW t \in {"grpc", "rest"}, NEW k \in Ops, FromName(h, t, k)
  PROVE  IInv' /\ OpsGrow /\ UNCHANGED api
<1>1. /\ kind[h] = "none" /\ ops[k].serv = "lro" /\ Holds(h, k, t)
      /\ proto' = [proto EXCEPT ![h] = [name |-> ops[k].msg.name, status |-> "RUNNING", code |-> 0]]
      /\ pollPath' = [pollPath EXCEPT ![h] = Override(t)]
      /\ UNCHANGED <<api, ops, params>>
  BY DEF FromName, Holds
<1>2. OpsInv /\ OpsInv' /\ OpsGrow
  BY <1>1, OpsUnchanged DEF IInv
<1>3. ops[k].msg.name \in Ops
  BY <1>1, <1>2 DEF OpsInv, OpsTyped
<1>4. PICK msg : msg = [name |-> ops[k].msg.name, status |-> "RUNNING", code |-> 0]
  OBVIOUS
<1>5. msg \in Messages
  BY <1>3, <1>4 DEF Messages, Codes
<1>6. Truthful(msg, k)'
  BY <1>1, <1>4 DEF Truthful
<1>7. proto' = [proto EXCEPT ![h] = msg] /\ ops'[k].serv = "lro"
  BY <1>1, <1>4
<1>8. IInv'
  BY <1>1, <1>2, <1>5, <1>6, <1>7, WrapperKeeps
<1> QED
  BY <1>1, <1>2, <1>8

(* A step of a call: the handle keeps its operation, the server waits. *)
LEMMA CallKeeps ==
  ASSUME IInv, NEW h \in Handles, kind[h] # "none",
         UNCHANGED <<api, ops, handleVars>>, HandlesTyped',
         \A g \in Handles \ {h} : proto'[g] = proto[g] /\ SameCall(g),
         Truthful(proto'[h], target[h]), Calling(h)',
         report'[h] \in {"ok", "failed"} => proto'[h].status = "DONE"
  PROVE  IInv' /\ OpsGrow /\ UNCHANGED api
<1>1. OpsInv' /\ OpsGrow
  BY OpsUnchanged DEF IInv
<1>2. \A g \in Handles \ {h} : SameHandle(g) /\ SameCall(g)
  BY DEF SameHandle, handleVars
<1>3. Created(h) /\ Truthful(proto[h], target[h])
  BY DEF IInv, HandleInv, HandleOK
<1>4. Created(h)'
  BY <1>3 DEF Created, Truthful, handleVars, WellAnnotated
<1>5. Truthful(proto[h], target[h])'
  BY DEF Truthful, handleVars
<1>6. HandleOK(h)'
  BY <1>4, <1>5 DEF HandleOK, Done, handleVars
<1> QED
  BY <1>1, <1>2, <1>6, OneHandle

(* What is known of a handle that is in a call. *)
LEMMA InCall ==
  ASSUME IInv, NEW h \in Handles, calling[h] # "none" \/ rpc[h].state # "none"
  PROVE  /\ kind[h] # "none" /\ Created(h) /\ Truthful(proto[h], target[h]) /\ Calling(h)
         /\ target[h] \in Ops /\ proto[h] \in Messages \ {NoMessage}
         /\ report[h] \in {"ok", "failed"} => Done(h)
         /\ OpsInv /\ HandlesTyped /\ rpc[h] \in RPCSet
<1>1. /\ kind[h] # "none" /\ Created(h) /\ Truthful(proto[h], target[h]) /\ Calling(h)
      /\ report[h] \in {"ok", "failed"} => Done(h)
      /\ OpsInv /\ HandlesTyped
  BY DEF IInv, HandleInv, HandleOK
<1>2. target[h] \in Ops /\ ops[target[h]].msg.name \in Ops /\ proto[h].name \in Ops
  BY <1>1 DEF Created, OpsInv, OpsTyped
<1> QED
  BY <1>1, <1>2, OperationAssumption DEF HandlesTyped, NoMessage, Ops

LEMMA NoRPCTyped == NoRPC \in RPCSet
<1>1. NoParams \in [Params -> Values \cup {Unset}] /\ 0 \in 0 .. MaxOps
  BY OperationAssumption DEF NoParams
<1> QED
  BY <1>1 DEF NoRPC, RPCSet, NoRequest, Requests, Paths, Messages

(* Returning ends the polling call. *)
LEMMA ReturnKeeps ==
  ASSUME IInv, NEW h \in Handles, kind[h] # "none", UNCHANGED <<api, ops, handleVars>>,
         NEW result \in {"pending", "ok", "failed", "unavailable"}, Return(h, result),
         NEW msg \in Messages, proto' = [proto EXCEPT ![h] = msg], Truthful(msg, target[h]),
         result \in {"ok", "failed"} => msg.status = "DONE"
  PROVE  IInv' /\ OpsGrow /\ UNCHANGED api
<1>1. /\ HandlesTyped
      /\ calling' = [calling EXCEPT ![h] = "none"]
      /\ report' = [report EXCEPT ![h] = result]
      /\ rpc' = [rpc EXCEPT ![h] = NoRPC]
  BY DEF IInv, Return
<1>2. HandlesTyped'
  BY <1>1, NoRPCTyped DEF HandlesTyped, handleVars
<1>3. \A g \in Handles \ {h} : proto'[g] = proto[g] /\ SameCall(g)
  BY <1>1 DEF HandlesTyped, SameCall
<1>4. /\ proto'[h] = msg /\ report'[h] = result /\ rpc'[h].state = "none"
  BY <1>1 DEF HandlesTyped, NoRPC
<1>5. Calling(h)'
  BY <1>4 DEF Calling
<1> QED
  BY <1>2, <1>3, <1>4, <1>5, CallKeeps

LEMMA CallStartKeeps ==
  ASSUME IInv, NEW h \in Handles, NEW what \in {"Poll", "Wait"}, Call(h, what)
  PROVE  IInv' /\ OpsGrow /\ UNCHANGED api
<1>1. /\ kind[h] # "none" /\ calling[h] = "none"
      /\ report' = [report EXCEPT ![h] = "nothing"]
      /\ calling' = [calling EXCEPT ![h] = what]
      /\ UNCHANGED <<api, ops, handleVars, proto, rpc>>
  BY DEF Call
<1>2. HandlesTyped /\ Truthful(proto[h], target[h]) /\ Calling(h)
  BY <1>1 DEF IInv, HandleInv, HandleOK
<1>3. HandlesTyped'
  BY <1>1, <1>2 DEF HandlesTyped, handleVars
<1>4. \A g \in Handles \ {h} : proto'[g] = proto[g] /\ SameCall(g)
  BY <1>1, <1>2 DEF HandlesTyped, SameCall
<1>5. report'[h] = "nothing" /\ proto'[h] = proto[h] /\ rpc'[h] = rpc[h]
  BY <1>1, <1>2 DEF HandlesTyped
<1>6. Calling(h)'
  BY <1>1, <1>2, <1>5 DEF Calling
<1> QED
  BY <1>1, <1>2, <1>3, <1>4, <1>5, <1>6, CallKeeps

LEMMA PollKeeps ==
  ASSUME IInv, NEW h \in Handles, Poll(h)
  PROVE  IInv' /\ OpsGrow /\ UNCHANGED api
<1> DEFINE asked == [NoRPC EXCEPT !.state = "asked", !.req = PollRequest(h)]
<1>1. /\ calling[h] \in {"Poll", "Wait"}
      /\ rpc' = [rpc EXCEPT ![h] = asked]
      /\ UNCHANGED <<api, ops, handleVars, proto, calling, report>>
  BY DEF Poll
<1>2. /\ kind[h] # "none" /\ Created(h) /\ Truthful(proto[h], target[h])
      /\ OpsInv /\ HandlesTyped /\ (report[h] \in {"ok", "failed"} => Done(h))
  BY <1>1, InCall
<1>3. PollRequest(h) \in Requests
  BY <1>2, AsksRight
<1>4. asked \in RPCSet
  BY <1>3, NoRPCTyped DEF RPCSet
<1>5. asked.state = "asked" /\ asked.req = PollRequest(h) /\ asked.resp = NoMessage
  BY DEF NoRPC
<1> HIDE DEF asked
<1>6. HandlesTyped'
  BY <1>1, <1>2, <1>4 DEF HandlesTyped, handleVars
<1>7. \A g \in Handles \ {h} : proto'[g] = proto[g] /\ SameCall(g)
  BY <1>1, <1>2 DEF HandlesTyped, SameCall
<1>8. rpc'[h] = asked
  BY <1>1, <1>2 DEF HandlesTyped
<1>9. PollRequest(h)' = PollRequest(h)
  BY <1>1 DEF PollRequest, handleVars
<1>10. Calling(h)'
  BY <1>1, <1>5, <1>8, <1>9 DEF Calling
<1> QED
  BY <1>1, <1>2, <1>6, <1>7, <1>10, CallKeeps DEF Done

LEMMA ServerAnswersKeeps ==
  ASSUME IInv, NEW h \in Handles, ServerAnswers(h)
  PROVE  IInv' /\ OpsGrow /\ UNCHANGED api
<1> DEFINE k == Asked(rpc[h].req)
           resp == IF k = NoOp THEN NoMessage ELSE ops[k].msg
           answered == [rpc[h] EXCEPT !.state = "answered", !.resp = resp]
           t == target[h]
<1>1. /\ rpc[h].state = "asked"
      /\ UNCHANGED <<api, ops, handleVars, proto, calling, report>>
  BY DEF ServerAnswers
<1>2. /\ kind[h] # "none" /\ Created(h) /\ Truthful(proto[h], t) /\ Calling(h)
      /\ OpsInv /\ HandlesTyped /\ (report[h] \in {"ok", "failed"} => Done(h))
      /\ t \in Ops /\ rpc[h] \in RPCSet
  BY <1>1, InCall
<1>3. rpc' = [rpc EXCEPT ![h] = answered]
  BY <1>2 DEF ServerAnswers, HandlesTyped, RPCSet
<1>4. calling[h] \in {"Poll", "Wait"} /\ rpc[h].req = PollRequest(h)
  BY <1>1, <1>2 DEF Calling
<1>5. k \in {NoOp, t} /\ NoOp \notin Ops
  BY <1>2, <1>4, AsksRight, OperationAssumption DEF NoOp, Ops
<1> HIDE DEF k
<1>6. ops[t] \in OperationSet /\ (ops[t].msg.status = "RUNNING" => ops[t].msg.code = 0)
  BY <1>2 DEF OpsInv, OpsTyped, Created
<1>7. /\ resp \in Messages
      /\ resp # NoMessage => resp = ops[t].msg
  BY <1>5, <1>6 DEF OperationSet, Messages
<1> HIDE DEF resp
<1>8. answered \in RPCSet
  BY <1>2, <1>7 DEF RPCSet
<1>9. answered.state = "answered" /\ answered.req = rpc[h].req /\ answered.resp = resp
  BY <1>2 DEF RPCSet
<1> HIDE DEF answered
<1>10. HandlesTyped'
  BY <1>1, <1>2, <1>3, <1>8 DEF HandlesTyped, handleVars
<1>11. \A g \in Handles \ {h} : proto'[g] = proto[g] /\ SameCall(g)
  BY <1>1, <1>2, <1>3 DEF HandlesTyped, SameCall
<1>12. rpc'[h] = answered
  BY <1>2, <1>3 DEF HandlesTyped
<1>13. PollRequest(h)' = PollRequest(h)
  BY <1>1 DEF PollRequest, handleVars
<1>14. ASSUME resp # NoMessage PROVE Truthful(resp, t) /\ (Done(h) => resp.status = "DONE")
  BY <1>2, <1>6, <1>7, <1>14 DEF Truthful, Done
<1>15. ASSUME resp # NoMessage PROVE Truthful(rpc[h].resp, target[h])'
  BY <1>1, <1>9, <1>12, <1>14, <1>15 DEF Truthful, handleVars
<1>16. Calling(h)'
  BY <1>1, <1>4, <1>9, <1>12, <1>13, <1>14, <1>15 DEF Calling, Done
<1>17. Truthful(proto'[h], target[h])
  BY <1>1, <1>2
<1>18. report'[h] \in {"ok", "failed"} => proto'[h].status = "DONE"
  BY <1>1, <1>2 DEF Done
<1> QED
  BY <1>1, <1>2, <1>10, <1>11, <1>16, <1>17, <1>18, CallKeeps

LEMMA StoredOutcomeKeeps ==
  ASSUME IInv, NEW h \in Handles, StoredOutcome(h)
  PROVE  IInv' /\ OpsGrow /\ UNCHANGED api
<1>1. /\ calling[h] \in {"Poll", "Wait"} /\ Done(h)
      /\ Return(h, IF Failure(proto[h]) THEN "failed" ELSE "ok")
      /\ UNCHANGED <<api, ops, handleVars, proto>>
  BY DEF StoredOutcome, Polls
<1>2. /\ kind[h] # "none" /\ Truthful(proto[h], target[h]) /\ HandlesTyped
      /\ proto[h] \in Messages
  BY <1>1, InCall
<1>3. PICK result \in {"pending", "ok", "failed", "unavailable"} :
        result = IF Failure(proto[h]) THEN "failed" ELSE "ok"
  OBVIOUS
<1>4. Return(h, result) /\ proto' = [proto EXCEPT ![h] = proto[h]]
  BY <1>1, <1>2, <1>3 DEF HandlesTyped
<1> QED
  BY <1>1, <1>2, <1>4, ReturnKeeps DEF Done

(* A call that reports the end of the operation has its last message: a
   message of an operation that runs has no error code (Poll). *)
LEMMA AfterEnds ==
  ASSUME NEW h \in Handles, NEW msg \in Messages \ {NoMessage},
         msg.status = "RUNNING" => msg.code = 0
  PROVE  /\ After(h, msg) \in {"failed", "ok", "pause", "pending"}
         /\ After(h, msg) \in {"failed", "ok"} <=> msg.status = "DONE"
         /\ After(h, msg) = "pause" => calling[h] = "Wait"
         /\ After(h, msg) = "pending" => calling[h] # "Wait"
         /\ After(h, msg) = "failed" => msg.code = 409
         /\ After(h, msg) = "ok" => msg.code \in {0, 200}
<1>1. msg.status \in {"RUNNING", "DONE"} /\ msg.code \in {0, 200, 409}
  BY DEF Messages, Codes
<1>2. Failure(msg) <=> msg.code = 409
  BY <1>1 DEF Failure
<1> QED
  BY <1>1, <1>2 DEF After

LEMMA AnsweredKeeps ==
  ASSUME IInv, NEW h \in Handles, Answered(h)
  PROVE  /\ IInv' /\ OpsGrow /\ UNCHANGED api
         /\ Done(h) => rpc[h].resp.status = "DONE"
<1> DEFINE resp == rpc[h].resp
<1>1. /\ rpc[h].state = "answered" /\ resp # NoMessage
      /\ proto' = [proto EXCEPT ![h] = Stored(h, resp)]
      /\ UNCHANGED <<api, ops, handleVars>>
  BY DEF Answered
<1>2. /\ kind[h] # "none" /\ HandlesTyped /\ Calling(h) /\ rpc[h] \in RPCSet
      /\ (report[h] \in {"ok", "failed"} => Done(h))
  BY <1>1, InCall
<1>3. /\ resp \in Messages \ {NoMessage} /\ calling[h] \in {"Poll", "Wait"}
      /\ Truthful(resp, target[h]) /\ (Done(h) => resp.status = "DONE")
  BY <1>1, <1>2 DEF Calling, RPCSet
<1>4. PICK msg, next : msg = resp /\ next = After(h, resp)
  OBVIOUS
<1>5. msg \in Messages /\ Truthful(msg, target[h]) /\ proto' = [proto EXCEPT ![h] = msg]
  BY <1>1, <1>3, <1>4 DEF Stored
<1>6. /\ next \in {"failed", "ok", "pause", "pending"}
      /\ next \in {"ok", "failed"} => msg.status = "DONE"
  BY <1>3, <1>4, AfterEnds DEF Truthful
<1>7. CASE next # "pause"
  <2>1. Return(h, next)
    BY <1>4, <1>7 DEF Answered
  <2>2. next \in {"pending", "ok", "failed", "unavailable"}
    BY <1>6, <1>7
  <2>3. IInv' /\ OpsGrow /\ UNCHANGED api
    BY <1>1, <1>2, <1>5, <1>6, <2>1, <2>2, ReturnKeeps
  <2> QED
    BY <1>3, <2>3
<1>8. CASE next = "pause"
  <2>1. /\ calling' = [calling EXCEPT ![h] = "paused"]
        /\ rpc' = [rpc EXCEPT ![h] = NoRPC]
        /\ UNCHANGED report
    BY <1>4, <1>8 DEF Answered
  <2>2. HandlesTyped'
    BY <1>1, <1>2, <1>5, <2>1, NoRPCTyped DEF HandlesTyped, handleVars
  <2>3. \A g \in Handles \ {h} : proto'[g] = proto[g] /\ SameCall(g)
    BY <1>2, <1>5, <2>1 DEF HandlesTyped, SameCall
  <2>4. proto'[h] = msg /\ rpc'[h].state = "none" /\ report'[h] = report[h]
    BY <1>2, <1>5, <2>1 DEF HandlesTyped, NoRPC
  <2>5. Calling(h)'
    BY <2>4 DEF Calling
  <2>6. Truthful(proto'[h], target[h])
    BY <1>5, <2>4
  <2>7. report'[h] \in {"ok", "failed"} => proto'[h].status = "DONE"
    BY <1>2, <1>3, <1>4, <2>4
  <2>8. IInv' /\ OpsGrow /\ UNCHANGED api
    BY <1>1, <1>2, <2>2, <2>3, <2>5, <2>6, <2>7, CallKeeps
  <2> QED
    BY <1>3, <2>8
<1> QED
  BY <1>7, <1>8

LEMMA FailsKeeps ==
  ASSUME IInv, NEW h \in Handles, PollFails(h) \/ PauseInterrupted(h)
  PROVE  IInv' /\ OpsGrow /\ UNCHANGED api /\ UNCHANGED proto
<1>1. /\ rpc[h].state # "none" \/ calling[h] # "none"
      /\ Return(h, "unavailable")
      /\ UNCHANGED <<api, ops, handleVars>>
  BY DEF PollFails, PauseInterrupted, GiveUp
<1>2. /\ kind[h] # "none" /\ Truthful(proto[h], target[h]) /\ HandlesTyped
      /\ proto[h] \in Messages
  BY <1>1, InCall
<1>3. proto' = [proto EXCEPT ![h] = proto[h]] /\ UNCHANGED proto
  BY <1>2 DEF PollFails, PauseInterrupted, Stored, HandlesTyped
<1> QED
  BY <1>1, <1>2, <1>3, ReturnKeeps

LEMMA PauseEndsKeeps ==
  ASSUME IInv, NEW h \in Handles, PauseEnds(h)
  PROVE  IInv' /\ OpsGrow /\ UNCHANGED api
<1>1. /\ calling[h] = "paused"
      /\ calling' = [calling EXCEPT ![h] = "Wait"]
      /\ UNCHANGED <<api, ops, handleVars, proto, rpc, report>>
  BY DEF PauseEnds
<1>2. /\ kind[h] # "none" /\ Truthful(proto[h], target[h]) /\ Calling(h) /\ HandlesTyped
      /\ (report[h] \in {"ok", "failed"} => Done(h))
  BY <1>1, InCall
<1>3. HandlesTyped'
  BY <1>1, <1>2 DEF HandlesTyped, handleVars
<1>4. \A g \in Handles \ {h} : proto'[g] = proto[g] /\ SameCall(g)
  BY <1>1, <1>2 DEF HandlesTyped, SameCall
<1>5. rpc[h].state = "none"
  BY <1>1, <1>2 DEF Calling
<1>6. Calling(h)'
  BY <1>1, <1>5 DEF Calling
<1>7. Truthful(proto'[h], target[h])
  BY <1>1, <1>2
<1> QED
  BY <1>1, <1>2, <1>3, <1>4, <1>6, <1>7, CallKeeps DEF Done

LEMMA ServerEndsKeeps ==
  ASSUME IInv, NEW k \in Ops, ServerEnds(k)
  PROVE  IInv' /\ OpsGrow /\ UNCHANGED api
<1>1. OpsInv' /\ OpsGrow /\ UNCHANGED <<api, handleVars, proto, calling, rpc, report>>
  BY EndsKeepOps DEF IInv, ServerEnds
<1>2. \A g \in Handles : SameHandle(g) /\ SameCall(g)
  BY <1>1 DEF SameHandle, SameCall, handleVars
<1>3. HandlesTyped'
  BY <1>1 DEF IInv, HandlesTyped, handleVars
<1>4. \A g \in Handles : HandleOK(g)'
  BY <1>1, <1>2, HandleKept DEF IInv, HandleInv
<1> QED
  BY <1>1, <1>3, <1>4 DEF IInv, HandleInv

(* Every step keeps the invariant and, of every handle, its operation and
   that it is done. *)
Faithful(h) == kind[h] # "none" => target'[h] = target[h] /\ (Done(h) => proto'[h].status = "DONE")

LEMMA StepKeeps ==
  ASSUME IInv, [Next]_vars
  PROVE  IInv' /\ OpsGrow /\ \A g \in Handles : Faithful(g)
<1>1. HandlesTyped
  BY DEF IInv
<1>2. ASSUME NEW h \in Handles, kind[h] = "none", NEW k, NEW what, Holds(h, k, what),
             NEW msg, proto' = [proto EXCEPT ![h] = msg]
      PROVE  \A g \in Handles : Faithful(g)
  BY <1>1, <1>2 DEF HandlesTyped, Holds, Faithful, Done
<1>3. ASSUME UNCHANGED <<target, proto>> PROVE \A g \in Handles : Faithful(g)
  BY <1>3 DEF Faithful, Done
<1>4. CASE UNCHANGED vars
  <2>1. UNCHANGED <<api, ops, target, proto>>
    BY <1>4 DEF vars
  <2>2. OpsInv' /\ OpsGrow
    BY <2>1, OpsUnchanged DEF IInv
  <2>3. \A g \in Handles : SameHandle(g) /\ SameCall(g)
    BY <1>4 DEF vars, SameHandle, SameCall
  <2>4. \A g \in Handles : HandleOK(g)'
    BY <2>1, <2>2, <2>3, HandleKept DEF IInv, HandleInv
  <2>5. HandlesTyped'
    BY <1>1, <1>4 DEF vars, HandlesTyped
  <2> QED
    BY <1>3, <2>1, <2>2, <2>4, <2>5 DEF IInv, HandleInv
<1>5. ASSUME NEW h \in Handles, HandleStep(h)
      PROVE  IInv' /\ OpsGrow /\ \A g \in Handles : Faithful(g)
  <2>1. CASE Poll(h)
    BY <1>3, <2>1, PollKeeps DEF Poll, handleVars
  <2>2. CASE StoredOutcome(h)
    BY <1>3, <2>2, StoredOutcomeKeeps DEF StoredOutcome, handleVars
  <2>3. CASE Answered(h)
    <3>1. /\ IInv' /\ OpsGrow
          /\ Done(h) => rpc[h].resp.status = "DONE"
      BY <2>3, AnsweredKeeps
    <3>2. /\ proto' = [proto EXCEPT ![h] = rpc[h].resp] /\ target' = target
      BY <2>3 DEF Answered, Stored, handleVars
    <3>3. \A g \in Handles : Faithful(g)
      BY <1>1, <3>1, <3>2 DEF HandlesTyped, Faithful, Done
    <3> QED
      BY <3>1, <3>3
  <2>4. CASE PollFails(h) \/ PauseInterrupted(h)
    BY <1>3, <2>4, FailsKeeps DEF PollFails, PauseInterrupted, handleVars
  <2>5. CASE PauseEnds(h)
    BY <1>3, <2>5, PauseEndsKeeps DEF PauseEnds, handleVars
  <2> QED
    BY <1>5, <2>1, <2>2, <2>3, <2>4, <2>5 DEF HandleStep
<1>6. ASSUME NEW h \in Handles, ServerAnswers(h)
      PROVE  IInv' /\ OpsGrow /\ \A g \in Handles : Faithful(g)
  BY <1>3, <1>6, ServerAnswersKeeps DEF ServerAnswers, handleVars
<1>7. ASSUME NEW h \in Handles, NEW what \in {"Poll", "Wait"}, Call(h, what)
      PROVE  IInv' /\ OpsGrow /\ \A g \in Handles : Faithful(g)
  BY <1>3, <1>7, CallStartKeeps DEF Call, handleVars
<1>8. ASSUME NEW h \in Handles, NEW m \in Methods, NEW req \in Places, CreateCustom(h, m, req)
      PROVE  IInv' /\ OpsGrow /\ \A g \in Handles : Faithful(g)
  <2>1. IInv' /\ OpsGrow
    BY <1>8, CreateCustomKeeps
  <2>2. /\ kind[h] = "none" /\ Holds(h, NewOp, "custom")
        /\ proto' = [proto EXCEPT ![h] = ops'[NewOp].msg]
    BY <1>8 DEF CreateCustom
  <2> QED
    BY <1>2, <2>1, <2>2
<1>9. ASSUME NEW h \in Handles, NEW t \in {"grpc", "rest"}, CreateLRO(h, t)
      PROVE  IInv' /\ OpsGrow /\ \A g \in Handles : Faithful(g)
  <2>1. IInv' /\ OpsGrow
    BY <1>9, CreateLROKeeps
  <2>2. /\ kind[h] = "none" /\ Holds(h, NewOp, t)
        /\ proto' = [proto EXCEPT ![h] = ops'[NewOp].msg]
    BY <1>9 DEF CreateLRO
  <2> QED
    BY <1>2, <2>1, <2>2
<1>10. ASSUME NEW h \in Handles, NEW t \in api.lro, NEW k \in Ops, FromName(h, t, k)
       PROVE  IInv' /\ OpsGrow /\ \A g \in Handles : Faithful(g)
  <2>1. t \in {"grpc", "rest"}
    BY OperationAssumption DEF IInv, OpsInv, OpsTyped, Annotations
  <2>2. IInv' /\ OpsGrow
    BY <1>10, <2>1, FromNameKeeps
  <2>3. /\ kind[h] = "none" /\ Holds(h, k, t)
        /\ proto' = [proto EXCEPT ![h] =
             [name |-> ops[k].msg.name, status |-> "RUNNING", code |-> 0]]
    BY <1>10 DEF FromName
  <2> QED
    BY <1>2, <2>2, <2>3
<1>11. ASSUME NEW k \in Ops, ServerEnds(k)
       PROVE  IInv' /\ OpsGrow /\ \A g \in Handles : Faithful(g)
  BY <1>3, <1>11, ServerEndsKeeps DEF ServerEnds, handleVars
<1> QED
  BY <1>4, <1>5, <1>6, <1>7, <1>8, <1>9, <1>10, <1>11 DEF Next, lroCall, lroRESTCall

-------------------------------------------------------------------------------
(* IInv: operations stand in their places under unique names, every handle
   has the name and the fields of its operation, and what it holds, or an
   answer on its way to it, is true of the operation. *)
THEOREM InvariantHolds == Spec => []IInv
<1>1. Init => IInv
  BY OpsInit, HandlesInit DEF IInv
<1>2. IInv /\ [Next]_vars => IInv'
  BY StepKeeps
<1> QED
  BY <1>1, <1>2, PTL DEF Spec

LEMMA TypesFollow == IInv => TypeOK
<1> SUFFICES ASSUME IInv PROVE TypeOK
  OBVIOUS
<1>1. OpsTyped /\ HandlesTyped /\ HandleInv
  BY DEF IInv, OpsInv
<1>2. \A k \in Ops : ops[k].serv \in OpServices \cup {"lro", "none"} /\ ops[k].msg \in Messages
  BY <1>1 DEF OpsTyped, OperationSet
<1>3. \A h \in Handles : kind[h] # "none" => proto[h] # NoMessage
  <2> SUFFICES ASSUME NEW h \in Handles, kind[h] # "none" PROVE proto[h] # NoMessage
    OBVIOUS
  <2>1. proto[h].name \in Ops
    BY <1>1 DEF HandleInv, HandleOK, Created, OpsTyped
  <2> QED
    BY <2>1, OperationAssumption DEF NoMessage, Ops
<1>4. \A h \in Handles : /\ rpc[h].state \in {"none", "asked", "answered"}
                         /\ rpc[h].req \in Requests
                         /\ rpc[h].resp \in Messages
  BY <1>1 DEF HandlesTyped, RPCSet
<1> QED
  BY <1>1, <1>2, <1>3, <1>4 DEF TypeOK, OpsTyped, HandlesTyped

(* TypeOK, of handles, calls and operations. *)
THEOREM TypeCorrect == Spec => []TypeOK
BY InvariantHolds, TypesFollow, PTL

(* AsksForItsOperation: a polling request in progress is the one the handle
   would make now, and that finds its own operation (PollRequest, Asked). *)
THEOREM AsksRightAlways == Spec => []AsksForItsOperation
<1>1. IInv => AsksForItsOperation
  <2> SUFFICES ASSUME IInv, NEW h \in Handles, rpc[h].state # "none",
                      kind[h] = "custom" => WellAnnotated(api)
               PROVE  Asked(rpc[h].req) = target[h]
    BY DEF AsksForItsOperation
  <2>1. kind[h] # "none" /\ Created(h) /\ Calling(h) /\ OpsInv /\ HandlesTyped
    BY InCall
  <2>2. rpc[h].req = PollRequest(h)
    BY <2>1 DEF Calling
  <2> QED
    BY <2>1, <2>2, AsksRight
<1> QED
  BY <1>1, InvariantHolds, PTL

(* DoneIsFinal: no step, a failing poll included, takes Done back or changes
   the name, and an outcome is reported only by a handle that is done. *)
THEOREM DoneStays == Spec => DoneIsFinal
<1> DEFINE A == \A h \in Handles :
       /\ kind[h] # "none" => proto'[h].name = proto[h].name /\ (Done(h) => Done(h)')
       /\ report'[h] \in {"ok", "failed"} => Done(h)'
<1>1. IInv /\ [Next]_vars => A
  <2> SUFFICES ASSUME IInv, [Next]_vars, NEW h \in Handles
               PROVE  /\ kind[h] # "none" =>
                           proto'[h].name = proto[h].name /\ (Done(h) => Done(h)')
                      /\ report'[h] \in {"ok", "failed"} => Done(h)'
    OBVIOUS
  <2>1. IInv' /\ OpsGrow /\ Faithful(h)
    BY StepKeeps
  <2>2. report'[h] \in {"ok", "failed"} => Done(h)'
    BY <2>1 DEF IInv, HandleInv, HandleOK
  <2>3. ASSUME kind[h] # "none"
        PROVE  proto'[h].name = proto[h].name /\ (Done(h) => Done(h)')
    <3>1. /\ target[h] \in Ops /\ ops[target[h]].serv # "none"
          /\ proto[h].name = ops[target[h]].msg.name
      BY <2>3 DEF IInv, HandleInv, HandleOK, Created
    <3>2. target'[h] = target[h] /\ (Done(h) => proto'[h].status = "DONE")
      BY <2>1, <2>3 DEF Faithful
    <3>3. ops'[target[h]].msg.name = ops[target[h]].msg.name
      BY <2>1, <3>1 DEF OpsGrow
    <3>4. kind'[h] # "none"
      BY <2>1, <3>1, <3>2, OperationAssumption DEF IInv, HandleInv, HandleOK, NoOp, Ops
    <3>5. proto'[h].name = ops'[target'[h]].msg.name
      BY <2>1, <3>4 DEF IInv, HandleInv, HandleOK, Created
    <3> QED
      BY <3>1, <3>2, <3>3, <3>5 DEF Done
  <2> QED
    BY <2>2, <2>3
<1>2. IInv /\ [Next]_vars => [A]_vars
  BY <1>1
<1> QED
  BY <1>2, InvariantHolds, PTL DEF Spec, DoneIsFinal

-------------------------------------------------------------------------------
(* The refinement.  What a goroutine sees of the operations and of calls. *)
Seen == [k \in Ops |-> Outcome(k)]
InCallOf == [h \in Handles |-> IF calling[h] = "paused" THEN "Wait" ELSE calling[h]]

LEMMA SeenUnchanged ==
  ASSUME UNCHANGED ops
  PROVE  UNCHANGED Seen
BY DEF Seen, Outcome

LEMMA SeenChanges ==
  ASSUME NEW k \in Ops, \A l \in Ops \ {k} : ops'[l] = ops[l]
  PROVE  Seen' = [Seen EXCEPT ![k] = Outcome(k)']
<1>1. \A l \in Ops \ {k} : Outcome(l)' = Outcome(l)
  BY DEF Outcome
<1> HIDE DEF Outcome
<1> QED
  BY <1>1 DEF Seen

(* A new handle stands for an operation that has just begun or for one that
   the server has. *)
LEMMA CreateRefines ==
  ASSUME IInv, NEW h \in Handles, NEW o \in OpServices \cup {"lro"},
         NEW v \in [Params -> Values \cup {Unset}], NEW what, kind[h] = "none",
         FreeOps # {}, ServerStarts(NewOp, o, v), Holds(h, NewOp, what)
  PROVE  \E k \in Ops : Awaited!Create(h, k)
<1>1. PICK k \in FreeOps : k = NewOp
  BY NewOpIsFree
<1>2. ServerStarts(k, o, v) /\ OpsInv
  BY <1>1 DEF IInv
<1>3. Started(k, o, v)
  BY <1>2, StartsOne
<1>4. k \in Ops /\ ops[k].serv = "none" /\ o # "none"
  BY <1>1, CustomOperationsAssumption DEF FreeOps, NoService
<1>5. \A l \in Ops \ {k} : ops'[l] = ops[l]
  BY <1>3 DEF Started
<1>6. Outcome(k) = "none" /\ Outcome(k)' \in {"pending", "ok", "failed"}
  BY <1>3, <1>4 DEF Started, Outcome
<1>7. Seen' = [Seen EXCEPT ![k] = Outcome(k)']
  BY <1>4, <1>5, SeenChanges
<1>8. target[h] = NoOp /\ target' = [target EXCEPT ![h] = k] /\ UNCHANGED <<calling, report>>
  BY <1>1 DEF Holds, IInv, HandleInv, HandleOK
<1>9. UNCHANGED InCallOf
  BY <1>8 DEF InCallOf
<1> HIDE DEF Outcome
<1>10. Seen[k] = "none" /\ \E r \in {"pending", "ok", "failed"} : Seen' = [Seen EXCEPT ![k] = r]
  BY <1>4, <1>6, <1>7 DEF Seen
<1> QED
  BY <1>4, <1>8, <1>9, <1>10 DEF Awaited!Create, Seen, InCallOf

LEMMA FromNameRefines ==
  ASSUME IInv, NEW h \in Handles, NEW t, NEW k \in Ops, FromName(h, t, k)
  PROVE  Awaited!Create(h, k)
<1>1. /\ kind[h] = "none" /\ ops[k].serv = "lro" /\ UNCHANGED ops
      /\ target' = [target EXCEPT ![h] = k] /\ UNCHANGED <<calling, report>>
  BY DEF FromName, Holds
<1>2. target[h] = NoOp
  BY <1>1 DEF IInv, HandleInv, HandleOK
<1>3. Seen[k] # "none"
  BY <1>1 DEF Seen, Outcome
<1>4. UNCHANGED Seen /\ UNCHANGED InCallOf
  BY <1>1, SeenUnchanged DEF InCallOf
<1> QED
  BY <1>1, <1>2, <1>3, <1>4 DEF Awaited!Create, Seen, InCallOf

LEMMA EndsRefines ==
  ASSUME IInv, NEW k \in Ops, ServerEnds(k)
  PROVE  Awaited!End(k)
<1>1. OpsInv /\ UNCHANGED <<target, calling, report>>
  BY DEF ServerEnds, IInv, handleVars
<1>2. PICK m \in Outcomes(ops[k].serv) :
        ops' = [ops EXCEPT ![k].msg.status = m.status, ![k].msg.code = m.code]
  BY DEF ServerEnds
<1>3. /\ m.status = "DONE" /\ ops[k].msg.status = "RUNNING" /\ ops[k].serv # "none"
      /\ ops \in [Ops -> OperationSet]
  BY <1>1 DEF ServerEnds, Outcomes, OpsInv, OpsTyped, NoMessage
<1>4. \A l \in Ops \ {k} : ops'[l] = ops[l]
  BY <1>2, <1>3
<1>5. ops'[k].serv = ops[k].serv /\ ops'[k].msg.status = "DONE"
  <2>1. ops[k] \in OperationSet
    BY <1>3
  <2>2. ops[k].msg \in [name : Ops, status : {"RUNNING", "DONE"}, code : Codes]
    BY <1>3, <2>1 DEF OperationSet, Messages, NoMessage
  <2> QED
    BY <1>2, <1>3, <2>1, <2>2 DEF OperationSet
<1>6. Outcome(k) = "pending" /\ Outcome(k)' \in {"ok", "failed"}
  BY <1>3, <1>5 DEF Outcome
<1>7. Seen' = [Seen EXCEPT ![k] = Outcome(k)']
  BY <1>4, SeenChanges
<1>8. UNCHANGED InCallOf
  BY <1>1 DEF InCallOf
<1> HIDE DEF Outcome
<1>9. Seen[k] = "pending" /\ \E r \in {"ok", "failed"} : Seen' = [Seen EXCEPT ![k] = r]
  BY <1>6, <1>7 DEF Seen
<1> QED
  BY <1>1, <1>8, <1>9 DEF Awaited!End, Seen, InCallOf

LEMMA CallRefines ==
  ASSUME IInv, NEW h \in Handles, NEW what \in {"Poll", "Wait"}, Call(h, what)
  PROVE  Awaited!Call(h, what)
<1>1. /\ kind[h] # "none" /\ calling[h] = "none"
      /\ report' = [report EXCEPT ![h] = "nothing"]
      /\ calling' = [calling EXCEPT ![h] = what]
      /\ UNCHANGED <<ops, target>>
  BY DEF Call, handleVars
<1>2. target[h] # NoOp /\ HandlesTyped
  BY <1>1, OperationAssumption DEF IInv, HandleInv, HandleOK, Created, NoOp, Ops
<1>3. InCallOf[h] = "none" /\ InCallOf' = [InCallOf EXCEPT ![h] = what]
  BY <1>1, <1>2 DEF InCallOf, HandlesTyped
<1>4. UNCHANGED Seen
  BY <1>1, SeenUnchanged
<1> QED
  BY <1>1, <1>2, <1>3, <1>4 DEF Awaited!Call, Seen, InCallOf

(* A call returns what may be reported then: the outcome of the operation
   if it says that there is one. *)
LEMMA ReturnRefines ==
  ASSUME IInv, NEW h \in Handles, calling[h] # "none", UNCHANGED <<ops, target>>,
         NEW result, Return(h, result),
         \/ result = "unavailable"
         \/ result = "pending" /\ calling[h] = "Poll"
         \/ result \in {"ok", "failed"} /\ result = Outcome(target[h])
  PROVE  Awaited!Return(h)
<1>1. /\ calling' = [calling EXCEPT ![h] = "none"] /\ report' = [report EXCEPT ![h] = result]
      /\ HandlesTyped /\ target[h] \in Ops
  BY InCall DEF Return
<1>2. InCallOf[h] # "none" /\ InCallOf' = [InCallOf EXCEPT ![h] = "none"]
  BY <1>1 DEF InCallOf, HandlesTyped
<1>3. Seen[target[h]] = Outcome(target[h]) /\ (calling[h] = "Poll" => InCallOf[h] = "Poll")
  BY <1>1 DEF Seen, InCallOf
<1>4. UNCHANGED Seen
  BY SeenUnchanged
<1> HIDE DEF Outcome
<1>5. result \in Awaited!MayReport(h)
  BY <1>3 DEF Awaited!MayReport, Seen, InCallOf
<1> QED
  BY <1>1, <1>2, <1>4, <1>5 DEF Awaited!Return, Seen, InCallOf

(* The message of an operation that is done says how it ended. *)
LEMMA TellsOutcome ==
  ASSUME IInv, NEW k \in Ops, ops[k].serv # "none", NEW msg \in Messages \ {NoMessage},
         Truthful(msg, k), msg.status = "DONE"
  PROVE  Outcome(k) = IF Failure(msg) THEN "failed" ELSE "ok"
<1>1. msg = ops[k].msg
  BY DEF Truthful
<1>2. msg.code \in {0, 200, 409}
  BY DEF Messages, Codes
<1>3. Failure(msg) <=> msg.code = 409
  BY <1>2 DEF Failure
<1> QED
  BY <1>1, <1>2, <1>3 DEF Outcome

LEMMA HandleStepRefines ==
  ASSUME IInv, NEW h \in Handles, HandleStep(h)
  PROVE  \/ Awaited!Return(h)
         \/ UNCHANGED <<Seen, target, InCallOf, report>>
<1>1. CASE Poll(h)
  <2>1. UNCHANGED <<ops, target, calling, report>>
    BY <1>1 DEF Poll, handleVars
  <2> QED
    BY <2>1, SeenUnchanged DEF InCallOf
<1>2. CASE StoredOutcome(h)
  <2>1. /\ calling[h] \in {"Poll", "Wait"} /\ Done(h)
        /\ Return(h, IF Failure(proto[h]) THEN "failed" ELSE "ok")
        /\ UNCHANGED <<ops, target>>
    BY <1>2 DEF StoredOutcome, Polls, handleVars
  <2>2. /\ target[h] \in Ops /\ ops[target[h]].serv # "none"
        /\ proto[h] \in Messages \ {NoMessage} /\ Truthful(proto[h], target[h])
    BY <2>1, InCall DEF Created
  <2>3. Outcome(target[h]) = IF Failure(proto[h]) THEN "failed" ELSE "ok"
    BY <2>1, <2>2, TellsOutcome DEF Done
  <2>4. Outcome(target[h]) \in {"ok", "failed"} /\ Return(h, Outcome(target[h]))
    BY <2>1, <2>3
  <2> QED
    BY <2>1, <2>4, ReturnRefines
<1>3. CASE Answered(h)
  <2> DEFINE resp == rpc[h].resp
  <2>1. /\ rpc[h].state = "answered" /\ resp # NoMessage /\ UNCHANGED <<ops, target>>
    BY <1>3 DEF Answered, handleVars
  <2>2. /\ target[h] \in Ops /\ ops[target[h]].serv # "none" /\ Calling(h)
        /\ rpc[h] \in RPCSet /\ HandlesTyped
    BY <2>1, InCall DEF Created
  <2>3. /\ resp \in Messages \ {NoMessage} /\ calling[h] \in {"Poll", "Wait"}
        /\ Truthful(resp, target[h])
    BY <2>1, <2>2 DEF Calling, RPCSet
  <2>4. PICK next : next = After(h, resp)
    OBVIOUS
  <2>5. /\ next \in {"failed", "ok", "pause", "pending"}
        /\ next \in {"failed", "ok"} <=> resp.status = "DONE"
        /\ next = "pause" => calling[h] = "Wait"
        /\ next = "pending" => calling[h] # "Wait"
    BY <2>3, <2>4, AfterEnds DEF Truthful
  <2>6. CASE next = "pause"
    <3>1. calling' = [calling EXCEPT ![h] = "paused"] /\ UNCHANGED report
      BY <1>3, <2>4, <2>6 DEF Answered
    <3>2. UNCHANGED InCallOf
      BY <2>2, <2>5, <2>6, <3>1 DEF InCallOf, HandlesTyped
    <3> QED
      BY <2>1, <3>1, <3>2, SeenUnchanged
  <2>7. CASE next # "pause"
    <3>1. Return(h, next)
      BY <1>3, <2>4, <2>7 DEF Answered
    <3>2. next = "pending" => calling[h] = "Poll"
      BY <2>3, <2>5
    <3>3. next \in {"ok", "failed"} => next = Outcome(target[h])
      <4> SUFFICES ASSUME next \in {"ok", "failed"} PROVE next = Outcome(target[h])
        OBVIOUS
      <4>1. resp.status = "DONE"
        BY <2>5
      <4>2. Outcome(target[h]) = IF Failure(resp) THEN "failed" ELSE "ok"
        BY <2>2, <2>3, <4>1, TellsOutcome
      <4> QED
        BY <2>4, <4>1, <4>2 DEF After
    <3> QED
      BY <2>1, <2>3, <2>5, <2>7, <3>1, <3>2, <3>3, ReturnRefines
  <2> QED
    BY <2>6, <2>7
<1>4. CASE PollFails(h) \/ PauseInterrupted(h)
  <2>1. /\ rpc[h].state # "none" \/ calling[h] # "none"
        /\ Return(h, "unavailable") /\ UNCHANGED <<ops, target>>
    BY <1>4 DEF PollFails, PauseInterrupted, GiveUp, handleVars
  <2>2. calling[h] # "none"
    BY <2>1, InCall DEF Calling
  <2> QED
    BY <2>1, <2>2, ReturnRefines
<1>5. CASE PauseEnds(h)
  <2>1. /\ calling[h] = "paused" /\ calling' = [calling EXCEPT ![h] = "Wait"]
        /\ UNCHANGED <<ops, target, report>>
    BY <1>5 DEF PauseEnds, handleVars
  <2>2. UNCHANGED InCallOf
    BY <2>1 DEF InCallOf, IInv, HandlesTyped
  <2> QED
    BY <2>1, <2>2, SeenUnchanged
<1> QED
  BY <1>1, <1>2, <1>3, <1>4, <1>5 DEF HandleStep

(* ReportsOutcome: OperationPoll implements AwaitedOperation.  Creating a
   handle, calling it and the end of an operation are steps of the promise;
   what ends a call is its Return; polling and pausing are invisible. *)
THEOREM ImplementsAwaited == Spec => ReportsOutcome
<1>1. Init => Awaited!Init
  <2> SUFFICES ASSUME Init PROVE Awaited!Init
    OBVIOUS
  <2>1. Seen = [k \in Ops |-> "none"] /\ InCallOf = [h \in Handles |-> "none"]
    BY DEF Init, Seen, InCallOf, Outcome, NoOperation
  <2> QED
    BY <2>1 DEF Init, Awaited!Init, Seen, InCallOf
<1>2. IInv /\ [Next]_vars => [Awaited!Next]_<<Seen, target, InCallOf, report>>
  <2> SUFFICES ASSUME IInv, [Next]_vars
               PROVE  Awaited!Next \/ UNCHANGED <<Seen, target, InCallOf, report>>
    OBVIOUS
  <2>1. CASE UNCHANGED vars
    BY <2>1, SeenUnchanged DEF vars, InCallOf
  <2>2. ASSUME NEW h \in Handles, HandleStep(h)
        PROVE  Awaited!Next \/ UNCHANGED <<Seen, target, InCallOf, report>>
    BY <2>2, HandleStepRefines DEF Awaited!Next
  <2>3. ASSUME NEW h \in Handles, ServerAnswers(h)
        PROVE  UNCHANGED <<Seen, target, InCallOf, report>>
    BY <2>3, SeenUnchanged DEF ServerAnswers, handleVars, InCallOf
  <2>4. ASSUME NEW h \in Handles, NEW what \in {"Poll", "Wait"}, Call(h, what)
        PROVE  Awaited!Next
    BY <2>4, CallRefines DEF Awaited!Next
  <2>5. ASSUME NEW h \in Handles, NEW m \in Methods, NEW req \in Places, CreateCustom(h, m, req)
        PROVE  Awaited!Next
    <3>1. /\ kind[h] = "none" /\ FreeOps # {} /\ ServerStarts(NewOp, api.serv[m], req)
          /\ Holds(h, NewOp, "custom") /\ api.serv[m] # NoService
      BY <2>5 DEF CreateCustom
    <3>2. api.serv[m] \in OpServices /\ req \in [Params -> Values \cup {Unset}]
      BY <3>1, OperationAssumption DEF IInv, OpsInv, OpsTyped, Annotations
    <3>3. \E k \in Ops : Awaited!Create(h, k)
      BY <3>1, <3>2, CreateRefines
    <3> QED
      BY <3>3 DEF Awaited!Next
  <2>6. ASSUME NEW h \in Handles, NEW t, CreateLRO(h, t)
        PROVE  Awaited!Next
    <3>1. /\ kind[h] = "none" /\ FreeOps # {} /\ ServerStarts(NewOp, "lro", NoParams)
          /\ Holds(h, NewOp, t) /\ NoParams \in [Params -> Values \cup {Unset}]
      BY <2>6 DEF CreateLRO, NoParams
    <3>2. \E k \in Ops : Awaited!Create(h, k)
      BY <3>1, CreateRefines
    <3> QED
      BY <3>2 DEF Awaited!Next
  <2>7. ASSUME NEW h \in Handles, NEW t, NEW k \in Ops, FromName(h, t, k)
        PROVE  Awaited!Next
    BY <2>7, FromNameRefines DEF Awaited!Next
  <2>8. ASSUME NEW k \in Ops, ServerEnds(k)
        PROVE  Awaited!Next
    BY <2>8, EndsRefines DEF Awaited!Next
  <2> QED
    BY <2>1, <2>2, <2>3, <2>4, <2>5, <2>6, <2>7, <2>8 DEF Next, lroCall, lroRESTCall
<1> QED
  BY <1>1, <1>2, InvariantHolds, PTL
     DEF Spec, ReportsOutcome, Awaited!Spec, Seen, InCallOf
=================================================================================
