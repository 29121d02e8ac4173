------------------------------ MODULE OperationPoll ------------------------------
(***************************************************************************)
(* The operations that generated clients return: custom operations         *)
(* (customOperationType of gengapic/custom_operation.go) and the wrappers  *)
(* of long-running ones (genOperationWrapperType of gengapic/auxiliary.go, *)
(* constructors in gengapic/lro.go and lroRESTCall).  Every handle is used *)
(* by one goroutine, which polls it or waits for it while the server       *)
(* finishes the operation in its own time; two handles may stand for one   *)
(* operation.  A polling call may fail at any moment, the end of its       *)
(* context included; pauses have no length.                                *)
(*                                                                         *)
(* The longrunning library, which the wrappers call, is modelled from its  *)
(* use: it polls until the message it holds is done, and not after that.   *)
(*                                                                         *)
(* Operators named Bad... are not the code: each is the definition after   *)
(* it with a plausible defect, kept to show that a property notices it.    *)
(***************************************************************************)
EXTENDS CustomOperations, FiniteSets

CONSTANTS
  Handles,      (* handles, each owned by one goroutine                     *)
  Values,       (* values of the parameters of an operation                 *)
  Places,       (* the parameters that creating requests may have           *)
  Apis,         (* annotations tried for custom operations                  *)
  MaxOps        (* bound: operations                                        *)

Unset == "unset"        (* the zero value of a string *)
NoOp == 0
Ops == 1..MaxOps
Kinds == {"none", "custom", "grpc", "rest"}

ASSUME OperationAssumption ==
  /\ Apis \subseteq { api \in Annotations : Compiles(api) }
  /\ Unset \notin Values
  /\ Places \subseteq [Params -> Values]
  /\ MaxOps \in Nat

VARIABLES
  api,       (* the annotations the package was generated from              *)
  ops,       (* ops[k]: operation k as the server has it                    *)
  kind,      (* kind[h]: what h is, "none" before it is created             *)
  target,    (* target[h]: the operation h was created for                  *)
  proto,     (* proto[h]: the last message h has seen                       *)
  pollPath,  (* pollPath[h]: of a REST wrapper                              *)
  params,    (* params[h]: polling parameters of a custom operation         *)
  calling,   (* calling[h]: the method in progress, "none" if there is none *)
  rpc,       (* rpc[h]: the polling call in progress                        *)
  report     (* report[h]: what the last call returned                      *)

vars == <<api, ops, kind, target, proto, pollPath, params, calling, rpc, report>>
handleVars == <<kind, target, pollPath, params>>

Codes == {0, 200, 409}   (* no error code, a good and a bad one *)
NoMessage == [name |-> 0, status |-> "absent", code |-> 0]
Messages == [name : Ops, status : {"RUNNING", "DONE"}, code : Codes] \cup {NoMessage}
NoParams == [p \in Params |-> Unset]
Paths == {"", "library", "api"}
Requests == [serv : OpServices \cup {"lro"}, name : 0..MaxOps,
             params : [Params -> Values \cup {Unset}], path : Paths]
NoRequest == [serv |-> "lro", name |-> 0, params |-> NoParams, path |-> ""]
NoRPC == [state |-> "none", req |-> NoRequest, resp |-> NoMessage]
NoOperation == [serv |-> "none", params |-> NoParams, msg |-> NoMessage]

Init ==
  /\ api \in Apis
  /\ ops = [k \in Ops |-> NoOperation]
  /\ kind = [h \in Handles |-> "none"]
  /\ target = [h \in Handles |-> NoOp]
  /\ proto = [h \in Handles |-> NoMessage]
  /\ pollPath = [h \in Handles |-> ""]
  /\ params = [h \in Handles |-> NoParams]
  /\ calling = [h \in Handles |-> "none"]
  /\ rpc = [h \in Handles |-> NoRPC]
  /\ report = [h \in Handles |-> "nothing"]

-------------------------------------------------------------------------------
(* The server.  The name of an operation is unique only together with its
   service and the required parameters; other operations may bear it. *)
SamePlace(o, v, w) == \A p \in api.required[o] : v[p] = w[p]
Neighbours(o, v) ==
  { k \in Ops : /\ ops[k].serv = o
                /\ IF o = "lro" THEN TRUE ELSE SamePlace(o, ops[k].params, v) }
FreeOps == { k \in Ops : ops[k].serv = "none" }
NewOp == CHOOSE k \in FreeOps : \A l \in FreeOps : k <= l
NewName(o, v) == Cardinality(Neighbours(o, v)) + 1
Outcomes(o) == { [status |-> "DONE", code |-> c] : c \in IF o = "lro" THEN {0, 409} ELSE Codes }

(* The operation a polling request asks for, NoOp if the server has none. *)
Asked(r) ==
  LET found == { k \in Neighbours(r.serv, r.params) : ops[k].msg.name = r.name }
  IN  IF found = {} \/ r.path = "library" THEN NoOp ELSE CHOOSE k \in found : TRUE

ServerStarts(k, o, v) ==
  \E m \in {[status |-> "RUNNING", code |-> 0]} \cup Outcomes(o) :
    ops' = [ops EXCEPT ![k] = [serv |-> o, params |-> v,
      msg |-> [name |-> NewName(o, v), status |-> m.status, code |-> m.code]]]

ServerEnds(k) ==
  /\ ops[k].msg.status = "RUNNING"
  /\ \E m \in Outcomes(ops[k].serv) :
       ops' = [ops EXCEPT ![k].msg.status = m.status, ![k].msg.code = m.code]
  /\ UNCHANGED <<api, handleVars, proto, calling, rpc, report>>

ServerAnswers(h) ==
  /\ rpc[h].state = "asked"
  /\ rpc' = [rpc EXCEPT ![h].state = "answered",
       ![h].resp = IF Asked(rpc[h].req) = NoOp THEN NoMessage ELSE ops[Asked(rpc[h].req)].msg]
  /\ UNCHANGED <<api, ops, handleVars, proto, calling, report>>

-------------------------------------------------------------------------------
(* Creating a handle. *)
Holds(h, k, what) ==
  /\ kind' = [kind EXCEPT ![h] = what]
  /\ target' = [target EXCEPT ![h] = k]
  /\ UNCHANGED <<api, calling, rpc, report>>

(* A REST method that returns a custom operation. *)
CreateCustom(h, m, req) ==
  /\ kind[h] = "none" /\ FreeOps # {}
  /\ api.serv[m] # NoService
  /\ ServerStarts(NewOp, api.serv[m], req)
  /\ Holds(h, NewOp, "custom")
  /\ proto' = [proto EXCEPT ![h] = ops'[NewOp].msg]
  /\ params' = [params EXCEPT ![h] = customOpInit(api, m, req, Unset)]
  /\ UNCHANGED pollPath

(* getOperationPathOverride with the name filled in: only a REST wrapper has
   it; without it the library polls under a path of its own. *)
BadOverride(t) == ""   (* never set *)
Override(t) == IF t = "rest" THEN "api" ELSE ""

(* A method that returns a wrapper, with the message of the server in it. *)
CreateLRO(h, t) ==
  /\ kind[h] = "none" /\ FreeOps # {}
  /\ t \in api.lro
  /\ ServerStarts(NewOp, "lro", NoParams)
  /\ Holds(h, NewOp, t)
  /\ proto' = [proto EXCEPT ![h] = ops'[NewOp].msg]
  /\ pollPath' = [pollPath EXCEPT ![h] = Override(t)]
  /\ UNCHANGED params
lroCall(h) == CreateLRO(h, "grpc")
lroRESTCall(h) == CreateLRO(h, "rest")

(* The builder of genOperationBuilder: only the name is known. *)
FromName(h, t, k) ==
  /\ kind[h] = "none"
  /\ ops[k].serv = "lro"
  /\ Holds(h, k, t)
  /\ proto' = [proto EXCEPT ![h] =
       [name |-> ops[k].msg.name, status |-> "RUNNING", code |-> 0]]
  /\ pollPath' = [pollPath EXCEPT ![h] = Override(t)]
  /\ UNCHANGED <<ops, params>>

-------------------------------------------------------------------------------
(* Done: the status of the message the handle holds. *)
Done(h) == proto[h].status = "DONE"

(* The error code is optional and numeric: absent and 2xx are no error. *)
BadFailure(msg) == msg.code \notin 200..299   (* an absent code reads as zero *)
Failure(msg) == msg.code # 0 /\ msg.code \notin 200..299

(* The request of a poll.  A wrapper prepends gax.WithPath(op.pollPath) to the
   options; an empty path leaves the library's own. *)
PollRequest(h) ==
  IF kind[h] = "custom"
  THEN [serv |-> ops[target[h]].serv, name |-> proto[h].name, params |-> params[h], path |-> ""]
  ELSE [serv |-> "lro", name |-> proto[h].name, params |-> NoParams,
        path |-> IF kind[h] = "grpc" THEN ""
                 ELSE IF pollPath[h] = "" THEN "library" ELSE pollPath[h]]

(* The library does not poll for an operation that it knows to be done. *)
Polls(h) == kind[h] = "custom" \/ ~Done(h)

Return(h, result) ==
  /\ calling' = [calling EXCEPT ![h] = "none"]
  /\ report' = [report EXCEPT ![h] = result]
  /\ rpc' = [rpc EXCEPT ![h] = NoRPC]

Call(h, what) ==
  /\ kind[h] # "none" /\ calling[h] = "none"
  /\ report' = [report EXCEPT ![h] = "nothing"]
  /\ calling' = [calling EXCEPT ![h] = what]
  /\ UNCHANGED <<api, ops, handleVars, proto, rpc>>

(* Poll up to its call, which Wait makes in every turn. *)
Poll(h) ==
  /\ calling[h] \in {"Poll", "Wait"} /\ rpc[h].state = "none"
  /\ Polls(h)
  /\ rpc' = [rpc EXCEPT ![h] = [NoRPC EXCEPT !.state = "asked", !.req = PollRequest(h)]]
  /\ UNCHANGED <<api, ops, handleVars, proto, calling, report>>

(* The library returns the outcome it has stored. *)
StoredOutcome(h) ==
  /\ calling[h] \in {"Poll", "Wait"} /\ rpc[h].state = "none"
  /\ ~Polls(h)
  /\ Return(h, IF Failure(proto[h]) THEN "failed" ELSE "ok")
  /\ UNCHANGED <<api, ops, handleVars, proto>>

(* What the handle keeps of an answer: nothing if the call failed. *)
BadStored(h, resp) == resp   (* stored before the error is looked at *)
Stored(h, resp) == IF resp = NoMessage THEN proto[h] ELSE resp

(* Wait pauses (calling "paused") while Poll finds the operation pending. *)
BadAfter(h, msg) ==   (* asks whether it is done before asking how it ended *)
  IF msg.status = "DONE" THEN "ok" ELSE IF calling[h] = "Wait" THEN "pause" ELSE "pending"
After(h, msg) ==
  IF Failure(msg) THEN "failed"
  ELSE IF msg.status = "DONE" THEN "ok"
  ELSE IF calling[h] = "Wait" THEN "pause" ELSE "pending"

Answered(h) ==
  /\ rpc[h].state = "answered"
  /\ rpc[h].resp # NoMessage
  /\ proto' = [proto EXCEPT ![h] = Stored(h, rpc[h].resp)]
  /\ LET next == After(h, rpc[h].resp)
     IN  IF next = "pause"
         THEN /\ calling' = [calling EXCEPT ![h] = "paused"]
              /\ rpc' = [rpc EXCEPT ![h] = NoRPC]
              /\ UNCHANGED report
         ELSE Return(h, next)
  /\ UNCHANGED <<api, ops, handleVars>>

(* The polling call fails: the server knows no such operation, no answer
   arrives, or the context has ended. *)
BadGiveUp(h) ==   (* Wait tries again *)
  IF calling[h] = "Wait"
  THEN calling' = [calling EXCEPT ![h] = "paused"] /\ rpc' = [rpc EXCEPT ![h] = NoRPC]
       /\ UNCHANGED report
  ELSE Return(h, "unavailable")
GiveUp(h) == Return(h, "unavailable")
PollFails(h) ==
  /\ rpc[h].state \in {"asked", "answered"}
  /\ proto' = [proto EXCEPT ![h] = Stored(h, NoMessage)]
  /\ GiveUp(h)
  /\ UNCHANGED <<api, ops, handleVars>>

(* gax.Sleep returns after the pause, or with the error of the context. *)
PauseEnds(h) ==
  /\ calling[h] = "paused"
  /\ calling' = [calling EXCEPT ![h] = "Wait"]
  /\ UNCHANGED <<api, ops, handleVars, proto, rpc, report>>

PauseInterrupted(h) ==
  /\ calling[h] = "paused"
  /\ Return(h, "unavailable")
  /\ UNCHANGED <<api, ops, handleVars, proto>>

HandleStep(h) == \/ Poll(h) \/ StoredOutcome(h) \/ Answered(h) \/ PollFails(h)
                 \/ PauseEnds(h) \/ PauseInterrupted(h)

Next ==
  \/ \E h \in Handles :
       \/ HandleStep(h) \/ ServerAnswers(h)
       \/ \E what \in {"Poll", "Wait"} : Call(h, what)
       \/ \E m \in Methods, req \in Places : CreateCustom(h, m, req)
       \/ lroCall(h) \/ lroRESTCall(h)
       \/ \E t \in api.lro, k \in Ops : FromName(h, t, k)
  \/ \E k \in Ops : ServerEnds(k)

(* Fair are the goroutine inside a call and the server: every polling call is
   answered or fails, every pause ends, and every operation ends.  Nobody has
   to call, and polling calls need not succeed. *)
Fairness == /\ \A h \in Handles : WF_vars(HandleStep(h)) /\ WF_vars(ServerAnswers(h))
            /\ \A k \in Ops : WF_vars(ServerEnds(k))

Spec == Init /\ [][Next]_vars /\ Fairness

-------------------------------------------------------------------------------
(* Types of the state; a handle always has a message, so that Name and Proto
   have something to read. *)
TypeOK ==
  /\ api \in Apis
  /\ \A k \in Ops : /\ ops[k].serv \in OpServices \cup {"lro", "none"}
                    /\ ops[k].msg \in Messages
  /\ kind \in [Handles -> Kinds]
  /\ target \in [Handles -> 0..MaxOps]
  /\ proto \in [Handles -> Messages]
  /\ \A h \in Handles : kind[h] # "none" => proto[h] # NoMessage
  /\ pollPath \in [Handles -> Paths]
  /\ params \in [Handles -> [Params -> Values \cup {Unset}]]
  /\ calling \in [Handles -> {"none", "Poll", "Wait", "paused"}]
  /\ \A h \in Handles : /\ rpc[h].state \in {"none", "asked", "answered"}
                        /\ rpc[h].req \in Requests
                        /\ rpc[h].resp \in Messages
  /\ report \in [Handles -> {"nothing", "pending", "ok", "failed", "unavailable"}]

(* Every poll asks the server for the operation the handle was created for,
   although names repeat in other places and polling parameters are taken from
   one method for all, provided the API is annotated completely; a wrapper is
   found under the path of the API whether it was returned or built by name
   (customOpInit, loadCustomOpServices, getOperationPathOverride). *)
AsksForItsOperation ==
  \A h \in Handles :
    rpc[h].state # "none" /\ (kind[h] = "custom" => WellAnnotated(api))
      => Asked(rpc[h].req) = target[h]

(* What Done once reported stays so and Name stays the name, also when later
   polls fail; and a call that reports how the operation ended leaves Done
   true, as the comment of the emitted Poll says. *)
DoneIsFinal ==
  [][\A h \in Handles :
       /\ kind[h] # "none" => proto'[h].name = proto[h].name /\ (Done(h) => Done(h)')
       /\ report'[h] \in {"ok", "failed"} => Done(h)']_vars

(* Wait blocks until the operation is complete, and no longer: a goroutine in
   Wait returns once the operation has ended or a polling call fails. *)
EveryWaitEnds == \A h \in Handles : calling[h] = "Wait" ~> calling[h] = "none"

(* A handle reports the outcome of the operation it was created for. *)
Outcome(k) ==
  IF ops[k].serv = "none" THEN "none"
  ELSE IF ops[k].msg.status = "RUNNING" THEN "pending"
  ELSE IF ops[k].msg.code \in {0, 200} THEN "ok" ELSE "failed"
Awaited == INSTANCE AwaitedOperation WITH
  outcome <- [k \in Ops |-> Outcome(k)],
  of <- target,
  calling <- [h \in Handles |-> IF calling[h] = "paused" THEN "Wait" ELSE calling[h]],
  report <- report
ReportsOutcome == Awaited!Spec
==================================================================================
