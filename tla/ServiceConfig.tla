---------------------------- MODULE ServiceConfig ----------------------------
(***************************************************************************)
(* The parsed gRPC service config (grpc_service_config/config.go) and the  *)
(* default call options that the two emitters derive from it               *)
(* (grpcCallOptions of gengapic/gengrpc.go, restCallOptions of             *)
(* gengapic/genrest.go).                                                   *)
(*                                                                         *)
(* A config is four maps from names to values.  A name is the sequence of  *)
(* identifiers between its dots: that of a method is the name of its       *)
(* service and one identifier more.  An optional value is a set of at most *)
(* one element.  A MethodConfig is a record of optional values; its retry  *)
(* policy, when present, is the set of status codes to retry.              *)
(***************************************************************************)
EXTENDS Naturals, Sequences

(* Assignment to a map. *)
Present(f, n) == n \in DOMAIN f
Put(f, n, v) == [x \in DOMAIN f \cup {n} |-> IF x = n THEN v ELSE f[x]]
PutIfSet(f, n, v) == IF v = {} THEN f ELSE Put(f, n, v)
EmptyMap == [n \in {} |-> {}]

(* A generatorConfig starts with the zero Config, which has no maps at all;
   New starts with four empty ones. *)
NoConfig == [policies |-> EmptyMap, timeouts |-> EmptyMap,
             reqLimits |-> EmptyMap, resLimits |-> EmptyMap]

(* One turn of the inner loop of New: name n of MethodConfig mc.  The policy
   is stored even when it is nil, the other values only when they are set. *)
BadRecord(config, n, mc) ==
  [policies  |-> PutIfSet(config.policies, n, mc.retryPolicy),
   timeouts  |-> PutIfSet(config.timeouts, n, mc.timeout),
   reqLimits |-> PutIfSet(config.reqLimits, n, mc.maxReq),
   resLimits |-> PutIfSet(config.resLimits, n, mc.maxRes)]
Record(config, n, mc) ==
  [policies  |-> Put(config.policies, n, mc.retryPolicy),
   timeouts  |-> PutIfSet(config.timeouts, n, mc.timeout),
   reqLimits |-> PutIfSet(config.reqLimits, n, mc.maxReq),
   resLimits |-> PutIfSet(config.resLimits, n, mc.maxRes)]

(* Operators named Bad... are not the code: each is the definition after it with
   a plausible defect, kept to show that a property notices it. *)

-----------------------------------------------------------------------------
(* The accessors: the entry of the method, else that of its service. *)
Lookup(f, serv, name) ==
  IF Present(f, Append(serv, name)) THEN f[Append(serv, name)]
  ELSE IF Present(f, serv) THEN f[serv] ELSE {}

RetryPolicy(config, serv, name)   == Lookup(config.policies, serv, name)
Timeout(config, serv, name)       == Lookup(config.timeouts, serv, name)
RequestLimit(config, serv, name)  == Lookup(config.reqLimits, serv, name)
ResponseLimit(config, serv, name) == Lookup(config.resLimits, serv, name)

-----------------------------------------------------------------------------
(* The default call options of RPC m = [serv, name, streaming].  Only gRPC has
   message limits and leaves streams without a timeout; only REST leaves out a
   policy without codes. *)
GRPCCallOptions(config, m) ==
  [maxReq  |-> RequestLimit(config, m.serv, m.name),
   maxRes  |-> ResponseLimit(config, m.serv, m.name),
   timeout |-> IF m.streaming THEN {} ELSE Timeout(config, m.serv, m.name),
   retry   |-> RetryPolicy(config, m.serv, m.name)]

RESTCallOptions(config, m) ==
  [timeout |-> Timeout(config, m.serv, m.name),
   retry   |-> RetryPolicy(config, m.serv, m.name) \ {{}}]
=============================================================================
