----------------------------- MODULE MCOperationPoll -----------------------------
(***************************************************************************)
(* An instance of OperationPoll for TLC: two services, the first with two  *)
(* methods that create operations, all managed by one operation service.   *)
(* The APIs tried are the complete annotation and those that miss          *)
(* something: the request field of one method, of the first method, or an  *)
(* annotation of a field that polling does not require; and an API with    *)
(* long-running operations instead, on both transports.                    *)
(***************************************************************************)
EXTENDS OperationPoll, TLC

CONSTANTS m1, m2, h1, h2, a, b, zone, parent, o1

TwoServices == << <<m1>>, <<m2>> >>

ThePlaces == { (zone :> v) @@ (parent :> a) : v \in Values }

Api(first, second, needed) ==
  [serv |-> [m \in Methods |-> o1],
   mapped |-> (m1 :> first) @@ (m2 :> second),
   required |-> [o \in OpServices |-> needed],
   lro |-> {}]

TheApis ==
  { Api({zone, parent}, {zone}, {zone}),            (* complete, one not required *)
    Api({zone, parent}, {zone, parent}, {zone, parent}),
    Api({}, {zone}, {zone}),                        (* the first lacks it *)
    Api({zone}, {}, {zone}),                        (* the second lacks it *)
    [serv |-> [m \in Methods |-> NoService], mapped |-> [m \in Methods |-> {}],
     required |-> [o \in OpServices |-> {}], lro |-> {"grpc", "rest"}] }
==================================================================================
