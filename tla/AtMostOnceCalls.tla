---------------------------- MODULE AtMostOnceCalls ----------------------------
(***************************************************************************)
(* What a unary method of a generated client promises when its request     *)
(* carries an auto-populated id that the server deduplicates by: a call is *)
(* performed at most once, however often it is attempted; it succeeds only *)
(* if it was performed; a call that fails may have been, or may still be.  *)
(***************************************************************************)
EXTENDS Naturals

CONSTANT Calls

VARIABLES outcome,    (* outcome[k]: "new", "issued", "ok" or "failed"      *)
          performed   (* performed[k]: how often the server performed it    *)

Init == /\ outcome = [k \in Calls |-> "new"]
        /\ performed = [k \in Calls |-> 0]

Issue(k) == /\ outcome[k] = "new"
            /\ outcome' = [outcome EXCEPT ![k] = "issued"]
            /\ UNCHANGED performed

Perform(k) == /\ outcome[k] # "new"
              /\ performed[k] = 0
              /\ performed' = [performed EXCEPT ![k] = 1]
              /\ UNCHANGED outcome

Succeed(k) == /\ outcome[k] = "issued"
              /\ performed[k] = 1
              /\ outcome' = [outcome EXCEPT ![k] = "ok"]
              /\ UNCHANGED performed

Fail(k) == /\ outcome[k] = "issued"
           /\ outcome' = [outcome EXCEPT ![k] = "failed"]
           /\ UNCHANGED performed

Next == \E k \in Calls : Issue(k) \/ Perform(k) \/ Succeed(k) \/ Fail(k)

Spec == Init /\ [][Next]_<<outcome, performed>>
================================================================================
