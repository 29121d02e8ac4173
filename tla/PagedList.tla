------------------------------ MODULE PagedList ------------------------------
(***************************************************************************)
(* What a paging iterator of a generated client promises its owner,        *)
(* without pages, buffers or tokens: a list of NItems items is read from   *)
(* some position on, each item exactly once and in order, and the reading  *)
(* ends either when the list is exhausted (iterator.Done) or with an       *)
(* error.  Once it has ended nothing more is delivered.                    *)
(***************************************************************************)
EXTENDS Integers, Sequences

CONSTANTS Iters,   (* the iterators                                        *)
          NItems   (* the list holds items 1 .. NItems                     *)

VARIABLES pos,     (* pos[it]: items before the next one; -1 before the first fetch *)
          given,   (* given[it]: the items delivered so far, in order       *)
          outcome  (* outcome[it]: "none" while reading, then how it ended  *)

vars == <<pos, given, outcome>>

Init == /\ pos = [it \in Iters |-> -1]
        /\ given = [it \in Iters |-> <<>>]
        /\ outcome = [it \in Iters |-> "none"]

(* The server is told where the reading starts. *)
Start(it) == /\ outcome[it] = "none"
             /\ pos[it] = -1
             /\ \E p \in 0 .. NItems : pos' = [pos EXCEPT ![it] = p]
             /\ UNCHANGED <<given, outcome>>

Deliver(it) == /\ outcome[it] = "none"
               /\ pos[it] \in 0 .. NItems - 1
               /\ given' = [given EXCEPT ![it] = Append(@, pos[it] + 1)]
               /\ pos' = [pos EXCEPT ![it] = @ + 1]
               /\ UNCHANGED outcome

Finish(it) == /\ outcome[it] = "none"
              /\ pos[it] = NItems
              /\ outcome' = [outcome EXCEPT ![it] = "Done"]
              /\ UNCHANGED <<pos, given>>

Fail(it) == /\ outcome[it] = "none"
            /\ outcome' = [outcome EXCEPT ![it] = "Failed"]
            /\ UNCHANGED <<pos, given>>

Next == \E it \in Iters : Start(it) \/ Deliver(it) \/ Finish(it) \/ Fail(it)

Spec == Init /\ [][Next]_vars
==============================================================================
