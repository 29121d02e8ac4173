------------------------------ MODULE MessageStream ------------------------------
(***************************************************************************)
(* What a server stream promises its receiver: the items the server sent   *)
(* arrive in order and none twice; an item that cannot be read is reported *)
(* in its place; the end is reported only after the last item; a receiver  *)
(* may be told of a failure at any time, and nothing arrives after the end *)
(* or a failure.                                                           *)
(***************************************************************************)
EXTENDS Naturals, Sequences

CONSTANT Items   (* "ok" or "bad" for each item *)

VARIABLES sent,     (* the items the server has sent                        *)
          closed,   (* has the server ended the stream?                     *)
          pos,      (* items reported to the receiver                       *)
          over      (* "no", "end" or "failure"                             *)

Init == sent = <<>> /\ closed = FALSE /\ pos = 0 /\ over = "no"

Send == /\ ~closed
        /\ \E item \in Items : sent' = Append(sent, item)
        /\ UNCHANGED <<closed, pos, over>>

Close == ~closed /\ closed' = TRUE /\ UNCHANGED <<sent, pos, over>>

Report == /\ over = "no"
          /\ pos < Len(sent)
          /\ pos' = pos + 1
          /\ UNCHANGED <<sent, closed, over>>

End == /\ over = "no"
       /\ closed /\ pos = Len(sent)
       /\ over' = "end"
       /\ UNCHANGED <<sent, closed, pos>>

(* A failure, perhaps because of an item that cannot be read. *)
Fail == /\ over = "no"
        /\ over' = "failure"
        /\ \/ UNCHANGED pos
           \/ pos < Len(sent) /\ sent[pos + 1] = "bad" /\ pos' = pos + 1
        /\ UNCHANGED <<sent, closed>>

Next == Send \/ Close \/ Report \/ End \/ Fail

Spec == Init /\ [][Next]_<<sent, closed, pos, over>>
==================================================================================
