---------------------------- MODULE AwaitedOperation ----------------------------
(***************************************************************************)
(* What an operation handle promises the goroutine that holds it.  An      *)
(* operation is pending until it ends once, well or badly.  A call that    *)
(* reports an end reports the one the operation had; Wait reports nothing  *)
(* else, unless it gives up; Poll may report that it is pending.           *)
(***************************************************************************)
CONSTANTS Handles, Ops, NoOp

VARIABLES outcome,   (* outcome[k]: "none", "pending", "ok" or "failed"      *)
          of,        (* of[h]: the operation h stands for                    *)
          calling,   (* calling[h]: "none", "Poll" or "Wait"                 *)
          report     (* report[h]: what the last call of h returned          *)

Init == /\ outcome = [k \in Ops |-> "none"]
        /\ of = [h \in Handles |-> NoOp]
        /\ calling = [h \in Handles |-> "none"]
        /\ report = [h \in Handles |-> "nothing"]

Create(h, k) ==
  /\ of[h] = NoOp
  /\ \/ /\ outcome[k] = "none"
        /\ \E r \in {"pending", "ok", "failed"} : outcome' = [outcome EXCEPT ![k] = r]
     \/ /\ outcome[k] # "none"
        /\ UNCHANGED outcome
  /\ of' = [of EXCEPT ![h] = k]
  /\ UNCHANGED <<calling, report>>

End(k) == /\ outcome[k] = "pending"
          /\ \E r \in {"ok", "failed"} : outcome' = [outcome EXCEPT ![k] = r]
          /\ UNCHANGED <<of, calling, report>>

Call(h, kind) == /\ of[h] # NoOp
                 /\ calling[h] = "none"
                 /\ calling' = [calling EXCEPT ![h] = kind]
                 /\ report' = [report EXCEPT ![h] = "nothing"]
                 /\ UNCHANGED <<outcome, of>>

MayReport(h) ==
  {"unavailable"} \cup ({"ok", "failed"} \cap {outcome[of[h]]})
                  \cup (IF calling[h] = "Poll" THEN {"pending"} ELSE {})

Return(h) == /\ calling[h] # "none"
             /\ calling' = [calling EXCEPT ![h] = "none"]
             /\ \E r \in MayReport(h) : report' = [report EXCEPT ![h] = r]
             /\ UNCHANGED <<outcome, of>>

Next == \/ \E h \in Handles : Return(h)
        \/ \E h \in Handles, kind \in {"Poll", "Wait"} : Call(h, kind)
        \/ \E h \in Handles, k \in Ops : Create(h, k)
        \/ \E k \in Ops : End(k)

Spec == Init /\ [][Next]_<<outcome, of, calling, report>>
=================================================================================
