------------------------------ MODULE HandOff ------------------------------
(***************************************************************************)
(* What the handler pool promises to the I/O threads of the native server: *)
(* a request that is put is taken by exactly one handler thread, once, and *)
(* is served by it; or it is dropped before any handler took it.  Nothing  *)
(* is promised about the order.                                            *)
(***************************************************************************)
CONSTANT Requests

VARIABLE stage   \* "new", "queued", "taken", "done" or "dropped"

Init == stage = [r \in Requests |-> "new"]

Move(r, from, to) == stage[r] = from /\ stage' = [stage EXCEPT ![r] = to]

Put(r)   == Move(r, "new", "queued")
Take(r)  == Move(r, "queued", "taken")
Serve(r) == Move(r, "taken", "done")
Refuse(r) == Move(r, "new", "dropped")

(* The pool goes away with what it still holds. *)
Discard == /\ \A r \in Requests : stage[r] # "taken"
           /\ stage' = [r \in Requests |->
                          IF stage[r] = "queued" THEN "dropped" ELSE stage[r]]

Next == (\E r \in Requests : Put(r) \/ Take(r) \/ Serve(r) \/ Refuse(r)) \/ Discard

Spec == Init /\ [][Next]_stage
=============================================================================
