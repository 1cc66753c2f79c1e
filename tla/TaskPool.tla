------------------------------ MODULE TaskPool ------------------------------
(***************************************************************************)
(* What a pool of Yidika tasks promises to the code that spawns on it,     *)
(* whatever queues and threads it is made of: a submitted task is started  *)
(* at most once, at most Capacity tasks run at a time, and a task ends     *)
(* either with its result ("done") or, when the thread or the pool that    *)
(* held it goes away, without one ("lost").  It never ends twice and never *)
(* runs after its end.                                                     *)
(***************************************************************************)
EXTENDS Naturals, FiniteSets

CONSTANTS Tasks,      \* the tasks a program may spawn
          Capacity    \* how many tasks may run at the same time

VARIABLE state        \* the stage of the life of every task

Stages == {"idle", "pending", "running", "done", "lost"}

InStage(s) == {t \in Tasks : state[t] = s}

Init == state = [t \in Tasks |-> "idle"]

Submit(t) == /\ state[t] = "idle"
             /\ state' = [state EXCEPT ![t] = "pending"]

Start(t) == /\ state[t] = "pending"
            /\ Cardinality(InStage("running")) < Capacity
            /\ state' = [state EXCEPT ![t] = "running"]

Complete(t) == /\ state[t] = "running"
               /\ state' = [state EXCEPT ![t] = "done"]

(* A dying thread takes the task it runs and the ones it had queued along. *)
Lose(S) == /\ S \subseteq InStage("pending") \cup InStage("running")
           /\ state' = [t \in Tasks |-> IF t \in S THEN "lost" ELSE state[t]]

Next == \/ \E t \in Tasks : Submit(t) \/ Start(t) \/ Complete(t)
        \/ \E S \in SUBSET Tasks : Lose(S)

Spec == Init /\ [][Next]_state
=============================================================================
