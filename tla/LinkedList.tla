----------------------------- MODULE LinkedList -----------------------------
(***************************************************************************)
(* Lists in the memory of the C runtime (src/codegen/llvm.rs): f is the    *)
(* first word of each structure, in which a free or queued structure keeps *)
(* the pointer to the next one, and x a pointer; what is no structure of f *)
(* ends a list.                                                            *)
(***************************************************************************)

Closed(S, x, f) == /\ x \in DOMAIN f => x \in S
                   /\ \A n \in S : f[n] \in DOMAIN f => f[n] \in S

(* The structures on the list that begins at x: the least set that holds x *)
(* and the successor of each of its members.                               *)
List(x, f) == {n \in DOMAIN f : \A S \in SUBSET DOMAIN f : Closed(S, x, f) => n \in S}
=============================================================================
