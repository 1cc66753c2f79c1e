-------------------------- MODULE LinkedListProofs --------------------------
(***************************************************************************)
(* Lemmas about lists in memory, for any structures and pointers, cycles   *)
(* included.                                                               *)
(***************************************************************************)
EXTENDS LinkedList, TLAPS

(* A list is closed, and is the smallest closed set. *)
LEMMA ListClosed ==
  ASSUME NEW x, NEW f
  PROVE  /\ List(x, f) \subseteq DOMAIN f
         /\ Closed(List(x, f), x, f)
         /\ \A S \in SUBSET DOMAIN f : Closed(S, x, f) => List(x, f) \subseteq S
  BY DEF List, Closed

(* A pointer to no structure begins an empty list. *)
LEMMA ListNull ==
  ASSUME NEW f, NEW x, x \notin DOMAIN f
  PROVE  List(x, f) = {}
<1>1. Closed({}, x, f)
  BY DEF Closed
<1>. QED
  BY <1>1, ListClosed

(* A change of the links elsewhere leaves a list as it is. *)
LEMMA ListFrame ==
  ASSUME NEW x, NEW f, NEW g, DOMAIN g = DOMAIN f,
         \A n \in List(x, f) : g[n] = f[n]
  PROVE  List(x, g) = List(x, f)
<1>1. Closed(List(x, f), x, g)
  BY ListClosed DEF Closed
<1>2. List(x, g) \subseteq List(x, f)
  BY <1>1, ListClosed
<1>3. Closed(List(x, g), x, f)
  BY <1>2, ListClosed DEF Closed
<1>. QED
  BY <1>2, <1>3, ListClosed

(* A list that is not empty is its first structure and the rest. *)
LEMMA ListStep ==
  ASSUME NEW f, NEW n \in DOMAIN f
  PROVE  List(n, f) = {n} \cup List(f[n], f)
<1>1. Closed({n} \cup List(f[n], f), n, f)
  BY ListClosed DEF Closed
<1>2. n \in List(n, f) /\ Closed(List(n, f), f[n], f)
  BY ListClosed DEF Closed
<1>. QED
  BY <1>1, <1>2, ListClosed

(* The list from a structure of a list is a part of it. *)
LEMMA ListPart ==
  ASSUME NEW x, NEW f, NEW n \in List(x, f)
  PROVE  List(f[n], f) \subseteq List(x, f)
<1>1. Closed(List(x, f), f[n], f)
  BY ListClosed DEF Closed
<1>. QED
  BY <1>1, ListClosed

(* A change of one link that is not on a list leaves the list and all its  *)
(* parts as they are.                                                      *)
LEMMA ListUntouched ==
  ASSUME NEW x, NEW f, NEW g, NEW p, p \notin List(x, f),
         DOMAIN g = DOMAIN f, \A n \in DOMAIN f : n # p => g[n] = f[n]
  PROVE  /\ List(x, g) = List(x, f)
         /\ \A n \in List(x, f) : g[n] = f[n] /\ List(g[n], g) = List(f[n], f)
<1>1. \A n \in List(x, f) : n \in DOMAIN f /\ g[n] = f[n]
  BY ListClosed
<1>2. List(x, g) = List(x, f)
  BY <1>1, ListFrame
<1>3. ASSUME NEW n \in List(x, f) PROVE List(f[n], g) = List(f[n], f)
  <2>1. List(f[n], f) \subseteq List(x, f)
    BY ListPart
  <2>2. \A m \in List(f[n], f) : g[m] = f[m]
    BY <1>1, <2>1
  <2>. QED
    BY <2>2, ListFrame
<1>. QED
  BY <1>1, <1>2, <1>3
=============================================================================
