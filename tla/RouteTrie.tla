----------------------------- MODULE RouteTrie -----------------------------
(***************************************************************************)
(* The routes of the interpreter's HTTP server: RouteNode and RouteTrie of *)
(* src/netlib/mod.rs.  A node is the sequence of keys on the way to it: a  *)
(* literal segment, or Wild for any parameter.  Routes are added one after *)
(* the other; match_route is a function of the trie.                       *)
(***************************************************************************)
EXTENDS Naturals, Sequences, SequencesExt

CONSTANTS
  Segs,      \* literal segments
  Params,    \* parameter segments, named "{name}" or ":name" in the code
  Wild,      \* the key of all parameters
  None,      \* what a parameter that is not bound is bound to
  Methods,   \* HTTP methods
  MaxLen,    \* longest path (bounds the model)
  MaxRoutes  \* routes added (bounds the model)

Patterns == BoundedSeq(Segs \cup Params, MaxLen)
Paths    == BoundedSeq(Segs, MaxLen)
Key(pattern) == [i \in DOMAIN pattern |-> IF pattern[i] \in Params THEN Wild ELSE pattern[i]]

(* The nodes on the way to a key.                                          *)
Steps(key) == {SubSeq(key, 1, i) : i \in DOMAIN key}

VARIABLES
  nodes,    \* the nodes below the root
  names,    \* param_name of the wildcard nodes
  handlers, \* of the nodes that have one: method and number of the route
  routes    \* history: the routes added

vars == <<nodes, names, handlers, routes>>

Init == nodes = {} /\ names = <<>> /\ handlers = <<>> /\ routes = <<>>

(* RouteNode::insert: missing nodes are created, a new wildcard node takes *)
(* the name of this route's parameter, and the node at the end takes the   *)
(* handler in place of the one it may have.                                *)
Insert(pattern, method) ==
  LET key  == Key(pattern)
      path == Steps(key)
  IN /\ nodes' = nodes \cup path
     /\ names' = [n \in DOMAIN names \cup {n \in path : Last(n) = Wild} |->
                    IF n \in DOMAIN names THEN names[n] ELSE pattern[Len(n)]]
     /\ handlers' = [n \in DOMAIN handlers \cup {key} |->
                       IF n = key THEN <<method, Len(routes) + 1>> ELSE handlers[n]]

AddRoute(pattern, method) ==
  /\ Len(routes) < MaxRoutes
  /\ Insert(pattern, method)
  /\ routes' = Append(routes, [pattern |-> pattern, method |-> method])

Next == \E pattern \in Patterns, method \in Methods : AddRoute(pattern, method)

Spec == Init /\ [][Next]_vars

----------------------------------------------------------------------------
(* The parameters bound so far: params, a map from names to segments.      *)
Bindings == [Params -> Segs \cup {None}]
Unbound  == [name \in Params |-> None]

Nothing(params) == [route |-> 0, params |-> params]

(* Mutant: a parameter stays bound when its branch has failed. *)
UnbindNot(params, name) == params

(* params.remove(name), when the branch of a wildcard has failed.          *)
Unbind(params, name) == [params EXCEPT ![name] = None]

(* RouteNode::find where no segment is left.                               *)
AtEnd(node, method, params) ==
  IF node \in DOMAIN handlers /\ handlers[node][1] = method
    THEN [route |-> handlers[node][2], params |-> params]
    ELSE Nothing(params)

(* The search goes on at a child, if there is one: below says what it      *)
(* finds there.  The name of a wildcard is bound on the way.               *)
Try(child, seg, params, below) ==
  IF child \notin nodes THEN Nothing(params)
  ELSE IF Last(child) # Wild THEN below[<<child, params>>]
  ELSE LET found == below[<<child, [params EXCEPT ![names[child]] = seg]>>] IN
       IF found.route # 0 THEN found ELSE Nothing(Unbind(found.params, names[child]))

(* RouteNode::find for a segment: the literal child, then the wildcard.    *)
Below(node, seg, params, below) ==
  LET first == Try(Append(node, seg), seg, params, below) IN
  IF first.route # 0 THEN first ELSE Try(Append(node, Wild), seg, first.params, below)

(* What find gives at any node with any parameters, when no segment is     *)
(* left, and before a segment, below being what it gives behind it.        *)
Places == (nodes \cup {<<>>}) \X Bindings
FoundAtEnd(method)    == [at \in Places |-> AtEnd(at[1], method, at[2])]
FoundFrom(seg, below) == [at \in Places |-> Below(at[1], seg, at[2], below)]

(* RouteNode::find while the last segments of a path are left: the route   *)
(* found, or 0, and the parameters as the search leaves them.              *)
Find(path, method) ==
  LET find[left \in 0 .. Len(path)] ==
        IF left = 0 THEN FoundAtEnd(method)
        ELSE FoundFrom(path[Len(path) - left + 1], find[left - 1])
  IN find

Match(path, method) == Find(path, method)[Len(path)][<<<<>>, Unbound>>]

----------------------------------------------------------------------------
Requests == Paths \X Methods

Fits(pattern, path) ==
  /\ Len(pattern) = Len(path)
  /\ \A i \in DOMAIN path : pattern[i] \in Params \/ pattern[i] = path[i]

(* Routes that no later one has replaced: at most one for a key.           *)
Live == {r \in DOMAIN routes :
           ~\E s \in DOMAIN routes : s > r /\ Key(routes[s].pattern) = Key(routes[r].pattern)}

(* Where the two first differ, r has the literal.                          *)
Preferred(r, s) ==
  LET p == Key(routes[r].pattern) q == Key(routes[s].pattern)
  IN \E i \in DOMAIN p : p[i] # q[i] /\ q[i] = Wild /\ \A j \in 1 .. i - 1 : p[j] = q[j]

(* The search with its backtracking finds a route exactly if one that is   *)
(* live fits the request, and of those that fit the one that prefers       *)
(* literals from left to right (find, mod.rs:165).                         *)
BestRouteFound ==
  \A q \in Requests :
    LET fit   == {r \in Live : Fits(routes[r].pattern, q[1]) /\ routes[r].method = q[2]}
        found == Match(q[1], q[2]).route
    IN IF fit = {} THEN found = 0
       ELSE found \in fit /\ \A r \in fit \ {found} : Preferred(found, r)

(* No name is used at two depths, so no binding hides another.             *)
NamesByDepth == \A n, o \in DOMAIN names : names[n] = names[o] => Len(n) = Len(o)

(* The handler gets the parameters on its own way through the trie, each   *)
(* bound to the segment in its place, and nothing that a failed branch     *)
(* bound before.                                                           *)
ParamsOfItsPath ==
  NamesByDepth =>
    \A q \in Requests :
      LET found == Match(q[1], q[2]) IN
      found.route # 0 =>
        LET key  == Key(routes[found.route].pattern)
            wild == {i \in DOMAIN key : key[i] = Wild}
        IN /\ {name \in Params : found.params[name] # None} =
                {names[SubSeq(key, 1, i)] : i \in wild}
           /\ \A i \in wild : found.params[names[SubSeq(key, 1, i)]] = q[1][i]
=============================================================================
