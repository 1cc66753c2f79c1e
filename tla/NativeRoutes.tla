---------------------------- MODULE NativeRoutes ----------------------------
(***************************************************************************)
(* The routes of a compiled server (src/codegen/llvm.rs): the tree built   *)
(* by yk_route_insert, walked without backtracking by yk_route_match_node, *)
(* and the choice between a handler and a WebSocket session made by        *)
(* yk_process_request.  Nodes are key sequences as in RouteTrie.           *)
(***************************************************************************)
EXTENDS Naturals, Sequences, SequencesExt

CONSTANTS
  Segs,      \* literal segments
  Ints,      \* those that are integers
  Params,    \* parameter segments "{name}"
  IntParams, \* those of the form "{name:int}"
  Wild,      \* the key of all parameters
  Methods,   \* methods of requests
  Get, Ws,   \* the method GET, and the method of WebSocket routes
  MaxLen,    \* longest path (bounds the model)
  MaxRoutes  \* routes added (bounds the model)

Patterns == BoundedSeq(Segs \cup Params, MaxLen)
Paths    == BoundedSeq(Segs, MaxLen)
Key(pattern) == [i \in DOMAIN pattern |-> IF pattern[i] \in Params THEN Wild ELSE pattern[i]]

(* The nodes on the way to a key.                                          *)
Steps(key) == {SubSeq(key, 1, i) : i \in DOMAIN key}

VARIABLES
  nodes,  \* the nodes below the root
  ints,   \* parameter nodes with param_is_int
  leaves, \* of the nodes with is_leaf: method and number of the route
  routes  \* history: the routes added

vars == <<nodes, ints, leaves, routes>>

Init == nodes = {} /\ ints = {} /\ leaves = <<>> /\ routes = <<>>

(* Mutant: the node at the end keeps the handler it has. *)
InsertFirst(pattern, method) ==
  LET key  == Key(pattern)
      path == Steps(key)
  IN /\ nodes' = nodes \cup path
     /\ ints' = ints \cup {n \in path \ nodes : Last(n) = Wild /\ pattern[Len(n)] \in IntParams}
     /\ leaves' = [n \in DOMAIN leaves \cup {key} |->
                     IF n \in DOMAIN leaves THEN leaves[n] ELSE <<method, Len(routes) + 1>>]

(* yk_route_insert: any parameter child serves for any parameter segment;  *)
(* only a new one takes over whether the segment asks for an integer.      *)
Insert(pattern, method) ==
  LET key  == Key(pattern)
      path == Steps(key)
  IN /\ nodes' = nodes \cup path
     /\ ints' = ints \cup {n \in path \ nodes : Last(n) = Wild /\ pattern[Len(n)] \in IntParams}
     /\ leaves' = [n \in DOMAIN leaves \cup {key} |->
                     IF n = key THEN <<method, Len(routes) + 1>> ELSE leaves[n]]

AddRoute(pattern, method) ==
  /\ Len(routes) < MaxRoutes
  /\ Insert(pattern, method)
  /\ routes' = Append(routes, [pattern |-> pattern, method |-> method])

Next == \E pattern \in Patterns, method \in Methods \cup {Ws} : AddRoute(pattern, method)

Spec == Init /\ [][Next]_vars

----------------------------------------------------------------------------
(* The one child that goes on with a segment, if there is one.             *)
Child(node, seg) ==
  IF Append(node, seg) \in nodes THEN {Append(node, seg)}
  ELSE {n \in {Append(node, Wild)} \cap nodes : n \in ints => seg \in Ints}

Onward(at, seg) == UNION {Child(n, seg) : n \in at}

(* Where the walk along a path is after each of its segments.              *)
Walk(path) ==
  LET at[i \in 0 .. Len(path)] == IF i = 0 THEN {<<>>} ELSE Onward(at[i - 1], path[i])
  IN at

(* yk_route_match_node: the leaf at the end of the walk, if it has the     *)
(* method, or is a WebSocket route asked for with GET.                     *)
Match(path, method) ==
  {l \in {leaves[n] : n \in Walk(path)[Len(path)] \cap DOMAIN leaves} :
     l[1] = method \/ (l[1] = Ws /\ method = Get)}

(* yk_process_request: what serves a request, a handler, a WebSocket       *)
(* session or nothing (404).                                               *)
Served(path, method, upgrade) ==
  LET matched == Match(path, method) IN
  IF matched = {} /\ upgrade /\ method = Get
    THEN {<<"session", l[2]>> : l \in {l \in Match(path, Ws) : l[1] = Ws}}
    ELSE {<<"handler", l[2]>> : l \in matched}

----------------------------------------------------------------------------
Requests == Paths \X Methods

FitsKey(pattern, path) ==
  /\ Len(pattern) = Len(path)
  /\ \A i \in DOMAIN path : pattern[i] \in Params \/ pattern[i] = path[i]

Fits(pattern, path) ==
  FitsKey(pattern, path) /\ \A i \in DOMAIN path : pattern[i] \in IntParams => path[i] \in Ints

Live == {r \in DOMAIN routes :
           ~\E s \in DOMAIN routes : s > r /\ Key(routes[s].pattern) = Key(routes[r].pattern)}

(* Siblings are of one kind, and parameters in one place agree on being    *)
(* integers: then no choice of the walk can be a wrong one.                *)
OneKind == \A n, o \in nodes : Front(n) = Front(o) /\ Last(n) = Wild => o = n
IntsAgree ==
  \A r, s \in DOMAIN routes : \A i \in DOMAIN routes[r].pattern \cap DOMAIN routes[s].pattern :
    LET p == routes[r].pattern q == routes[s].pattern IN
    SubSeq(Key(p), 1, i) = SubSeq(Key(q), 1, i) => (p[i] \in IntParams <=> q[i] \in IntParams)

(* Where no choice can be wrong, every request is served that a live route *)
(* fits, although the walk never goes back.                                *)
ServedIfFits ==
  (OneKind /\ IntsAgree) =>
    \A q \in Requests : \A r \in Live :
      Fits(routes[r].pattern, q[1]) /\ routes[r].method = q[2]
        => Match(q[1], q[2]) = {<<q[2], r>>}

(* What runs, handler or session, is the last route registered for a       *)
(* pattern that fits the path, with the method of the request or as a      *)
(* WebSocket route for GET.  "Validate {param:int} matches integer         *)
(* segment" (llvm.rs:1076) holds as long as the parameters in one place    *)
(* agree.                                                                  *)
OnlyFittingServed ==
  \A q \in Requests, upgrade \in BOOLEAN : \A s \in Served(q[1], q[2], upgrade) :
    LET route == routes[s[2]] IN
    /\ s[2] \in Live /\ FitsKey(route.pattern, q[1])
    /\ IntsAgree => Fits(route.pattern, q[1])
    /\ route.method = q[2] \/ (route.method = Ws /\ q[2] = Get)
=============================================================================
