------------------------------ MODULE Routers ------------------------------
(***************************************************************************)
(* The same program interpreted and compiled: its routes are added, in the *)
(* same order, to a RouteTrie and to a NativeRoutes tree.  What is asked   *)
(* is what each of them serves, and whether they serve a request with the  *)
(* same route.                                                             *)
(***************************************************************************)
EXTENDS Naturals, Sequences

CONSTANTS Segs, Ints, Params, IntParams, Wild, None, Methods, Get, Ws, MaxLen, MaxRoutes

(* Segments, parameters and marks differ.                                  *)
ASSUME RoutesAssumption ==
  /\ Wild \notin Segs \cup Params /\ None \notin Segs /\ Segs \cap Params = {}
  /\ IntParams \subseteq Params /\ MaxLen \in Nat

VARIABLES nodes, names, handlers, routes, ints, leaves

routesVars == <<nodes, names, handlers, routes, ints, leaves>>

Interpreted == INSTANCE RouteTrie
Compiled    == INSTANCE NativeRoutes

RoutersInit == Interpreted!Init /\ Compiled!Init

(* A WebSocket route is one with the method Ws for both of them.           *)
AddRoute(pattern, method) ==
  Interpreted!AddRoute(pattern, method) /\ Compiled!AddRoute(pattern, method)

RoutersNext ==
  \E pattern \in Interpreted!Patterns, method \in Methods \cup {Ws} :
    AddRoute(pattern, method)

RoutersSpec == RoutersInit /\ [][RoutersNext]_routesVars

----------------------------------------------------------------------------
(* The interpreter's search with its backtracking (RouteNode::find) finds  *)
(* a route exactly if a live one fits the request, and then the one that   *)
(* prefers literals from left to right; its handler gets the parameters on *)
(* its own way through the trie, and nothing that a failed branch bound.   *)
BestRouteFound == Interpreted!BestRouteFound /\ Interpreted!ParamsOfItsPath

(* The compiled server runs only the last handler registered for a pattern *)
(* that fits the path, with the method of the request or as a WebSocket    *)
(* route for GET, and one with {name:int} only for integers, as long as    *)
(* the parameters in one place agree (yk_process_request); and where its   *)
(* walk (yk_route_match_node) cannot commit to a wrong child, it serves    *)
(* every request that a live route fits.                                   *)
FittingServed == Compiled!OnlyFittingServed /\ Compiled!ServedIfFits
=============================================================================
