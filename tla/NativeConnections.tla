-------------------------- MODULE NativeConnections --------------------------
(***************************************************************************)
(* The connections of the native server and the memory they live in: the   *)
(* life of a connection from its accept to its end (IocpServer), and the   *)
(* pool that yk_conn_alloc and yk_conn_free take its structure from and    *)
(* give it back to (ConnPool), both in the C runtime embedded in           *)
(* src/codegen/llvm.rs.  IocpServer knows a structure only as taken or     *)
(* free and ConnPool a connection only as a structure in use, so an        *)
(* execution shows one of the two at work.                                 *)
(***************************************************************************)
EXTENDS IocpServer

CONSTANTS Threads, Allocators, Cap, MaxPages, PerPage, Heap, Null, Junk  \* of ConnPool

VARIABLES
  shown,  \* which of the two: "connections" or "structures"
  head, next, pages, heap, cache, live, bufs, pc, mine, h, nx, page, i   \* ConnPool

Conns == INSTANCE ConnPool

ASSUME StructureAssumption == Conns!ConnPoolAssumption

structVars == <<head, next, pages, heap, cache, live, bufs, pc, mine, h, nx, page, i>>
allVars    == <<vars, structVars, shown>>

ConnectionsInit ==
  /\ shown \in {"connections", "structures"}
  /\ Init /\ Conns!Init
  /\ shown = "structures" => ~rough

ConnectionStep(action) ==
  shown = "connections" /\ action /\ UNCHANGED <<rough, structVars, shown>>

ConnectionsNext == \/ ConnectionStep(Step)
                   \/ shown = "structures" /\ Conns!Next /\ UNCHANGED <<vars, shown>>

(* The I/O and handler threads keep dequeuing (s->running stays 1), and    *)
(* the system completes what can complete.  Clients are free to stop.      *)
ConnectionsSpec ==
  /\ ConnectionsInit /\ [][ConnectionsNext]_allVars
  /\ \A s \in Slots : /\ WF_allVars(ConnectionStep(Completion(s)))
                      /\ WF_allVars(ConnectionStep(HandlerDone(s)))

----------------------------------------------------------------------------
(* A structure serves one connection, one cache or one list at a time      *)
(* (yk_conn_alloc, yk_conn_free).                                          *)
SlotExclusive == shown = "structures" => Conns!SlotExclusive

(* No structure and no buffer is lost (yk_vmem_pool_alloc and _free).      *)
NothingLost == shown = "structures" => Conns!NothingLost
=============================================================================
