------------------------------ MODULE ConnPool ------------------------------
(***************************************************************************)
(* The yk_conn structures of the native server (the C runtime embedded in  *)
(* src/codegen/llvm.rs): a cache per thread over one pool of slots, which  *)
(* commits pages of reserved memory and keeps free slots on a Treiber      *)
(* stack linked through the slots' first word - the word that holds the    *)
(* receive buffer of a slot in use.  I/O threads allocate; I/O and handler *)
(* threads free.                                                           *)
(***************************************************************************)
EXTENDS Naturals, Sequences, SequencesExt, LinkedList

CONSTANTS
  Threads,     \* threads that free connections
  Allocators,  \* those that also allocate: the I/O threads
  Cap,         \* entries of a thread's cache (64 in the code)
  MaxPages,    \* pages of the reserved memory
  PerPage,     \* slots of a page
  Heap,        \* structures malloc may provide when the pages are used up
  Null, Junk   \* no slot; a word that is no pointer to a slot

Structures == 1 .. MaxPages * PerPage + Heap

(* Assumed where the constants are given (NativeConnections). *)
ConnPoolAssumption ==
  /\ Allocators \subseteq Threads
  /\ Cap \in Nat /\ MaxPages \in Nat /\ PerPage \in Nat \ {0} /\ Heap \in Nat
  /\ Null \notin Structures /\ Junk \notin Structures /\ Null # Junk

VARIABLES
  head,    \* pool->free_head
  next,    \* first word of every slot
  pages,   \* pages committed (commit_end)
  heap,    \* structures taken from malloc
  cache,   \* yk_tls_conn_cache of each thread
  live,    \* slots in use by a connection
  bufs,    \* slots that own a receive and a response buffer
  pc,      \* where each thread is
  mine,    \* the slot a thread has in hand
  h, nx,   \* its local copies of the head and of head->next
  page, i  \* the page it commits and the next slot of it to push

local == <<pc, mine, h, nx, page, i>>
vars  == <<head, next, pages, heap, cache, live, bufs, local>>

Init ==
  /\ head = Null /\ next = [s \in Structures |-> Null]
  /\ pages = 0 /\ heap = 0
  /\ cache = [t \in Threads |-> <<>>]
  /\ live = {} /\ bufs = {}
  /\ pc   = [t \in Threads |-> "idle"]
  /\ mine = [t \in Threads |-> Null]
  /\ h    = [t \in Threads |-> Null]
  /\ nx   = [t \in Threads |-> Null]
  /\ page = [t \in Threads |-> 0]
  /\ i    = [t \in Threads |-> 0]

Goto(t, from, to) == pc[t] = from /\ pc' = [pc EXCEPT ![t] = to]
First(p)          == p * PerPage + 1

----------------------------------------------------------------------------
(* Mutant: the cache is read without taking the entry off.                 *)
AllocCachedKeeps(t) ==
  /\ t \in Allocators /\ pc[t] = "idle" /\ cache[t] # <<>>
  /\ live' = live \cup {Last(cache[t])}
  /\ UNCHANGED <<head, next, pages, heap, cache, bufs, local>>

(* yk_conn_alloc from the cache: the slot is zeroed but keeps its buffers. *)
AllocCached(t) ==
  /\ t \in Allocators /\ pc[t] = "idle" /\ cache[t] # <<>>
  /\ cache' = [cache EXCEPT ![t] = Front(@)]
  /\ live' = live \cup {Last(cache[t])}
  /\ UNCHANGED <<head, next, pages, heap, bufs, local>>

(* yk_vmem_pool_alloc: first the free list.                                *)
AllocBegin(t) ==
  /\ t \in Allocators /\ pc[t] = "idle" /\ cache[t] = <<>>
  /\ pc' = [pc EXCEPT ![t] = "head"]
  /\ UNCHANGED <<head, next, pages, heap, cache, live, bufs, mine, h, nx, page, i>>

ReadHead(t) ==
  /\ Goto(t, "head", IF head = Null THEN "page" ELSE "next")
  /\ h' = [h EXCEPT ![t] = head]
  /\ UNCHANGED <<head, next, pages, heap, cache, live, bufs, mine, nx, page, i>>

ReadNext(t) ==
  /\ Goto(t, "next", "pop")
  /\ nx' = [nx EXCEPT ![t] = next[h[t]]]
  /\ UNCHANGED <<head, next, pages, heap, cache, live, bufs, mine, h, page, i>>

(* The compare-and-swap takes the slot and zeroes it, or starts again.     *)
PopCas(t) ==
  /\ IF head = h[t]
       THEN /\ Goto(t, "pop", "open")
            /\ head' = nx[t]
            /\ next' = [next EXCEPT ![h[t]] = Null]
            /\ mine' = [mine EXCEPT ![t] = h[t]]
       ELSE /\ Goto(t, "pop", "head")
            /\ UNCHANGED <<head, next, mine>>
  /\ UNCHANGED <<pages, heap, cache, live, bufs, h, nx, page, i>>

(* An empty list: the end of the committed memory is read ...              *)
ReadEnd(t) ==
  /\ Goto(t, "page", IF pages < MaxPages THEN "commit" ELSE "heap")
  /\ page' = [page EXCEPT ![t] = pages]
  /\ UNCHANGED <<head, next, pages, heap, cache, live, bufs, mine, h, nx, i>>

(* ... and moved by one page, with an addition that is not atomic: it is   *)
(* applied to the value read now or to the one read before.                *)
Commit(t) ==
  /\ Goto(t, "commit", IF PerPage > 1 THEN "extra" ELSE "open")
  /\ pages' \in {pages + 1, page[t] + 1} \cap 0 .. MaxPages
  /\ mine' = [mine EXCEPT ![t] = First(page[t])]
  /\ i' = [i EXCEPT ![t] = 1]
  /\ UNCHANGED <<head, next, heap, cache, live, bufs, h, nx, page>>

(* The other slots of the page are pushed on the free list.                *)
Extra(t) == First(page[t]) + i[t]

LinkExtra(t) ==
  /\ Goto(t, "extra", "pushextra")
  /\ h' = [h EXCEPT ![t] = head]
  /\ next' = [next EXCEPT ![Extra(t)] = head]
  /\ UNCHANGED <<head, pages, heap, cache, live, bufs, mine, nx, page, i>>

PushExtra(t) ==
  /\ IF head = h[t]
       THEN /\ Goto(t, "pushextra", IF i[t] + 1 < PerPage THEN "extra" ELSE "open")
            /\ head' = Extra(t)
            /\ i' = [i EXCEPT ![t] = @ + 1]
       ELSE Goto(t, "pushextra", "extra") /\ UNCHANGED <<head, i>>
  /\ UNCHANGED <<next, pages, heap, cache, live, bufs, mine, h, nx, page>>

(* The pages are used up: malloc.                                          *)
FromHeap(t) ==
  /\ heap < Heap
  /\ Goto(t, "heap", "open")
  /\ heap' = heap + 1
  /\ mine' = [mine EXCEPT ![t] = MaxPages * PerPage + heap + 1]
  /\ UNCHANGED <<head, next, pages, cache, live, bufs, h, nx, page, i>>

(* The accept handler gives the zeroed slot its buffers.                   *)
Open(t) ==
  /\ Goto(t, "open", "idle")
  /\ live' = live \cup {mine[t]}
  /\ bufs' = bufs \cup {mine[t]}
  /\ next' = [next EXCEPT ![mine[t]] = Junk]
  /\ mine' = [mine EXCEPT ![t] = Null]
  /\ UNCHANGED <<head, pages, heap, cache, h, nx, page, i>>

----------------------------------------------------------------------------
(* Mutant: a slot goes to the free list with its buffers.                  *)
FreeKeepsBuffers(t, s) ==
  /\ pc[t] = "idle" /\ s \in live
  /\ live' = live \ {s}
  /\ IF Len(cache[t]) < Cap
       THEN cache' = [cache EXCEPT ![t] = Append(@, s)] /\ UNCHANGED <<pc, mine>>
       ELSE /\ pc' = [pc EXCEPT ![t] = "link"]
            /\ mine' = [mine EXCEPT ![t] = s]
            /\ UNCHANGED cache
  /\ UNCHANGED <<head, next, pages, heap, bufs, h, nx, page, i>>

(* yk_conn_free: into the cache of the freeing thread, or, when it is      *)
(* full, without its buffers to the free list.                             *)
Free(t, s) ==
  /\ pc[t] = "idle" /\ s \in live
  /\ live' = live \ {s}
  /\ IF Len(cache[t]) < Cap
       THEN cache' = [cache EXCEPT ![t] = Append(@, s)] /\ UNCHANGED <<pc, mine, bufs>>
       ELSE /\ pc' = [pc EXCEPT ![t] = "link"]
            /\ mine' = [mine EXCEPT ![t] = s]
            /\ bufs' = bufs \ {s}
            /\ UNCHANGED cache
  /\ UNCHANGED <<head, next, pages, heap, h, nx, page, i>>

Link(t) ==
  /\ Goto(t, "link", "push")
  /\ h' = [h EXCEPT ![t] = head]
  /\ next' = [next EXCEPT ![mine[t]] = head]
  /\ UNCHANGED <<head, pages, heap, cache, live, bufs, mine, nx, page, i>>

Push(t) ==
  /\ IF head = h[t]
       THEN /\ Goto(t, "push", "idle")
            /\ head' = mine[t]
            /\ mine' = [mine EXCEPT ![t] = Null]
       ELSE Goto(t, "push", "link") /\ UNCHANGED <<head, mine>>
  /\ UNCHANGED <<next, pages, heap, cache, live, bufs, h, nx, page, i>>

Next == \E t \in Threads :
  \/ AllocCached(t) \/ AllocBegin(t) \/ ReadHead(t) \/ ReadNext(t) \/ PopCas(t)
  \/ ReadEnd(t) \/ Commit(t) \/ LinkExtra(t) \/ PushExtra(t) \/ FromHeap(t) \/ Open(t)
  \/ \E s \in Structures : Free(t, s)
  \/ Link(t) \/ Push(t)

Spec == Init /\ [][Next]_vars

----------------------------------------------------------------------------
(* The free list as it is linked. *)
OnList == List(head, next)

InHand(t) == (IF mine[t] = Null THEN {} ELSE {mine[t]})
               \cup IF pc[t] \in {"extra", "pushextra"}
                      THEN {First(page[t]) + j : j \in i[t] .. PerPage - 1} ELSE {}

Places == {live, OnList} \cup {ToSet(cache[t]) : t \in Threads}
                         \cup {InHand(t) : t \in Threads}

(* A slot serves one purpose at a time: a connection, an entry of one      *)
(* thread's cache, an entry of the free list, or the hand of one thread.   *)
SlotExclusive ==
  /\ \A t \in Threads : IsInjective(cache[t])
  /\ \A A, B \in Places : A # B => A \cap B = {}
  /\ \A t, u \in Threads : t # u =>
       /\ ToSet(cache[t]) \cap ToSet(cache[u]) = {}
       /\ InHand(t) \cap InHand(u) = {}
  /\ \A t \in Threads : InHand(t) \cap (live \cup OnList) = {}

(* Along the free list every word is a pointer to the next slot, and it    *)
(* ends.                                                                   *)
FreeListEnds ==
  /\ head \in OnList \cup {Null}
  /\ \A s \in OnList : next[s] \in OnList \cup {Null} /\ s \notin List(next[s], next)

(* The free list ends, and every slot ever committed or taken from malloc  *)
(* is in one of those places: none is lost to a lost update of the list.   *)
(* Buffers belong to slots in use or cached: a slot that is zeroed when it *)
(* leaves the free list has none to lose.                                  *)
NothingLost ==
  /\ FreeListEnds
  /\ (1 .. pages * PerPage) \cup {MaxPages * PerPage + n : n \in 1 .. heap}
       \subseteq UNION Places
  /\ bufs \subseteq live \cup UNION {ToSet(cache[t]) : t \in Threads}
=============================================================================
