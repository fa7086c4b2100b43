--------------------------------- MODULE Pool ---------------------------------
(***************************************************************************)
(* src/src/allocator.c: the pool that every Request, SubRequest and         *)
(* Command_USBSSD comes from.  Objects are linked, by an entry inside them, *)
(* into a list of free and a list of used ones, each under its own mutex;   *)
(* between the two an object is in no list.  The search of free_USBSSD      *)
(* starts from a usedHead read before the mutex is taken.                   *)
(***************************************************************************)
EXTENDS Naturals, FiniteSets

CONSTANTS
  Objects,  \* what kmalloc can return
  Threads,
  NULL,
  MayFail   \* TRUE: kmalloc may fail before the objects are used up

ASSUME PoolAssumption ==
  /\ IsFiniteSet(Objects) /\ Objects # {} /\ Threads # {}
  /\ NULL \notin Objects /\ MayFail \in BOOLEAN

NoThread == NULL

VARIABLES
  freeHead, usedHead,
  next, pre,  \* Inter_Allocator_USBSSD of each object
  usedMutex,  \* the thread inside; sections under freeMutex are one step
  pc, ptr,    \* of each thread: where it is, and the object it is about
  iter,       \* of each thread: the search of free_USBSSD
  fresh,      \* not yet returned by kmalloc
  held        \* what the callers have been given and have not given back

poolVars == <<freeHead, usedHead, next, pre, usedMutex, pc, ptr, iter, fresh, held>>

Entries == Objects \cup {NULL}
Goto(t, from, to) == pc[t] = from /\ pc' = [pc EXCEPT ![t] = to]

-----------------------------------------------------------------------------
(* allocate_USBSSD                                                         *)

Pop(t) ==
  /\ Goto(t, "idle", "link")
  /\ freeHead # NULL
  /\ ptr' = [ptr EXCEPT ![t] = freeHead]
  /\ freeHead' = next[freeHead]
  /\ pre' = [o \in Objects |-> IF o = next[freeHead] THEN NULL ELSE pre[o]]
  /\ UNCHANGED <<usedHead, next, usedMutex, iter, fresh, held>>

\* The list was empty when the thread looked.  (Bound: nobody asks for more
\* objects than there are.)
FindEmpty(t) ==
  /\ Cardinality(fresh) > Cardinality({u \in Threads : pc[u] = "kmalloc"})
  /\ Goto(t, "idle", "kmalloc")
  /\ freeHead = NULL
  /\ UNCHANGED <<freeHead, usedHead, next, pre, usedMutex, ptr, iter, fresh, held>>

Kmalloc(t) ==
  /\ Goto(t, "kmalloc", "link")
  /\ \E o \in fresh :
       /\ fresh' = fresh \ {o}
       /\ ptr' = [ptr EXCEPT ![t] = o]
  /\ UNCHANGED <<freeHead, usedHead, next, pre, usedMutex, iter, held>>

\* NULL plus the offset of the entry is not NULL: the test that follows lets
\* it pass, and the thread goes on to write through it.
KmallocFails(t) ==
  /\ MayFail
  /\ Goto(t, "kmalloc", "link")
  /\ ptr' = [ptr EXCEPT ![t] = NULL]
  /\ UNCHANGED <<freeHead, usedHead, next, pre, usedMutex, iter, fresh, held>>

\* Variant: the old head is not told of its new predecessor.
Link_one_way(t) ==
  /\ Goto(t, "link", "idle") /\ usedMutex = NoThread /\ ptr[t] # NULL
  /\ next' = [next EXCEPT ![ptr[t]] = usedHead]
  /\ pre' = [pre EXCEPT ![ptr[t]] = NULL]
  /\ usedHead' = ptr[t]
  /\ held' = held \cup {ptr[t]}
  /\ UNCHANGED <<freeHead, usedMutex, ptr, iter, fresh>>

\* Variant: usedHead is moved before it is read.
Link_swapped(t) ==
  /\ Goto(t, "link", "idle") /\ usedMutex = NoThread /\ ptr[t] # NULL
  /\ next' = [next EXCEPT ![ptr[t]] = ptr[t]]
  /\ pre' = [pre EXCEPT ![ptr[t]] = NULL]
  /\ usedHead' = ptr[t]
  /\ held' = held \cup {ptr[t]}
  /\ UNCHANGED <<freeHead, usedMutex, ptr, iter, fresh>>

Link(t) ==
  /\ Goto(t, "link", "idle") /\ usedMutex = NoThread /\ ptr[t] # NULL
  /\ next' = [next EXCEPT ![ptr[t]] = usedHead]
  /\ pre' = [o \in Objects |-> IF o = usedHead THEN ptr[t]
                               ELSE IF o = ptr[t] THEN NULL ELSE pre[o]]
  /\ usedHead' = ptr[t]
  /\ held' = held \cup {ptr[t]}
  /\ UNCHANGED <<freeHead, usedMutex, ptr, iter, fresh>>

-----------------------------------------------------------------------------
(* free_USBSSD                                                             *)

\* Any holder of an object may give it back, once.  usedHead is read here.
Free(t) ==
  /\ Goto(t, "idle", "free")
  /\ \E o \in held :
       /\ ptr' = [ptr EXCEPT ![t] = o]
       /\ held' = held \ {o}
  /\ iter' = [iter EXCEPT ![t] = usedHead]
  /\ UNCHANGED <<freeHead, usedHead, next, pre, usedMutex, fresh>>

LockUsed(t) ==
  /\ Goto(t, "free", "search") /\ usedMutex = NoThread
  /\ usedMutex' = t
  /\ UNCHANGED <<freeHead, usedHead, next, pre, ptr, iter, fresh, held>>

Searching(t) == iter[t] # ptr[t] /\ iter[t] # NULL /\ next[iter[t]] # NULL

Search(t) ==
  /\ pc[t] = "search" /\ Searching(t)
  /\ iter' = [iter EXCEPT ![t] = next[iter[t]]]
  /\ UNCHANGED <<freeHead, usedHead, next, pre, usedMutex, pc, ptr, fresh, held>>

\* Variant: an object that the search has not come upon is not in the list.
Unlink_if_found(t) ==
  /\ Goto(t, "search", IF iter[t] = ptr[t] THEN "push" ELSE "idle")
  /\ ~Searching(t)
  /\ usedMutex' = NoThread
  /\ LET p == ptr[t]
         n == next[p]
     IN /\ usedHead' = IF iter[t] = p /\ p = usedHead THEN n ELSE usedHead
        /\ next' = IF iter[t] = p /\ p # usedHead
                   THEN [next EXCEPT ![pre[p]] = n] ELSE next
        /\ pre' = IF iter[t] # p THEN pre
                  ELSE [o \in Objects |-> IF o = p THEN NULL
                                          ELSE IF o = n THEN pre[p] ELSE pre[o]]
  /\ UNCHANGED <<freeHead, ptr, iter, fresh, held>>

\* The end of the search is tested for NULL (the list is not empty, the object
\* being in it) and not for the object, which is taken out of the list by its
\* own links wherever the search has ended.
Unlink(t) ==
  /\ Goto(t, "search", "push")
  /\ ~Searching(t) /\ iter[t] # NULL
  /\ usedMutex' = NoThread
  /\ LET p == ptr[t]
         n == next[p]
     IN \/ /\ p = usedHead
           /\ usedHead' = n
           /\ pre' = [o \in Objects |-> IF o \in {n, p} THEN NULL ELSE pre[o]]
           /\ UNCHANGED next
        \/ /\ p # usedHead
           /\ next' = [next EXCEPT ![pre[p]] = n]
           /\ pre' = [o \in Objects |-> IF o = p THEN NULL
                                        ELSE IF o = n THEN pre[p] ELSE pre[o]]
           /\ UNCHANGED usedHead
  /\ UNCHANGED <<freeHead, ptr, iter, fresh, held>>

Push(t) ==
  /\ Goto(t, "push", "idle")
  /\ next' = [next EXCEPT ![ptr[t]] = freeHead]
  /\ pre' = [o \in Objects |-> IF o = freeHead THEN ptr[t] ELSE pre[o]]
  /\ freeHead' = ptr[t]
  /\ UNCHANGED <<usedHead, usedMutex, ptr, iter, fresh, held>>

-----------------------------------------------------------------------------
Init ==
  /\ freeHead = NULL /\ usedHead = NULL
  /\ next = [o \in Objects |-> NULL] /\ pre = [o \in Objects |-> NULL]
  /\ usedMutex = NoThread
  /\ pc = [t \in Threads |-> "idle"]
  /\ ptr = [t \in Threads |-> NULL] /\ iter = [t \in Threads |-> NULL]
  /\ fresh = Objects /\ held = {}

Step(t) ==
  \/ Kmalloc(t) \/ KmallocFails(t) \/ Link(t)
  \/ LockUsed(t) \/ Search(t) \/ Unlink(t) \/ Push(t)

Next == \E t \in Threads : Pop(t) \/ FindEmpty(t) \/ Free(t) \/ Step(t)

\* A thread goes on with the call it has begun, and gets a mutex that is free
\* again and again.
Fairness == \A t \in Threads : WF_poolVars(Step(t)) /\ SF_poolVars(Link(t) \/ LockUsed(t))

Spec == Init /\ [][Next]_poolVars
FairSpec == Spec /\ Fairness
-----------------------------------------------------------------------------
(* Properties.                                                             *)

\* The objects from a head on, by their next, if the list ends.
Nth(head) ==
  LET nth[n \in 0..Cardinality(Objects)] ==
        IF n = 0 THEN head ELSE IF nth[n-1] = NULL THEN NULL ELSE next[nth[n-1]]
  IN nth
Ends(head) == Nth(head)[Cardinality(Objects)] = NULL
Chain(head) == {Nth(head)[n] : n \in 0..Cardinality(Objects)} \ {NULL}

At(labels) == {ptr[t] : t \in {u \in Threads : pc[u] \in labels}} \ {NULL}

(* Every object is in one place: free, used, on its way with one thread, or  *)
(* not made yet.  What the callers hold is used, and nothing else is but     *)
(* what is being given back; so no object is ever given to two callers, and  *)
(* none is lost, though threads allocate and free at the same time.          *)
OneHolder ==
  /\ Ends(freeHead) /\ Ends(usedHead)
  /\ Chain(usedHead) = held \cup At({"free", "search"})
  /\ held \cap At({"free", "search"}) = {}
  /\ LET places == <<Chain(freeHead), Chain(usedHead), At({"link"}), At({"push"}), fresh>>
     IN \A o \in Objects : Cardinality({i \in DOMAIN places : o \in places[i]}) = 1
  /\ \A t, u \in Threads : t # u /\ ptr[t] = ptr[u] /\ ptr[t] # NULL
       => pc[t] \in {"idle", "kmalloc"} \/ pc[u] \in {"idle", "kmalloc"}

(* A used object can be taken out by its own links, wherever the search that *)
(* went before it has led: its pre is the one whose next it is.              *)
LinksAreInverse ==
  \A o \in Chain(usedHead) :
    /\ o = usedHead <=> pre[o] = NULL
    /\ next[o] # NULL => pre[next[o]] = o

\* A thread is about to write through the address of a failed allocation.
Failed == \E t \in Threads : pc[t] = "link" /\ ptr[t] = NULL

(* Every call returns, unless memory runs out: the search from a stale head, *)
(* through objects that have moved to the other list meanwhile, comes to an  *)
(* end.                                                                      *)
CallsReturn ==
  \A t \in Threads :
    pc[t] \in {"free", "search", "link", "push"} ~> pc[t] = "idle" \/ Failed
=============================================================================
