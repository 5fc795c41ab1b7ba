----------------------------- MODULE KernelHeap -----------------------------
(***************************************************************************)
(* kmalloc and kfree as their callers see them, and the state every heap   *)
(* client shares.  memory.h declares a kernel heap; stubs.c, the only      *)
(* definition in the tree, makes kmalloc return NULL and kfree do nothing. *)
(* The model keeps both builds: every kmalloc may return NULL (the stub,   *)
(* or an exhausted heap), and one that succeeds returns an object no live  *)
(* pointer refers to.  The heap is the set of live objects.  Each          *)
(* allocation site draws from a pool of its own, so an object names what   *)
(* it is.                                                                  *)
(*                                                                         *)
(* fault is the first step that leaves defined C: a panic, a store         *)
(* through NULL, a use of freed memory, a copy past a buffer, a read of    *)
(* an uninitialised buffer.  The kernel halts there (panic loops forever,  *)
(* a page fault has no handler) or its behaviour is no longer defined, so  *)
(* no step follows one.                                                    *)
(***************************************************************************)
EXTENDS FiniteSets

CONSTANTS
  NULL,    \* the null pointer
  Blank    \* the contents of no object: a block or a struct nothing wrote

VARIABLES heap, fault

Faults == {"none", "panic", "null_store", "null_read", "use_after_free", "overrun", "uninit_read",
           "double_free"}

Running == fault = "none"

\* Before the first kmalloc: no live object, no fault.
HeapInit == heap = {} /\ fault = "none"

\* kmalloc(size): NULL, or the first free object of the site's pool.
kmalloc(h, pool) ==
  {NULL} \cup (IF pool \ h = {} THEN {} ELSE {CHOOSE o \in pool \ h : TRUE})

\* The heap after kmalloc returned p.
Granted(h, p) == IF p = NULL THEN h ELSE h \cup {p}

\* kfree(ptr): kfree(NULL) does nothing.
kfree(h, p) == h \ {p}

\* A kfree of a pointer that is not live: a double free or a wild free,
\* which corrupts any real allocator.
BadFree(h, p) == p # NULL /\ p \notin h

\* One kfree in a sequence of them: st.heap is the heap, st.double records
\* whether any of them freed a dead pointer.
FreeStep(st, p) == [st EXCEPT !.heap = kfree(@, p), !.double = @ \/ BadFree(st.heap, p)]

=============================================================================
