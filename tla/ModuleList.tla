----------------------------- MODULE ModuleList -----------------------------
(***************************************************************************)
(* The global list of loadable modules of bitmap.c: head_node and cells    *)
(* {module, next} on the heap.  insmod calls add_module, rmmod calls       *)
(* remove_module, and get_module, increment_module_rc, decrement_module_rc *)
(* and get_vector walk the list.  Nothing in the code orders them: only    *)
(* the walks of IOCTL_SET and IOCTL_GET are under a mutex, which neither   *)
(* add_module nor remove_module takes.  One action is one access to the    *)
(* list, with the local work around it.                                    *)
(***************************************************************************)
EXTENDS Sequences, SequencesExt

CONSTANTS
  Module,   \* the loadable modules, each of a type of its own
  Reader,   \* the threads that look modules up
  Node,     \* heap addresses of struct linked_list_module
  Hazards,  \* "writers": two insmod/rmmod overlap; "readers": a walk
            \* overlaps a removal; "oom": kmalloc returns NULL
  NULL

ASSUME ListAssumption ==
  /\ Module \cap Reader = {}
  /\ NULL \notin Node \cup Module
  /\ Hazards \subseteq {"writers", "readers", "oom"}

VARIABLES
  head_node,
  module, next,   \* the fields of the cell at an address
  used,           \* addresses allocated and not yet freed
  pc, curr, prev, \* control point and locals of each insmod/rmmod and walk
  new_node,       \* the cell add_module is linking
  want,           \* the module a walk looks for
  found,          \* what it returns
  order,          \* history: the modules linked and not unlinked, in order
  always, ever    \* history: modules registered all through / at some time
                  \* of a walk

heap    == <<module, next, used>>
walker  == <<want, found>>
history == <<order, always, ever>>
vars == <<head_node, heap, pc, curr, prev, new_node, walker, history>>

Actor == Module \cup Reader
Adding   == {"test", "first", "walk", "link"}
Removing == {"seek", "unlink", "kfree"}
Goto(x, l) == pc' = [pc EXCEPT ![x] = l]
Registered == ToSet(order)

(* insmod or rmmod of m may begin.                                         *)
WritersQuiet ==
  "writers" \in Hazards \/ \A m \in Module : pc[m] \notin Adding \cup Removing

(***************************************************************************)
(* add_module, bitmap.c:74-106.                                            *)
(***************************************************************************)
(* Lines 79-90: the walk's start is read before kmalloc, and the cell is   *)
(* filled in without a look at whether kmalloc returned one.               *)
AddModule(m) ==
  /\ pc[m] = "out" /\ WritersQuiet
  /\ curr' = [curr EXCEPT ![m] = head_node]
  /\ prev' = [prev EXCEPT ![m] = NULL]
  /\ \/ \E n \in Node \ used :
          /\ used' = used \cup {n}
          /\ module' = [module EXCEPT ![n] = m]
          /\ next' = [next EXCEPT ![n] = NULL]
          /\ new_node' = [new_node EXCEPT ![m] = n]
          /\ Goto(m, "test")
     \/ /\ "oom" \in Hazards
        /\ Goto(m, "oops")
        /\ UNCHANGED <<heap, new_node>>
  /\ UNCHANGED <<head_node, walker, history>>

(* if (head_node == NULL): line 92.                                        *)
TestEmpty(m) ==
  /\ pc[m] = "test"
  /\ Goto(m, IF head_node = NULL THEN "first" ELSE "walk")
  /\ UNCHANGED <<head_node, heap, curr, prev, new_node, walker, history>>

(* m becomes visible to walks that get as far as its cell.                 *)
Register(m) ==
  /\ order' = Append(order, m)
  /\ ever' = [r \in Reader |-> ever[r] \cup {m}]
  /\ UNCHANGED always

(* m is gone from the list.                                                *)
Deregister(m) ==
  /\ order' = RemoveFirst(order, m)
  /\ always' = [r \in Reader |-> always[r] \ {m}]
  /\ UNCHANGED ever

(* head_node = new_node: line 94.                                          *)
LinkFirst(m) ==
  /\ pc[m] = "first"
  /\ head_node' = new_node[m]
  /\ Register(m)
  /\ Goto(m, "in")
  /\ UNCHANGED <<heap, curr, prev, new_node, walker>>

(* Lines 98-102.                                                           *)
WalkToTail(m) ==
  /\ pc[m] = "walk" /\ curr[m] \in used \cup {NULL}
  /\ IF curr[m] = NULL
     THEN Goto(m, "link") /\ UNCHANGED <<curr, prev>>
     ELSE /\ prev' = [prev EXCEPT ![m] = curr[m]]
          /\ curr' = [curr EXCEPT ![m] = next[curr[m]]]
          /\ UNCHANGED pc
  /\ UNCHANGED <<head_node, heap, new_node, walker, history>>

(* Bad form of LinkLast: the new cell replaces the list.                   *)
LinkLast_Overwrites(m) ==
  /\ pc[m] = "link" /\ prev[m] \in used
  /\ head_node' = new_node[m]
  /\ Register(m)
  /\ Goto(m, "in")
  /\ UNCHANGED <<heap, curr, prev, new_node, walker>>

(* prev->next = new_node: line 103.                                        *)
LinkLast(m) ==
  /\ pc[m] = "link" /\ prev[m] \in used
  /\ next' = [next EXCEPT ![prev[m]] = new_node[m]]
  /\ Register(m)
  /\ Goto(m, "in")
  /\ UNCHANGED <<head_node, module, used, curr, prev, new_node, walker>>

(***************************************************************************)
(* remove_module, bitmap.c:108-134.                                        *)
(***************************************************************************)
RemoveModule(m) ==
  /\ pc[m] = "in" /\ WritersQuiet
  /\ "readers" \in Hazards \/ \A r \in Reader : pc[r] # "look"
  /\ prev' = [prev EXCEPT ![m] = NULL]
  /\ curr' = [curr EXCEPT ![m] = head_node]
  /\ Goto(m, "seek")
  /\ UNCHANGED <<head_node, heap, new_node, walker, history>>

(* Bad form of Seek: any cell but the module's own is taken.               *)
Seek_WrongCell(m) ==
  LET c == curr[m]
  IN /\ pc[m] = "seek" /\ c \in used \cup {NULL}
     /\ \/ /\ c = NULL
           /\ Goto(m, "out")
           /\ UNCHANGED <<curr, prev>>
        \/ /\ c # NULL /\ module[c] # m
           /\ Goto(m, "unlink")
           /\ UNCHANGED <<curr, prev>>
        \/ /\ c # NULL /\ module[c] = m
           /\ prev' = [prev EXCEPT ![m] = c]
           /\ curr' = [curr EXCEPT ![m] = next[c]]
           /\ UNCHANGED pc
     /\ UNCHANGED <<head_node, heap, new_node, walker, history>>

(* Lines 114-116 and 130-131: one turn of the loop.                        *)
Seek(m) ==
  LET c == curr[m]
  IN /\ pc[m] = "seek" /\ c \in used \cup {NULL}
     /\ \/ /\ c = NULL
           /\ Goto(m, "out")
           /\ UNCHANGED <<curr, prev>>
        \/ /\ c # NULL /\ module[c] = m
           /\ Goto(m, "unlink")
           /\ UNCHANGED <<curr, prev>>
        \/ /\ c # NULL /\ module[c] # m
           /\ prev' = [prev EXCEPT ![m] = c]
           /\ curr' = [curr EXCEPT ![m] = next[c]]
           /\ UNCHANGED pc
     /\ UNCHANGED <<head_node, heap, new_node, walker, history>>

(* Bad form of Unlink: the cell is freed where it is.                      *)
Unlink_Skipped(m) ==
  /\ pc[m] = "unlink"
  /\ Deregister(m)
  /\ Goto(m, "kfree")
  /\ UNCHANGED <<head_node, heap, curr, prev, new_node, walker>>

(* Lines 118-126.  The head is read again: it may not be the cell found.   *)
Unlink(m) ==
  /\ pc[m] = "unlink"
  /\ IF prev[m] # NULL
     THEN /\ prev[m] \in used
          /\ next' = [next EXCEPT ![prev[m]] = next[curr[m]]]
          /\ UNCHANGED head_node
     ELSE /\ head_node \in used
          /\ head_node' = next[head_node]
          /\ UNCHANGED next
  /\ Deregister(m)
  /\ Goto(m, "kfree")
  /\ UNCHANGED <<module, used, curr, prev, new_node, walker>>

(* Bad form of FreeNode: the cell is unlinked but not freed.               *)
FreeNode_Leaks(m) ==
  /\ pc[m] = "kfree"
  /\ Goto(m, "out")
  /\ UNCHANGED <<head_node, heap, curr, prev, new_node, walker, history>>

(* kfree(curr): line 127.                                                  *)
FreeNode(m) ==
  /\ pc[m] = "kfree"
  /\ used' = used \ {curr[m]}
  /\ Goto(m, "out")
  /\ UNCHANGED <<head_node, module, next, curr, prev, new_node, walker, history>>

(***************************************************************************)
(* A walk: get_module (bitmap.c:136-153), or the search that begins        *)
(* increment_module_rc and decrement_module_rc.                            *)
(***************************************************************************)
GetModule(r, m) ==
  /\ pc[r] = "idle"
  /\ "readers" \in Hazards \/ \A x \in Module : pc[x] \notin Removing
  /\ want' = [want EXCEPT ![r] = m]
  /\ curr' = [curr EXCEPT ![r] = head_node]
  /\ always' = [always EXCEPT ![r] = Registered]
  /\ ever' = [ever EXCEPT ![r] = Registered]
  /\ Goto(r, "look")
  /\ UNCHANGED <<head_node, heap, prev, new_node, found, order>>

(* Bad form of Look: the walk stops one cell short of the end.             *)
Look_StopsShort(r) ==
  LET c == curr[r]
      stop == c = NULL \/ next[c] = NULL
  IN /\ pc[r] = "look" /\ c \in used \cup {NULL}
     /\ IF stop \/ module[c] = want[r]
        THEN /\ found' = [found EXCEPT ![r] = IF stop THEN NULL ELSE module[c]]
             /\ Goto(r, "done")
             /\ UNCHANGED curr
        ELSE /\ curr' = [curr EXCEPT ![r] = next[c]]
             /\ UNCHANGED <<pc, found>>
     /\ UNCHANGED <<head_node, heap, prev, new_node, want, history>>

(* Bad form of Look: the cell is returned, not the module in it.           *)
Look_ReturnsCell(r) ==
  LET c == curr[r]
  IN /\ pc[r] = "look" /\ c \in used
     /\ found' = [found EXCEPT ![r] = c]
     /\ Goto(r, "done")
     /\ UNCHANGED <<head_node, heap, curr, prev, new_node, want, history>>

(* Lines 140-152: one turn of the loop, and the return after it.           *)
Look(r) ==
  LET c == curr[r]
  IN /\ pc[r] = "look" /\ c \in used \cup {NULL}
     /\ IF c = NULL \/ module[c] = want[r]
        THEN /\ found' = [found EXCEPT ![r] = IF c = NULL THEN NULL ELSE module[c]]
             /\ Goto(r, "done")
             /\ UNCHANGED curr
        ELSE /\ curr' = [curr EXCEPT ![r] = next[c]]
             /\ UNCHANGED <<pc, found>>
     /\ UNCHANGED <<head_node, heap, prev, new_node, want, history>>

(* The caller takes the result; its locals and its history go with it.     *)
Taken(r) ==
  /\ pc[r] = "done"
  /\ Goto(r, "idle")
  /\ want' = [want EXCEPT ![r] = NULL]
  /\ found' = [found EXCEPT ![r] = NULL]
  /\ curr' = [curr EXCEPT ![r] = NULL]
  /\ UNCHANGED <<head_node, heap, prev, new_node, history>>

(***************************************************************************)
(* An access through NULL or into a freed cell; the thread dies there.     *)
(***************************************************************************)
BadAccess(x) ==
  \/ pc[x] \in {"walk", "seek", "look"} /\ curr[x] \notin used \cup {NULL}
  \/ pc[x] = "link" /\ prev[x] \notin used
  \/ pc[x] = "unlink" /\ prev[x] # NULL /\ prev[x] \notin used
  \/ pc[x] = "unlink" /\ prev[x] = NULL /\ head_node \notin used

Oops(x) ==
  /\ BadAccess(x)
  /\ Goto(x, "oops")
  /\ UNCHANGED <<head_node, heap, curr, prev, new_node, walker, history>>

-----------------------------------------------------------------------------
Init ==
  /\ head_node = NULL
  /\ module = [n \in Node |-> NULL]
  /\ next = [n \in Node |-> NULL]
  /\ used = {}
  /\ pc = [x \in Actor |-> IF x \in Module THEN "out" ELSE "idle"]
  /\ curr = [x \in Actor |-> NULL]
  /\ prev = [m \in Module |-> NULL]
  /\ new_node = [m \in Module |-> NULL]
  /\ want = [r \in Reader |-> NULL]
  /\ found = [r \in Reader |-> NULL]
  /\ order = <<>>
  /\ always = [r \in Reader |-> {}]
  /\ ever = [r \in Reader |-> {}]

Insmod(m) == AddModule(m) \/ TestEmpty(m) \/ LinkFirst(m) \/ WalkToTail(m) \/ LinkLast(m)
Rmmod(m)  == RemoveModule(m) \/ Seek(m) \/ Unlink(m) \/ FreeNode(m)
Walk(r)   == (\E m \in Module : GetModule(r, m)) \/ Look(r) \/ Taken(r)

Next ==
  \/ \E m \in Module : Insmod(m) \/ Rmmod(m)
  \/ \E r \in Reader : Walk(r)
  \/ \E x \in Actor : Oops(x)

Spec == Init /\ [][Next]_vars

-----------------------------------------------------------------------------
(* Type invariant: the values of the heap, of the locals and of the        *)
(* history.                                                                *)
TypeOK ==
  /\ head_node \in Node \cup {NULL}
  /\ module \in [Node -> Module \cup {NULL}]
  /\ next \in [Node -> Node \cup {NULL}]
  /\ used \in SUBSET Node
  /\ pc \in [Actor -> Adding \cup Removing \cup {"out", "in", "oops", "idle", "look", "done"}]
  /\ curr \in [Actor -> Node \cup {NULL}]
  /\ prev \in [Module -> Node \cup {NULL}]
  /\ new_node \in [Module -> Node \cup {NULL}]
  /\ want \in [Reader -> Module \cup {NULL}]
  /\ found \in [Reader -> Module \cup {NULL}]
  /\ order \in Seq(Module)
  /\ always \in [Reader -> SUBSET Module]
  /\ ever \in [Reader -> SUBSET Module]

(* No walk, insmod or rmmod goes through NULL or into a freed cell.        *)
NoOops == \A x \in Actor : pc[x] # "oops"

(* c is a way through live cells from head_node to NULL.                   *)
IsChain(c) ==
  /\ ToSet(c) \subseteq used
  /\ head_node = IF c = <<>> THEN NULL ELSE c[1]
  /\ \A i \in DOMAIN c : next[c[i]] = IF i = Len(c) THEN NULL ELSE c[i + 1]

(* The list is the sequence of the modules registered, in the order in     *)
(* which they were, at every step of every insmod and rmmod: a module that *)
(* comes or goes takes no other with it.                                   *)
ListIsOrder ==
  \E c \in SeqOf(Node, Len(order)) :
    IsChain(c) /\ \A i \in DOMAIN c : module[c[i]] = order[i]

(* A lookup that succeeds returns a module that was in the list at some    *)
(* moment of the walk; one that fails looked for a module that was not in  *)
(* it all through.                                                         *)
LookupExact ==
  \A r \in Reader : pc[r] = "done" =>
    IF found[r] # NULL
    THEN found[r] = want[r] /\ want[r] \in ever[r]
    ELSE want[r] \notin always[r]

(* Every allocated cell names a module that still needs it: one that its   *)
(* insmod is adding with that very cell, one that is registered, or one    *)
(* that rmmod is removing.  That the cell of a registered module is also   *)
(* reached from head_node is ListIsOrder's part.                           *)
NoLeak ==
  \A n \in used :
    \E m \in Module :
      /\ module[n] = m
      /\ \/ pc[m] \in Adding /\ new_node[m] = n
         \/ pc[m] \in {"in"} \cup Removing

(* However the threads overlap, rmmod gives back to the heap only a cell   *)
(* that is allocated, and that is its own.                                 *)
NoDoubleFree ==
  \A m \in Module : pc[m] = "kfree" => curr[m] \in used /\ module[curr[m]] = m

(* What README says of the list: it keeps track of all modules loaded.     *)
TracksLoaded ==
  \A m \in Module : pc[m] = "in" =>
    \E n \in 0..Len(order) : \E c \in SeqOf(Node, n) :
      IsChain(c) /\ \E i \in DOMAIN c : module[c[i]] = m
=============================================================================
