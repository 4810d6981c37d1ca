-------------------------- MODULE ModuleListProofs --------------------------
(***************************************************************************)
(* Proofs about ModuleList: types and frees whatever overlaps; that the    *)
(* list is what was registered, that nothing leaks, that lookups are exact *)
(* and that no access is bad, where insmods and rmmods do not overlap.     *)
(***************************************************************************)
EXTENDS ModuleList, SequenceTheorems, WellFoundedInduction, TLAPS

Busy == Adding \cup Removing

(***************************************************************************)
(* The inductive invariant.  c is the list: a sequence of cells.           *)
(***************************************************************************)
(* What rmmod has found is its own.                                        *)
Found ==
  \A m \in Module : pc[m] \in {"unlink", "kfree"} =>
    curr[m] \in used /\ module[curr[m]] = m

(* The i-th cell of the list, and NULL before and after it.                *)
At(c, i) == IF i \in 1 .. Len(c) THEN c[i] ELSE NULL

(* What the heap holds, read from head_node, is order, cell by cell.       *)
Chain(c) ==
  /\ Len(c) = Len(order)
  /\ head_node = At(c, 1)
  /\ \A i \in 1 .. Len(c) :
       /\ c[i] \in used
       /\ next[c[i]] = At(c, i + 1)
       /\ module[c[i]] = order[i]

(* No module is registered twice.                                          *)
Once == \A i, j \in 1 .. Len(order) : order[i] = order[j] => i = j

(* Each thread runs its own code, one insmod or rmmod at a time, and a     *)
(* module is in the list from the end of its insmod to the unlink.         *)
Kinds ==
  /\ \A m \in Module : pc[m] \in Busy \cup {"out", "in", "oops"}
  /\ \A r \in Reader : pc[r] \in {"idle", "look", "done", "oops"}
OneWriter == \A m1, m2 \in Module : pc[m1] \in Busy /\ pc[m2] \in Busy => m1 = m2
Listed ==
  \A m \in Module : pc[m] \in {"in", "seek", "unlink"} <=> m \in Registered

(* A cell being added is filled in.  No module has two cells.              *)
Fresh ==
  \A m \in Module : pc[m] \in Adding =>
    /\ new_node[m] \in used
    /\ module[new_node[m]] = m
    /\ next[new_node[m]] = NULL
Single == \A n1, n2 \in used : module[n1] = module[n2] => n1 = n2

(* prev and curr of m are the cells before and after the i-th gap.         *)
Between(c, i, m) == prev[m] = At(c, i) /\ curr[m] = At(c, i + 1)

(* Where insmod and rmmod of m have got to.                                *)
Place(c, m) ==
  /\ pc[m] = "test" => prev[m] = NULL /\ curr[m] = head_node
  /\ pc[m] = "first" => Len(c) = 0
  /\ pc[m] = "walk" => Len(c) # 0 /\ \E i \in 0 .. Len(c) : Between(c, i, m)
  /\ pc[m] = "link" => Len(c) # 0 /\ prev[m] = c[Len(c)]
  /\ pc[m] = "seek" =>
       \E i \in 0 .. Len(c) : Between(c, i, m) /\ \A j \in 1 .. i : order[j] # m
  /\ pc[m] = "unlink" =>
       \E i \in 0 .. Len(c) - 1 : Between(c, i, m) /\ order[i + 1] = m

(* The heap and its writers, for the list c.                               *)
Writers(c) ==
  /\ Chain(c) /\ Once
  /\ Kinds /\ OneWriter /\ Listed
  /\ Fresh /\ Single /\ NoLeak
  /\ Found /\ \A m \in Module : Place(c, m)

(* Where a walk of r has got to: it has passed only other modules.         *)
Looks(r) ==
  pc[r] = "look" =>
    /\ always[r] \subseteq Registered /\ Registered \subseteq ever[r]
    /\ \A m \in Module : pc[m] \notin Removing
    /\ \/ curr[r] = NULL /\ want[r] \notin always[r]
       \/ /\ curr[r] \in used
          /\ \E i \in 1 .. Len(order) :
               /\ module[curr[r]] = order[i]
               /\ \A j \in 1 .. i - 1 : order[j] # want[r]

Walking == LookupExact /\ \A r \in Reader : Looks(r)

-----------------------------------------------------------------------------
(***************************************************************************)
(* Sequences.                                                              *)
(***************************************************************************)
LEMMA RemoveFirstIs ==
  ASSUME NEW S, NEW s \in Seq(S), NEW i \in 1 .. Len(s), NEW m,
         \A j \in 1 .. Len(s) : s[j] = m <=> j = i
  PROVE  RemoveFirst(s, m) = RemoveAt(s, i)
<1>1. {j \in 1 .. Len(s) : s[j] = m} = {i}
  OBVIOUS
<1>2. Min({i}) = i
  <2>1. Len(s) \in Nat
    BY LenProperties
  <2> QED
    BY <2>1 DEF Min
<1>3. SelectInSeq(s, LAMBDA v : v = m) = i
  BY <1>1, <1>2 DEF SelectInSeq
<1> QED
  BY <1>3 DEF RemoveFirst

LEMMA RemoveAtIs ==
  ASSUME NEW S, NEW s \in Seq(S), NEW k \in 1 .. Len(s)
  PROVE  /\ RemoveAt(s, k) \in Seq(S)
         /\ Len(RemoveAt(s, k)) = Len(s) - 1
         /\ \A i \in 1 .. Len(s) - 1 :
              RemoveAt(s, k)[i] = IF i < k THEN s[i] ELSE s[i + 1]
<1> DEFINE a == SubSeq(s, 1, k - 1)
           b == SubSeq(s, k + 1, Len(s))
<1>1. Len(s) \in Nat /\ \A i \in 1 .. Len(s) : s[i] \in S
  BY LenProperties
<1>2. /\ a \in Seq(S) /\ Len(a) = k - 1
      /\ \A i \in 1 .. k - 1 : a[i] = s[i]
  BY <1>1, SubSeqProperties
<1>3. /\ b \in Seq(S) /\ Len(b) = Len(s) - k
      /\ \A i \in 1 .. Len(s) - k : b[i] = s[k + i]
  BY <1>1, SubSeqProperties
<1>4. RemoveAt(s, k) = a \o b
  BY DEF RemoveAt
<1> HIDE DEF a, b
<1>5. /\ a \o b \in Seq(S) /\ Len(a \o b) = Len(s) - 1
      /\ \A i \in 1 .. Len(s) - 1 : (a \o b)[i] = IF i <= k - 1 THEN a[i] ELSE b[i - (k - 1)]
  BY <1>1, <1>2, <1>3, ConcatProperties
<1>6. ASSUME NEW i \in 1 .. Len(s) - 1
      PROVE  (a \o b)[i] = IF i < k THEN s[i] ELSE s[i + 1]
  <2>1. CASE i < k
    BY <2>1, <1>1, <1>2, <1>5
  <2>2. CASE ~(i < k)
    <3>1. PICK j \in 1 .. Len(s) - k : j = i - (k - 1) /\ k + j = i + 1
      BY <2>2, <1>1
    <3>2. b[j] = s[i + 1]
      BY <3>1, <1>3
    <3>3. (a \o b)[i] = b[j]
      BY <3>1, <2>2, <1>1, <1>5
    <3> QED
      BY <3>2, <3>3, <2>2
  <2> QED
    BY <2>1, <2>2
<1> QED
  BY <1>4, <1>5, <1>6

LEMMA RegisteredIs ==
  ASSUME order \in Seq(Module)
  PROVE  /\ \A m : m \in Registered <=> \E i \in 1 .. Len(order) : order[i] = m
         /\ Registered \subseteq Module
         /\ Len(order) \in Nat
BY LenProperties DEF Registered, ToSet

LEMMA RegisterIs ==
  ASSUME order \in Seq(Module), NEW m \in Module, order' = Append(order, m)
  PROVE  Registered' = Registered \cup {m}
<1>1. order' \in Seq(Module) /\ Len(order') = Len(order) + 1
  BY AppendProperties
<1>2. order'[Len(order) + 1] = m /\ \A i \in 1 .. Len(order) : order'[i] = order[i]
  BY AppendProperties
<1>3. Len(order) \in Nat /\ DOMAIN order = 1 .. Len(order) /\ DOMAIN order' = 1 .. Len(order')
  BY <1>1, LenProperties
<1>4. 1 .. Len(order') = 1 .. Len(order) \cup {Len(order) + 1}
  BY <1>1, <1>3
<1> QED
  BY <1>2, <1>3, <1>4 DEF Registered, ToSet

-----------------------------------------------------------------------------
(***************************************************************************)
(* Types.                                                                  *)
(***************************************************************************)
LEMMA LeastElement ==
  ASSUME NEW I \in SUBSET Nat, I # {}
  PROVE  \E x \in I : \A y \in I : x <= y
<1>1. PICK x \in I : \A y \in I : ~(<<y, x>> \in OpToRel(<, Nat))
  BY NatLessThanWellFounded, WFMin
<1>2. \A y \in I : ~(y < x)
  BY <1>1 DEF OpToRel
<1> QED
  BY <1>2

LEMMA RemoveFirstType ==
  ASSUME NEW S, NEW s \in Seq(S), NEW m
  PROVE  RemoveFirst(s, m) \in Seq(S)
<1>1. CASE \E i \in 1 .. Len(s) : s[i] = m
  <2> DEFINE I == {i \in 1 .. Len(s) : s[i] = m}
  <2>1. I # {} /\ I \subseteq 1 .. Len(s)
    BY <1>1
  <2>2. Len(s) \in Nat
    BY LenProperties
  <2>3. Min(I) \in I
    <3>1. I \subseteq Nat
      BY <2>2
    <3>2. \E x \in I : \A y \in I : x <= y
      BY <2>1, <3>1, LeastElement
    <3> HIDE DEF I
    <3> QED
      BY <3>2 DEF Min
  <2>4. RemoveFirst(s, m) = RemoveAt(s, Min(I))
    <3>1. SelectInSeq(s, LAMBDA v : v = m) = Min(I)
      BY <2>1 DEF SelectInSeq
    <3> HIDE DEF I
    <3> QED
      BY <3>1, <1>1 DEF RemoveFirst
  <2> HIDE DEF I
  <2> QED
    BY <2>1, <2>3, <2>4, RemoveAtIs
<1>2. CASE ~\E i \in 1 .. Len(s) : s[i] = m
  BY <1>2 DEF RemoveFirst
<1> QED
  BY <1>1, <1>2

LEMMA TypeInit == Init => TypeOK
BY EmptySeq DEF Init, TypeOK, Actor, Adding, Removing

LEMMA TypeInsmod ==
  ASSUME TypeOK, NEW m \in Module, Insmod(m)
  PROVE  TypeOK'
<1> USE DEF Actor, Goto, walker, heap, history
<1>1. CASE AddModule(m)
  <2>1. curr' \in [Actor -> Node \cup {NULL}] /\ prev' \in [Module -> Node \cup {NULL}]
    BY <1>1 DEF AddModule, TypeOK
  <2>2. /\ module' \in [Node -> Module \cup {NULL}]
        /\ next' \in [Node -> Node \cup {NULL}]
        /\ used' \in SUBSET Node
        /\ new_node' \in [Module -> Node \cup {NULL}]
    BY <1>1, SMTT(30) DEF AddModule, TypeOK
  <2>3. \E l \in {"test", "oops"} : pc' = [pc EXCEPT ![m] = l]
    BY <1>1 DEF AddModule
  <2>4. pc' \in [Actor -> Adding \cup Removing \cup {"out", "in", "oops", "idle", "look", "done"}]
    BY <2>3 DEF TypeOK, Adding
  <2> QED
    BY <1>1, <2>1, <2>2, <2>4 DEF AddModule, TypeOK
<1>2. CASE TestEmpty(m)
  BY <1>2 DEF TestEmpty, TypeOK, Adding
<1>3. CASE LinkFirst(m)
  <2>1. order' \in Seq(Module)
    BY <1>3, AppendProperties DEF LinkFirst, Register, TypeOK
  <2> QED
    BY <1>3, <2>1 DEF LinkFirst, Register, TypeOK
<1>4. CASE WalkToTail(m)
  BY <1>4, SMTT(30) DEF WalkToTail, TypeOK, Adding
<1>5. CASE LinkLast(m)
  <2>1. order' \in Seq(Module)
    BY <1>5, AppendProperties DEF LinkLast, Register, TypeOK
  <2> QED
    BY <1>5, <2>1 DEF LinkLast, Register, TypeOK
<1> QED
  BY <1>1, <1>2, <1>3, <1>4, <1>5 DEF Insmod

LEMMA TypeRmmod ==
  ASSUME TypeOK, Found, NEW m \in Module, Rmmod(m)
  PROVE  TypeOK'
<1> USE DEF Actor, Goto, walker, heap, history
<1>1. CASE RemoveModule(m)
  BY <1>1 DEF RemoveModule, TypeOK, Removing
<1>2. CASE Seek(m)
  BY <1>2, ZenonT(40) DEF Seek, TypeOK, Removing
<1>3. CASE Unlink(m)
  <2>1. order' \in Seq(Module)
    BY <1>3, RemoveFirstType DEF Unlink, Deregister, TypeOK
  <2>2. next' \in [Node -> Node \cup {NULL}] /\ head_node' \in Node \cup {NULL}
    <3>1. curr[m] \in Node
      BY <1>3 DEF Unlink, Found, TypeOK
    <3>2. CASE prev[m] # NULL
      <4>1. prev[m] \in Node /\ next' = [next EXCEPT ![prev[m]] = next[curr[m]]] /\ head_node' = head_node
        BY <1>3, <3>2 DEF Unlink, TypeOK
      <4>2. next[curr[m]] \in Node \cup {NULL}
        BY <3>1 DEF TypeOK
      <4> QED
        BY <4>1, <4>2 DEF TypeOK
    <3>3. CASE prev[m] = NULL
      BY <1>3, <3>3 DEF Unlink, TypeOK
    <3> QED
      BY <3>2, <3>3
  <2> QED
    BY <1>3, <2>1, <2>2 DEF Unlink, Deregister, TypeOK, Removing
<1>4. CASE FreeNode(m)
  BY <1>4 DEF FreeNode, TypeOK
<1> QED
  BY <1>1, <1>2, <1>3, <1>4 DEF Rmmod

LEMMA TypeWalk ==
  ASSUME TypeOK, NEW r \in Reader, Walk(r)
  PROVE  TypeOK'
<1> USE DEF Actor, Goto, walker, heap, history
<1>1. ASSUME NEW m \in Module, GetModule(r, m)
      PROVE  TypeOK'
  <2>1. Registered \subseteq Module
    BY RegisteredIs DEF TypeOK
  <2> QED
    BY <1>1, <2>1 DEF GetModule, TypeOK
<1>2. CASE Look(r)
  BY <1>2 DEF Look, TypeOK
<1>3. CASE Taken(r)
  BY <1>3 DEF Taken, TypeOK
<1> QED
  BY <1>1, <1>2, <1>3 DEF Walk

LEMMA TypeNext == TypeOK /\ Found /\ [Next]_vars => TypeOK'
<1> SUFFICES ASSUME TypeOK, Found, [Next]_vars
             PROVE  TypeOK'
  OBVIOUS
<1>1. ASSUME NEW x \in Actor, Oops(x)
      PROVE  TypeOK'
  BY <1>1 DEF Oops, Goto, TypeOK, heap, walker, history
<1>2. CASE UNCHANGED vars
  BY <1>2 DEF vars, heap, walker, history, TypeOK
<1> QED
  BY <1>1, <1>2, TypeInsmod, TypeRmmod, TypeWalk DEF Next

(***************************************************************************)
(* Frees.                                                                  *)
(***************************************************************************)
LEMMA FoundInsmod ==
  ASSUME TypeOK, Found, NEW m \in Module, Insmod(m)
  PROVE  Found'
<1> USE DEF Actor, Goto, walker, heap, history
<1> SUFFICES ASSUME NEW x \in Module, pc'[x] \in {"unlink", "kfree"}
             PROVE  curr'[x] \in used' /\ module'[curr'[x]] = x
  BY DEF Found
<1>1. PICK l \in Adding \cup {"in", "oops"} : pc' = [pc EXCEPT ![m] = l]
  BY DEF Insmod, AddModule, TestEmpty, LinkFirst, WalkToTail, LinkLast, Adding, TypeOK
<1>2. x # m /\ pc[x] \in {"unlink", "kfree"}
  BY <1>1 DEF TypeOK, Adding
<1>3. curr[x] \in used /\ module[curr[x]] = x /\ curr[x] \in Node
  BY <1>2 DEF Found, TypeOK
<1>4. curr'[x] = curr[x]
  BY <1>2 DEF Insmod, AddModule, TestEmpty, LinkFirst, WalkToTail, LinkLast, TypeOK
<1>5. used \subseteq used' /\ \A n \in used : module'[n] = module[n]
  BY DEF Insmod, AddModule, TestEmpty, LinkFirst, WalkToTail, LinkLast, TypeOK
<1> QED
  BY <1>3, <1>4, <1>5

LEMMA FoundRmmod ==
  ASSUME TypeOK, Found, NEW m \in Module, Rmmod(m)
  PROVE  Found'
<1> USE DEF Actor, Goto, walker, heap, history
<1> SUFFICES ASSUME NEW x \in Module, pc'[x] \in {"unlink", "kfree"}
             PROVE  curr'[x] \in used' /\ module'[curr'[x]] = x
  BY DEF Found
<1>1. module' = module
  BY DEF Rmmod, RemoveModule, Seek, Unlink, FreeNode
<1>2. CASE x # m
  <2>1. pc'[x] = pc[x] /\ curr'[x] = curr[x]
    BY <1>2 DEF Rmmod, RemoveModule, Seek, Unlink, FreeNode, TypeOK
  <2>2. curr[x] \in used /\ module[curr[x]] = x
    BY <2>1 DEF Found
  <2>3. CASE FreeNode(m)
    <3>1. module[curr[m]] = m /\ used' = used \ {curr[m]}
      BY <2>3 DEF FreeNode, Found
    <3> QED
      BY <1>1, <1>2, <2>1, <2>2, <3>1
  <2>4. CASE ~FreeNode(m)
    <3>1. used' = used
      BY <2>4 DEF Rmmod, RemoveModule, Seek, Unlink
    <3> QED
      BY <1>1, <2>1, <2>2, <3>1
  <2> QED
    BY <2>3, <2>4
<1>3. CASE x = m
  <2>1. CASE Seek(m)
    BY <2>1, <1>3 DEF Seek, TypeOK
  <2>2. CASE Unlink(m)
    BY <2>2, <1>3 DEF Unlink, Found
  <2>3. CASE RemoveModule(m) \/ FreeNode(m)
    BY <2>3, <1>3 DEF RemoveModule, FreeNode, TypeOK
  <2> QED
    BY <2>1, <2>2, <2>3 DEF Rmmod
<1> QED
  BY <1>2, <1>3

LEMMA FoundWalk ==
  ASSUME TypeOK, Found, NEW r \in Reader, Walk(r)
  PROVE  Found'
<1> USE DEF Actor, Goto, walker, heap, history
<1>1. used' = used /\ module' = module
  BY DEF Walk, GetModule, Look, Taken
<1>2. \A x \in Module : pc'[x] = pc[x] /\ curr'[x] = curr[x]
  BY ListAssumption DEF Walk, GetModule, Look, Taken, TypeOK
<1> QED
  BY <1>1, <1>2 DEF Found

LEMMA FoundNext == TypeOK /\ Found /\ [Next]_vars => Found'
<1> SUFFICES ASSUME TypeOK, Found, [Next]_vars
             PROVE  Found'
  OBVIOUS
<1>1. ASSUME NEW x \in Actor, Oops(x)
      PROVE  Found'
  BY <1>1 DEF Oops, Goto, Found, TypeOK, heap, walker, history
<1>2. CASE UNCHANGED vars
  BY <1>2 DEF vars, heap, walker, history, Found
<1> QED
  BY <1>1, <1>2, FoundInsmod, FoundRmmod, FoundWalk DEF Next

LEMMA SoundAlways == Spec => [](TypeOK /\ Found)
<1>1. Init => Found
  BY DEF Init, Found, Actor
<1> QED
  BY <1>1, TypeInit, TypeNext, FoundNext, PTL DEF Spec

(* Heap, locals and history keep their types, whatever overlaps.           *)
THEOREM TypeCorrect == Spec => []TypeOK
BY SoundAlways, PTL

(* Whatever insmods, rmmods, walks and failed allocations overlap, rmmod   *)
(* frees an allocated cell, and its own.                                   *)
THEOREM NoDoubleFreeAlways == Spec => []NoDoubleFree
<1>1. Found => NoDoubleFree
  BY DEF Found, NoDoubleFree
<1> QED
  BY <1>1, SoundAlways, PTL

-----------------------------------------------------------------------------
(***************************************************************************)
(* The list, its heap and its writers.                                     *)
(***************************************************************************)
LEMMA Cells ==
  ASSUME TypeOK, NEW c \in Seq(Node)
  PROVE  /\ Len(c) \in Nat
         /\ \A i \in 1 .. Len(c) : c[i] \in Node /\ c[i] # NULL /\ At(c, i) = c[i]
         /\ \A i : i \notin 1 .. Len(c) => At(c, i) = NULL
BY LenProperties, ListAssumption DEF At

(* Only m is between the beginning and the end of an insmod or rmmod.      *)
LEMMA Alone ==
  ASSUME NEW c, Writers(c), "writers" \notin Hazards,
         NEW m \in Module, Insmod(m) \/ Rmmod(m)
  PROVE  \A x \in Module \ {m} : pc[x] \notin Busy
<1>1. CASE pc[m] \in Busy
  BY <1>1 DEF Writers, OneWriter
<1>2. CASE pc[m] \notin Busy
  <2>1. WritersQuiet
    BY <1>2 DEF Insmod, Rmmod, AddModule, TestEmpty, LinkFirst, WalkToTail, LinkLast,
                RemoveModule, Seek, Unlink, FreeNode, Busy, Adding, Removing
  <2> QED
    BY <2>1 DEF WritersQuiet, Busy
<1> QED
  BY <1>1, <1>2

(* What is left to show of a step of m to l when the others are idle.      *)
LEMMA Turn ==
  ASSUME TypeOK, Kinds, NEW m \in Module, NEW l \in Busy \cup {"out", "in", "oops"},
         pc' = [pc EXCEPT ![m] = l],
         \A x \in Module \ {m} : pc[x] \notin Busy
  PROVE  /\ Kinds' /\ OneWriter'
         /\ pc'[m] = l
         /\ \A x \in Module \ {m} : pc'[x] = pc[x] /\ pc'[x] \notin Busy
         /\ \A r \in Reader : pc'[r] = pc[r]
<1>1. pc'[m] = l /\ \A x \in Actor \ {m} : pc'[x] = pc[x]
  BY DEF TypeOK, Actor
<1>2. \A r \in Reader : r \in Actor \ {m}
  BY ListAssumption DEF Actor
<1>3. \A x \in Module \ {m} : x \in Actor \ {m}
  BY DEF Actor
<1> QED
  BY <1>1, <1>2, <1>3 DEF Kinds, OneWriter

LEMMA Others ==
  ASSUME NEW d, NEW m \in Module,
         \A x \in Module \ {m} : pc'[x] \notin Busy,
         pc'[m] \in Adding =>
           new_node'[m] \in used' /\ module'[new_node'[m]] = m /\ next'[new_node'[m]] = NULL,
         Place(d, m)'
  PROVE  Fresh' /\ \A x \in Module : Place(d, x)'
<1>1. \A x \in Module \ {m} : Place(d, x)'
  BY DEF Place, Busy, Adding, Removing
<1> QED
  BY <1>1 DEF Fresh, Busy

LEMMA SameHeap ==
  ASSUME NEW c, Writers(c), UNCHANGED <<head_node, module, next, used, order>>
  PROVE  /\ Chain(c)' /\ Once' /\ Single'
         /\ Registered' = Registered
BY DEF Writers, Chain, Once, Single, Registered

(* No insmod or rmmod makes a bad access.                                  *)
LEMMA WritersNoOops ==
  ASSUME TypeOK, NEW c \in Seq(Node), Writers(c), NEW m \in Module
  PROVE  ~BadAccess(m)
<1>1. \A i : At(c, i) \in used \cup {NULL}
  BY Cells DEF Writers, Chain
<1>2. pc[m] # "look"
  BY DEF Writers, Kinds, Busy, Adding, Removing
<1>3. Place(c, m)
  BY DEF Writers
<1>4. pc[m] \in {"walk", "seek"} => curr[m] \in used \cup {NULL}
  BY <1>1, <1>3 DEF Place, Between
<1>5. pc[m] = "link" => prev[m] \in used
  BY <1>3, Cells DEF Place, Writers, Chain
<1>6. pc[m] = "unlink" => (prev[m] = NULL => head_node \in used) /\ (prev[m] # NULL => prev[m] \in used)
  <2> SUFFICES ASSUME pc[m] = "unlink"
               PROVE  (prev[m] = NULL => head_node \in used) /\ (prev[m] # NULL => prev[m] \in used)
    OBVIOUS
  <2>1. PICK i \in 0 .. Len(c) - 1 : prev[m] = At(c, i)
    BY <1>3 DEF Place, Between
  <2>2. i + 1 \in 1 .. Len(c) /\ 1 \in 1 .. Len(c)
    BY Cells
  <2>3. head_node \in used
    BY <2>2, Cells DEF Writers, Chain
  <2> QED
    BY <1>1, <2>1, <2>3
<1> QED
  BY <1>2, <1>4, <1>5, <1>6 DEF BadAccess

LEMMA WritersAddModule ==
  ASSUME TypeOK, Found', NEW c \in Seq(Node), Writers(c), "writers" \notin Hazards,
         NEW m \in Module, AddModule(m)
  PROVE  Writers(c)'
<1> USE DEF Goto, walker, heap, history
<1>1. /\ pc[m] = "out"
      /\ UNCHANGED <<head_node, order>>
      /\ curr'[m] = head_node /\ prev'[m] = NULL
  BY DEF AddModule, TypeOK, Actor
<1>2. \A x \in Module \ {m} : pc[x] \notin Busy
  BY Alone DEF Insmod
<1>3. \A n \in used : module[n] # m
  BY <1>1 DEF Writers, NoLeak, Adding, Removing
<1>4. Chain(c) /\ Kinds /\ Listed /\ NoLeak /\ Single /\ Once
  BY DEF Writers
<1>5. Registered' = Registered /\ Once'
  BY <1>1, <1>4 DEF Registered, Once
<1>6. ASSUME NEW n \in Node \ used,
             used' = used \cup {n},
             module' = [module EXCEPT ![n] = m],
             next' = [next EXCEPT ![n] = NULL],
             new_node' = [new_node EXCEPT ![m] = n],
             pc' = [pc EXCEPT ![m] = "test"]
      PROVE  Writers(c)'
  <2>1. /\ Kinds' /\ OneWriter' /\ pc'[m] = "test"
        /\ \A x \in Module \ {m} : pc'[x] = pc[x] /\ pc'[x] \notin Busy
    BY <1>2, <1>4, <1>6, Turn DEF Busy, Adding
  <2>2. /\ module'[n] = m /\ next'[n] = NULL /\ new_node'[m] = n
        /\ \A x \in used : module'[x] = module[x] /\ next'[x] = next[x]
        /\ \A x \in Module \ {m} : new_node'[x] = new_node[x]
    BY <1>6 DEF TypeOK
  <2>3. Chain(c)'
    BY <1>1, <1>4, <1>6, <2>2 DEF Chain
  <2>4. Single'
    BY <1>3, <1>4, <1>6, <2>2 DEF Single
  <2>5. Listed'
    BY <1>1, <1>4, <1>5, <2>1 DEF Listed
  <2>6. NoLeak'
    <3> SUFFICES ASSUME NEW x \in used'
                 PROVE  \E y \in Module :
                          /\ module'[x] = y
                          /\ \/ pc'[y] \in Adding /\ new_node'[y] = x
                             \/ pc'[y] \in {"in"} \cup Removing
      BY DEF NoLeak
    <3>1. CASE x = n
      BY <2>1, <2>2, <3>1 DEF Adding
    <3>2. CASE x \in used
      <4>1. PICK y \in Module :
                 /\ module[x] = y
                 /\ \/ pc[y] \in Adding /\ new_node[y] = x
                    \/ pc[y] \in {"in"} \cup Removing
        BY <3>2, <1>4 DEF NoLeak
      <4>2. y # m
        BY <1>3, <3>2, <4>1
      <4> QED
        BY <2>1, <2>2, <3>2, <4>1, <4>2
    <3> QED
      BY <1>6, <3>1, <3>2
  <2>7. Place(c, m)'
    BY <1>1, <2>1 DEF Place
  <2>8. Fresh' /\ \A x \in Module : Place(c, x)'
    <3>1. n \in used'
      BY <1>6
    <3> QED
      BY <2>1, <2>2, <2>7, <3>1, Others
  <2> QED
    BY <1>5, <2>1, <2>3, <2>4, <2>5, <2>6, <2>8 DEF Writers
<1>7. ASSUME UNCHANGED <<heap, new_node>>, pc' = [pc EXCEPT ![m] = "oops"]
      PROVE  Writers(c)'
  <2>1. /\ Kinds' /\ OneWriter' /\ pc'[m] = "oops"
        /\ \A x \in Module \ {m} : pc'[x] = pc[x] /\ pc'[x] \notin Busy
    BY <1>2, <1>4, <1>7, Turn
  <2>2. Chain(c)' /\ Single'
    BY <1>1, <1>7, SameHeap
  <2>3. Listed'
    BY <1>1, <1>4, <1>5, <2>1 DEF Listed
  <2>4. NoLeak'
    BY <1>1, <1>4, <1>7, <2>1 DEF NoLeak, Adding, Removing
  <2>5. Fresh' /\ \A x \in Module : Place(c, x)'
    BY <2>1, Others DEF Place, Adding
  <2> QED
    BY <1>5, <2>1, <2>2, <2>3, <2>4, <2>5 DEF Writers
<1> QED
  BY <1>6, <1>7 DEF AddModule

LEMMA WritersTestEmpty ==
  ASSUME TypeOK, Found', NEW c \in Seq(Node), Writers(c), "writers" \notin Hazards,
         NEW m \in Module, TestEmpty(m)
  PROVE  Writers(c)'
<1> USE DEF Goto, walker, heap, history
<1>1. /\ pc[m] = "test"
      /\ UNCHANGED <<head_node, module, next, used, order, curr, prev, new_node>>
  BY DEF TestEmpty
<1>2. \A x \in Module \ {m} : pc[x] \notin Busy
  BY Alone DEF Insmod
<1>3. Chain(c) /\ Kinds /\ Listed /\ NoLeak /\ Fresh /\ Place(c, m)
  BY DEF Writers
<1>4. PICK l \in {"first", "walk"} :
           pc' = [pc EXCEPT ![m] = l] /\ (l = "first" <=> head_node = NULL)
  BY DEF TestEmpty
<1>5. /\ Kinds' /\ OneWriter' /\ pc'[m] = l
      /\ \A x \in Module \ {m} : pc'[x] = pc[x] /\ pc'[x] \notin Busy
  BY <1>2, <1>3, <1>4, Turn DEF Busy, Adding
<1>6. Chain(c)' /\ Once' /\ Single' /\ Registered' = Registered
  BY <1>1, SameHeap
<1>7. Listed'
  BY <1>1, <1>3, <1>5, <1>6 DEF Listed
<1>8. NoLeak'
  BY <1>1, <1>3, <1>5 DEF NoLeak, Adding, Removing
<1>9. Place(c, m)'
  <2>1. head_node = At(c, 1) /\ prev[m] = NULL /\ curr[m] = head_node
    BY <1>1, <1>3 DEF Chain, Place
  <2>2. Len(c) \in Nat /\ (Len(c) # 0 => head_node # NULL) /\ (Len(c) = 0 => head_node = NULL)
    BY <2>1, Cells
  <2>3. Between(c, 0, m)'
    <3>1. At(c, 0) = NULL /\ At(c, 0 + 1) = At(c, 1)
      BY Cells
    <3> QED
      BY <1>1, <2>1, <3>1 DEF Between
  <2>4. 0 \in 0 .. Len(c)
    BY <2>2
  <2> QED
    BY <1>4, <1>5, <2>2, <2>3, <2>4 DEF Place
<1>10. Fresh' /\ \A x \in Module : Place(c, x)'
  <2>1. /\ new_node'[m] \in used' /\ module'[new_node'[m]] = m
        /\ next'[new_node'[m]] = NULL
    BY <1>1, <1>3 DEF Fresh, Adding
  <2> QED
    BY <1>5, <1>9, <2>1, Others
<1> QED
  BY <1>5, <1>6, <1>7, <1>8, <1>10 DEF Writers

LEMMA WritersWalkToTail ==
  ASSUME TypeOK, Found', NEW c \in Seq(Node), Writers(c), "writers" \notin Hazards,
         NEW m \in Module, WalkToTail(m)
  PROVE  Writers(c)'
<1> USE DEF Goto, walker, heap, history
<1>1. /\ pc[m] = "walk"
      /\ UNCHANGED <<head_node, module, next, used, order, new_node>>
  BY DEF WalkToTail
<1>2. \A x \in Module \ {m} : pc[x] \notin Busy
  BY Alone DEF Insmod
<1>3. Chain(c) /\ Kinds /\ Listed /\ NoLeak /\ Fresh /\ Place(c, m)
  BY DEF Writers
<1>4. PICK l \in {"walk", "link"} :
           pc' = [pc EXCEPT ![m] = l] /\ (l = "link" <=> curr[m] = NULL)
  <2>1. pc = [pc EXCEPT ![m] = "walk"]
    BY <1>1 DEF TypeOK
  <2> QED
    BY <2>1 DEF WalkToTail
<1>5. /\ Kinds' /\ OneWriter' /\ pc'[m] = l
      /\ \A x \in Module \ {m} : pc'[x] = pc[x] /\ pc'[x] \notin Busy
  BY <1>2, <1>3, <1>4, Turn DEF Busy, Adding
<1>6. Chain(c)' /\ Once' /\ Single' /\ Registered' = Registered
  BY <1>1, SameHeap
<1>7. Listed'
  BY <1>1, <1>3, <1>5, <1>6 DEF Listed
<1>8. NoLeak'
  BY <1>1, <1>3, <1>5 DEF NoLeak, Adding, Removing
<1>9. Place(c, m)'
  <2>1. PICK i \in 0 .. Len(c) : prev[m] = At(c, i) /\ curr[m] = At(c, i + 1)
    BY <1>1, <1>3 DEF Place, Between
  <2>2. Len(c) \in Nat /\ Len(c) # 0
    BY <1>1, <1>3, Cells DEF Place
  <2>3. CASE curr[m] = NULL
    <3>1. i + 1 \notin 1 .. Len(c)
      BY <2>1, <2>3, Cells
    <3>2. i = Len(c) /\ i \in 1 .. Len(c)
      BY <2>2, <3>1
    <3>3. prev'[m] = c[Len(c)]
      BY <2>1, <2>3, <3>2, Cells DEF WalkToTail
    <3> QED
      BY <1>4, <1>5, <2>2, <2>3, <3>3 DEF Place
  <2>4. CASE curr[m] # NULL
    <3>1. i + 1 \in 1 .. Len(c)
      BY <2>1, <2>4, Cells
    <3>2. curr[m] = c[i + 1] /\ next[curr[m]] = At(c, i + 1 + 1)
      BY <1>3, <2>1, <3>1, Cells DEF Chain
    <3>3. prev'[m] = curr[m] /\ curr'[m] = next[curr[m]]
      BY <2>4 DEF WalkToTail, TypeOK, Actor
    <3>4. Between(c, i + 1, m)'
      BY <2>1, <3>2, <3>3 DEF Between
    <3>5. i + 1 \in 0 .. Len(c)
      BY <3>1
    <3> QED
      BY <1>4, <1>5, <2>2, <2>4, <3>4, <3>5 DEF Place
  <2> QED
    BY <2>3, <2>4
<1>10. Fresh' /\ \A x \in Module : Place(c, x)'
  <2>1. /\ new_node'[m] \in used' /\ module'[new_node'[m]] = m
        /\ next'[new_node'[m]] = NULL
    BY <1>1, <1>3 DEF Fresh, Adding
  <2> QED
    BY <1>5, <1>9, <2>1, Others
<1> QED
  BY <1>5, <1>6, <1>7, <1>8, <1>10 DEF Writers

(* What both ways to link a cell have to show: the list is c and the cell. *)
LEMMA WritersLink ==
  ASSUME TypeOK, Found', NEW c \in Seq(Node), Writers(c), "writers" \notin Hazards,
         NEW m \in Module, LinkFirst(m) \/ LinkLast(m),
         NEW d, d = Append(c, new_node[m]),
         head_node' = At(d, 1),
         \A i \in 1 .. Len(d) : next'[d[i]] = At(d, i + 1)
  PROVE  d \in Seq(Node) /\ Writers(d)'
<1> USE DEF Goto, walker, heap, history
<1>1. /\ pc[m] \in Adding /\ pc' = [pc EXCEPT ![m] = "in"]
      /\ UNCHANGED <<module, used, curr, prev, new_node>>
      /\ order' = Append(order, m)
  BY DEF LinkFirst, LinkLast, Register, Adding
<1>2. \A x \in Module \ {m} : pc[x] \notin Busy
  BY Alone DEF Insmod
<1>3. Chain(c) /\ Kinds /\ Listed /\ NoLeak /\ Fresh /\ Single /\ Once
  BY DEF Writers
<1>4. /\ Kinds' /\ OneWriter' /\ pc'[m] = "in"
      /\ \A x \in Module \ {m} : pc'[x] = pc[x] /\ pc'[x] \notin Busy
  BY <1>1, <1>2, <1>3, Turn DEF Busy, Adding
<1>5. new_node[m] \in used /\ new_node[m] \in Node /\ module[new_node[m]] = m
  BY <1>1, <1>3 DEF Fresh, TypeOK
<1>6. /\ d \in Seq(Node) /\ Len(d) = Len(c) + 1 /\ d[Len(c) + 1] = new_node[m]
      /\ \A i \in 1 .. Len(c) : d[i] = c[i]
  BY <1>5, AppendProperties
<1>7. /\ Len(order') = Len(c) + 1 /\ order'[Len(c) + 1] = m
      /\ \A i \in 1 .. Len(c) : order'[i] = order[i]
  <2>1. order \in Seq(Module) /\ Len(order) = Len(c)
    BY <1>3 DEF TypeOK, Chain
  <2> QED
    BY <1>1, <2>1, AppendProperties
<1>8. Len(c) \in Nat /\ Len(order) = Len(c)
  BY <1>3, Cells DEF Chain
<1>9. m \notin Registered
  BY <1>1, <1>3 DEF Listed, Adding
<1>10. \A i \in 1 .. Len(c) : order[i] # m
  BY <1>8, <1>9, RegisteredIs DEF TypeOK
<1>11. Chain(d)'
  <2>1. ASSUME NEW i \in 1 .. Len(d)
        PROVE  d[i] \in used /\ module[d[i]] = order'[i]
    <3>1. CASE i \in 1 .. Len(c)
      BY <1>3, <1>6, <1>7, <3>1 DEF Chain
    <3>2. CASE i = Len(c) + 1
      BY <1>5, <1>6, <1>7, <3>2
    <3> QED
      BY <1>6, <1>8, <3>1, <3>2
  <2> QED
    BY <1>1, <1>6, <1>7, <2>1 DEF Chain
<1>12. Once'
  <2>1. ASSUME NEW i \in 1 .. Len(order'), NEW j \in 1 .. Len(order'), order'[i] = order'[j]
        PROVE  i = j
    <3>1. i \in 1 .. Len(c) \/ i = Len(c) + 1
      BY <1>7, <1>8
    <3>2. j \in 1 .. Len(c) \/ j = Len(c) + 1
      BY <1>7, <1>8
    <3>3. CASE i \in 1 .. Len(c) /\ j \in 1 .. Len(c)
      BY <1>3, <1>7, <1>8, <2>1, <3>3 DEF Once
    <3> QED
      BY <1>7, <1>10, <2>1, <3>1, <3>2, <3>3
  <2> QED
    BY <2>1 DEF Once
<1>13. Listed'
  <2>1. Registered' = Registered \cup {m}
    BY <1>1, RegisterIs DEF TypeOK
  <2> QED
    BY <1>3, <1>4, <2>1 DEF Listed
<1>14. NoLeak'
  BY <1>1, <1>3, <1>4 DEF NoLeak, Adding, Removing
<1>15. Single'
  BY <1>1, <1>3 DEF Single
<1>16. Fresh' /\ \A x \in Module : Place(d, x)'
  <2>1. Place(d, m)'
    BY <1>4 DEF Place
  <2>2. pc'[m] \notin Adding
    BY <1>4 DEF Adding
  <2> QED
    BY <1>4, <2>1, <2>2, Others
<1> QED
  BY <1>4, <1>6, <1>11, <1>12, <1>13, <1>14, <1>15, <1>16 DEF Writers

LEMMA WritersLinkFirst ==
  ASSUME TypeOK, Found', NEW c \in Seq(Node), Writers(c), "writers" \notin Hazards,
         NEW m \in Module, LinkFirst(m)
  PROVE  \E d \in Seq(Node) : Writers(d)'
<1> USE DEF Goto, walker, heap, history
<1> DEFINE d == Append(c, new_node[m])
<1>1. pc[m] = "first" /\ head_node' = new_node[m] /\ next' = next
  BY DEF LinkFirst
<1>2. /\ Len(c) = 0
      /\ new_node[m] \in Node /\ next[new_node[m]] = NULL
  BY <1>1 DEF Writers, Place, Fresh, Adding, TypeOK
<1>3. Len(d) = 1 /\ d[1] = new_node[m] /\ d \in Seq(Node)
  BY <1>2, AppendProperties
<1> HIDE DEF d
<1>4. At(d, 1) = new_node[m] /\ At(d, 1 + 1) = NULL
  BY <1>3 DEF At
<1>5. \A i \in 1 .. Len(d) : next'[d[i]] = At(d, i + 1)
  <2>1. \A i \in 1 .. Len(d) : i = 1
    BY <1>3
  <2> QED
    BY <1>1, <1>2, <1>3, <1>4, <2>1
<1>6. d = Append(c, new_node[m])
  BY DEF d
<1> QED
  BY <1>1, <1>4, <1>5, <1>6, WritersLink

LEMMA WritersLinkLast ==
  ASSUME TypeOK, Found', NEW c \in Seq(Node), Writers(c), "writers" \notin Hazards,
         NEW m \in Module, LinkLast(m)
  PROVE  \E d \in Seq(Node) : Writers(d)'
<1> USE DEF Goto, walker, heap, history
<1> DEFINE d == Append(c, new_node[m])
<1>1. /\ pc[m] = "link" /\ head_node' = head_node
      /\ next' = [next EXCEPT ![prev[m]] = new_node[m]]
  BY DEF LinkLast
<1>2. Chain(c) /\ Once /\ Listed
  BY DEF Writers
<1>3. /\ Len(c) # 0 /\ prev[m] = c[Len(c)]
      /\ new_node[m] \in Node /\ next[new_node[m]] = NULL /\ module[new_node[m]] = m
  BY <1>1 DEF Writers, Place, Fresh, Adding, TypeOK
<1>4. /\ Len(c) \in Nat /\ Len(order) = Len(c)
      /\ \A i \in 1 .. Len(c) : c[i] \in Node /\ module[c[i]] = order[i] /\ next[c[i]] = At(c, i + 1)
  BY <1>2, Cells DEF Chain
<1>5. \A i \in 1 .. Len(c) : order[i] # m
  BY <1>1, <1>2, <1>4, RegisteredIs DEF TypeOK, Listed
<1>6. new_node[m] # prev[m]
  BY <1>3, <1>4, <1>5
<1>7. \A i \in 1 .. Len(c) : c[i] = prev[m] => i = Len(c)
  BY <1>2, <1>3, <1>4 DEF Once
<1>8. /\ Len(d) = Len(c) + 1 /\ d[Len(c) + 1] = new_node[m] /\ d \in Seq(Node)
      /\ \A i \in 1 .. Len(c) : d[i] = c[i]
  BY <1>3, AppendProperties
<1> HIDE DEF d
<1>9. At(d, 1) = At(c, 1)
  BY <1>3, <1>4, <1>8 DEF At
<1>10. ASSUME NEW i \in 1 .. Len(d)
       PROVE  next'[d[i]] = At(d, i + 1)
  <2>1. CASE i = Len(c) + 1
    <3>1. At(d, i + 1) = NULL
      BY <1>4, <1>8, <2>1 DEF At
    <3>2. next'[new_node[m]] = next[new_node[m]]
      BY <1>1, <1>3, <1>6 DEF TypeOK
    <3> QED
      BY <1>3, <1>8, <2>1, <3>1, <3>2
  <2>2. CASE i = Len(c)
    <3>1. At(d, i + 1) = new_node[m]
      BY <1>4, <1>8, <2>2 DEF At
    <3>2. next'[prev[m]] = new_node[m]
      BY <1>1, <1>3, <1>4 DEF TypeOK
    <3> QED
      BY <1>3, <1>4, <1>8, <2>2, <3>1, <3>2
  <2>3. CASE i \in 1 .. Len(c) /\ i # Len(c)
    <3>1. c[i] # prev[m] /\ d[i] = c[i]
      BY <1>7, <1>8, <2>3
    <3>2. next'[c[i]] = next[c[i]]
      BY <1>1, <1>4, <2>3, <3>1 DEF TypeOK
    <3>3. i + 1 \in 1 .. Len(c) /\ i + 1 \in 1 .. Len(d)
      BY <1>4, <1>8, <2>3
    <3>4. At(d, i + 1) = At(c, i + 1)
      BY <1>8, <3>3 DEF At
    <3> QED
      BY <1>4, <2>3, <3>1, <3>2, <3>4
  <2> QED
    BY <1>4, <1>8, <2>1, <2>2, <2>3
<1>11. d = Append(c, new_node[m])
  BY DEF d
<1>12. head_node' = At(d, 1)
  BY <1>1, <1>2, <1>9 DEF Chain
<1> QED
  BY <1>10, <1>11, <1>12, WritersLink

LEMMA WritersRemoveModule ==
  ASSUME TypeOK, Found', NEW c \in Seq(Node), Writers(c), "writers" \notin Hazards,
         NEW m \in Module, RemoveModule(m)
  PROVE  Writers(c)'
<1> USE DEF Goto, walker, heap, history
<1>1. /\ pc[m] = "in" /\ pc' = [pc EXCEPT ![m] = "seek"]
      /\ UNCHANGED <<head_node, module, next, used, order, new_node>>
      /\ prev'[m] = NULL /\ curr'[m] = head_node
  BY DEF RemoveModule, TypeOK, Actor
<1>2. \A x \in Module \ {m} : pc[x] \notin Busy
  BY Alone DEF Rmmod
<1>3. Chain(c) /\ Kinds /\ Listed /\ NoLeak /\ Fresh /\ Place(c, m)
  BY DEF Writers
<1>4. /\ Kinds' /\ OneWriter' /\ pc'[m] = "seek"
      /\ \A x \in Module \ {m} : pc'[x] = pc[x] /\ pc'[x] \notin Busy
  BY <1>1, <1>2, <1>3, Turn DEF Busy, Removing
<1>5. Chain(c)' /\ Once' /\ Single' /\ Registered' = Registered
  BY <1>1, SameHeap
<1>6. Listed'
  BY <1>1, <1>3, <1>4, <1>5 DEF Listed
<1>7. NoLeak'
  BY <1>1, <1>3, <1>4 DEF NoLeak, Adding, Removing
<1>8. Place(c, m)'
  <2>1. At(c, 0) = NULL /\ At(c, 0 + 1) = head_node /\ 0 \in 0 .. Len(c)
    BY <1>3, Cells DEF Chain
  <2>2. Between(c, 0, m)'
    BY <1>1, <2>1 DEF Between
  <2> QED
    BY <1>4, <2>1, <2>2 DEF Place
<1>9. Fresh' /\ \A x \in Module : Place(c, x)'
  <2>1. pc'[m] \notin Adding
    BY <1>4 DEF Adding
  <2> QED
    BY <1>4, <1>8, <2>1, Others
<1> QED
  BY <1>4, <1>5, <1>6, <1>7, <1>9 DEF Writers

LEMMA WritersSeek ==
  ASSUME TypeOK, Found', NEW c \in Seq(Node), Writers(c), "writers" \notin Hazards,
         NEW m \in Module, Seek(m)
  PROVE  Writers(c)'
<1> USE DEF Goto, walker, heap, history
<1>1. /\ pc[m] = "seek"
      /\ UNCHANGED <<head_node, module, next, used, order, new_node>>
  BY DEF Seek
<1>2. \A x \in Module \ {m} : pc[x] \notin Busy
  BY Alone DEF Rmmod
<1>3. Chain(c) /\ Kinds /\ Listed /\ NoLeak /\ Fresh /\ Place(c, m)
  BY DEF Writers
<1>4. PICK i \in 0 .. Len(c) :
           /\ prev[m] = At(c, i) /\ curr[m] = At(c, i + 1)
           /\ \A j \in 1 .. i : order[j] # m
  BY <1>1, <1>3 DEF Place, Between
<1>5. /\ Len(c) \in Nat /\ Len(order) = Len(c)
      /\ \E k \in 1 .. Len(c) : order[k] = m
  BY <1>1, <1>3, Cells, RegisteredIs DEF TypeOK, Listed, Chain
<1>6. i + 1 \in 1 .. Len(c)
  BY <1>4, <1>5
<1>7. /\ curr[m] = c[i + 1] /\ curr[m] # NULL
      /\ next[curr[m]] = At(c, i + 1 + 1) /\ module[curr[m]] = order[i + 1]
  BY <1>3, <1>4, <1>6, Cells DEF Chain
<1>8. PICK l \in {"seek", "unlink"} :
           /\ pc' = [pc EXCEPT ![m] = l]
           /\ l = "unlink" => module[curr[m]] = m /\ UNCHANGED <<curr, prev>>
           /\ l = "seek" => /\ module[curr[m]] # m
                            /\ prev' = [prev EXCEPT ![m] = curr[m]]
                            /\ curr' = [curr EXCEPT ![m] = next[curr[m]]]
  <2>1. pc = [pc EXCEPT ![m] = "seek"]
    BY <1>1 DEF TypeOK
  <2> QED
    BY <1>7, <2>1 DEF Seek
<1>9. /\ Kinds' /\ OneWriter' /\ pc'[m] = l
      /\ \A x \in Module \ {m} : pc'[x] = pc[x] /\ pc'[x] \notin Busy
  BY <1>2, <1>3, <1>8, Turn DEF Busy, Removing
<1>10. Chain(c)' /\ Once' /\ Single' /\ Registered' = Registered
  BY <1>1, SameHeap
<1>11. Listed'
  BY <1>1, <1>3, <1>9, <1>10 DEF Listed
<1>12. NoLeak'
  BY <1>1, <1>3, <1>9 DEF NoLeak, Adding, Removing
<1>13. Place(c, m)'
  <2>1. CASE l = "unlink"
    <3>1. i \in 0 .. Len(c) - 1 /\ order[i + 1] = m
      BY <1>6, <1>7, <1>8, <2>1
    <3>2. Between(c, i, m)' /\ order'[i + 1] = m
      BY <1>1, <1>4, <1>8, <2>1, <3>1 DEF Between
    <3> QED
      BY <1>9, <2>1, <3>1, <3>2 DEF Place
  <2>2. CASE l = "seek"
    <3>1. prev'[m] = At(c, i + 1) /\ curr'[m] = At(c, i + 1 + 1)
      BY <1>6, <1>7, <1>8, <2>2, Cells DEF TypeOK, Actor
    <3>2. Between(c, i + 1, m)' /\ i + 1 \in 0 .. Len(c)
      BY <1>6, <3>1 DEF Between
    <3>3. \A j \in 1 .. i + 1 : order'[j] # m
      <4>1. order[i + 1] # m /\ \A j \in 1 .. i + 1 : j = i + 1 \/ j \in 1 .. i
        BY <1>7, <1>8, <2>2
      <4> QED
        BY <1>1, <1>4, <4>1
    <3> QED
      BY <1>9, <2>2, <3>2, <3>3 DEF Place
  <2> QED
    BY <2>1, <2>2
<1>14. Fresh' /\ \A x \in Module : Place(c, x)'
  <2>1. pc'[m] \notin Adding
    BY <1>9 DEF Adding
  <2> QED
    BY <1>9, <1>13, <2>1, Others
<1> QED
  BY <1>9, <1>10, <1>11, <1>12, <1>14 DEF Writers

LEMMA WritersFreeNode ==
  ASSUME TypeOK, Found', NEW c \in Seq(Node), Writers(c), "writers" \notin Hazards,
         NEW m \in Module, FreeNode(m)
  PROVE  Writers(c)'
<1> USE DEF Goto, walker, heap, history
<1>1. /\ pc[m] = "kfree" /\ pc' = [pc EXCEPT ![m] = "out"]
      /\ UNCHANGED <<head_node, module, next, order, new_node>>
      /\ used' = used \ {curr[m]}
  BY DEF FreeNode
<1>2. \A x \in Module \ {m} : pc[x] \notin Busy
  BY Alone DEF Rmmod
<1>3. Chain(c) /\ Once /\ Kinds /\ Listed /\ NoLeak /\ Fresh /\ Single
  BY DEF Writers
<1>4. curr[m] \in used /\ module[curr[m]] = m
  BY <1>1 DEF Writers, Found
<1>5. /\ Kinds' /\ OneWriter' /\ pc'[m] = "out"
      /\ \A x \in Module \ {m} : pc'[x] = pc[x] /\ pc'[x] \notin Busy
  BY <1>1, <1>2, <1>3, Turn
<1>6. Registered' = Registered /\ Once' /\ Single'
  BY <1>1, <1>3 DEF Registered, Once, Single
<1>7. Listed'
  BY <1>1, <1>3, <1>5, <1>6 DEF Listed
<1>8. Chain(c)'
  <2>1. m \notin Registered
    BY <1>1, <1>3 DEF Listed
  <2>2. \A i \in 1 .. Len(c) : order[i] # m
    BY <1>3, <2>1, RegisteredIs DEF TypeOK, Chain
  <2>3. \A i \in 1 .. Len(c) : c[i] \in used'
    BY <1>1, <1>3, <1>4, <2>2 DEF Chain
  <2> QED
    BY <1>1, <1>3, <2>3 DEF Chain
<1>9. NoLeak'
  <2> SUFFICES ASSUME NEW n \in used'
               PROVE  \E y \in Module :
                        /\ module'[n] = y
                        /\ \/ pc'[y] \in Adding /\ new_node'[y] = n
                           \/ pc'[y] \in {"in"} \cup Removing
    BY DEF NoLeak
  <2>1. n \in used /\ n # curr[m]
    BY <1>1
  <2>2. PICK y \in Module :
             /\ module[n] = y
             /\ \/ pc[y] \in Adding /\ new_node[y] = n
                \/ pc[y] \in {"in"} \cup Removing
    BY <1>3, <2>1 DEF NoLeak
  <2>3. y # m
    BY <1>3, <1>4, <2>1, <2>2 DEF Single
  <2> QED
    BY <1>1, <1>5, <2>2, <2>3
<1>10. Fresh' /\ \A x \in Module : Place(c, x)'
  <2>1. Place(c, m)'
    BY <1>5 DEF Place
  <2>2. pc'[m] \notin Adding
    BY <1>5 DEF Adding
  <2> QED
    BY <1>5, <2>1, <2>2, Others
<1> QED
  BY <1>5, <1>6, <1>7, <1>8, <1>9, <1>10 DEF Writers

(* The cell after the gap is cut out of the list.                          *)
LEMMA UnlinkCuts ==
  ASSUME TypeOK, NEW c \in Seq(Node), Writers(c), NEW m \in Module, Unlink(m)
  PROVE  \E k \in 1 .. Len(c) :
           /\ order[k] = m /\ curr[m] = c[k]
           /\ \A j \in 1 .. Len(c) : j # k => order[j] # m
           /\ head_node' = IF k = 1 THEN At(c, 2) ELSE At(c, 1)
           /\ \A j \in 1 .. Len(c) :
                next'[c[j]] = IF j + 1 = k THEN At(c, j + 2) ELSE At(c, j + 1)
<1>1. Chain(c) /\ Once /\ Place(c, m) /\ pc[m] = "unlink"
  BY DEF Writers, Unlink
<1>2. PICK i \in 0 .. Len(c) - 1 :
           prev[m] = At(c, i) /\ curr[m] = At(c, i + 1) /\ order[i + 1] = m
  BY <1>1 DEF Place, Between
<1>3. PICK k \in 1 .. Len(c) : k = i + 1 /\ i = k - 1
  BY Cells
<1>4. /\ Len(c) \in Nat /\ Len(order) = Len(c)
      /\ \A j \in 1 .. Len(c) : c[j] \in Node /\ c[j] # NULL /\ c[j] \in used
                               /\ module[c[j]] = order[j] /\ next[c[j]] = At(c, j + 1)
  BY <1>1, Cells DEF Chain
<1>5. order[k] = m /\ curr[m] = c[k] /\ next[curr[m]] = At(c, k + 1)
  BY <1>2, <1>3, <1>4, Cells
<1>6. \A j \in 1 .. Len(c) : j # k => order[j] # m
  BY <1>1, <1>4, <1>5 DEF Once
<1>7. \A j, l \in 1 .. Len(c) : c[j] = c[l] => j = l
  BY <1>1, <1>4 DEF Once
<1>8. CASE k = 1
  <2>1. prev[m] = NULL
    BY <1>2, <1>3, <1>8, Cells
  <2>2. head_node = c[1] /\ next[c[1]] = At(c, 2)
    <3>1. 1 \in 1 .. Len(c)
      BY <1>8
    <3> QED
      BY <1>1, <1>4, <3>1, Cells DEF Chain
  <2>3. head_node' = At(c, 2) /\ next' = next
    BY <2>1, <2>2 DEF Unlink
  <2>4. \A j \in 1 .. Len(c) : j + 1 # k
    BY <1>8
  <2> QED
    BY <1>4, <1>5, <1>6, <1>8, <2>3, <2>4
<1>9. CASE k # 1
  <2>1. i \in 1 .. Len(c) /\ prev[m] = c[i] /\ prev[m] # NULL /\ prev[m] \in Node
    <3>1. i \in 1 .. Len(c)
      BY <1>3, <1>9
    <3> QED
      BY <1>2, <1>4, <3>1, Cells
  <2>2. head_node' = At(c, 1) /\ next' = [next EXCEPT ![c[i]] = At(c, k + 1)]
    BY <1>1, <1>5, <2>1 DEF Unlink, Chain
  <2>3. ASSUME NEW j \in 1 .. Len(c)
        PROVE  next'[c[j]] = IF j + 1 = k THEN At(c, j + 2) ELSE At(c, j + 1)
    <3>1. CASE j = i
      <4>1. k + 1 = j + 2 /\ j + 1 = k
        BY <1>3, <3>1
      <4>2. next'[c[i]] = At(c, k + 1)
        BY <2>1, <2>2 DEF TypeOK
      <4> QED
        BY <3>1, <4>1, <4>2
    <3>2. CASE j # i
      <4>1. c[j] # c[i] /\ j + 1 # k
        BY <1>3, <1>7, <2>1, <3>2
      <4>2. next'[c[j]] = next[c[j]]
        BY <1>4, <2>2, <4>1 DEF TypeOK
      <4> QED
        BY <1>4, <4>1, <4>2
    <3> QED
      BY <3>1, <3>2
  <2> QED
    BY <1>5, <1>6, <1>9, <2>2, <2>3
<1> QED
  BY <1>8, <1>9

LEMMA WritersUnlink ==
  ASSUME TypeOK, Found', NEW c \in Seq(Node), Writers(c), "writers" \notin Hazards,
         NEW m \in Module, Unlink(m)
  PROVE  \E d \in Seq(Node) : Writers(d)'
<1> USE DEF Goto, walker, heap, history
<1>1. /\ pc[m] = "unlink" /\ pc' = [pc EXCEPT ![m] = "kfree"]
      /\ UNCHANGED <<module, used, new_node>>
      /\ order' = RemoveFirst(order, m)
  BY DEF Unlink, Deregister
<1>2. \A x \in Module \ {m} : pc[x] \notin Busy
  BY Alone DEF Rmmod
<1>3. Chain(c) /\ Once /\ Kinds /\ Listed /\ NoLeak /\ Fresh /\ Single
  BY DEF Writers
<1>4. /\ Kinds' /\ OneWriter' /\ pc'[m] = "kfree"
      /\ \A x \in Module \ {m} : pc'[x] = pc[x] /\ pc'[x] \notin Busy
  BY <1>1, <1>2, <1>3, Turn DEF Busy, Removing
<1>5. PICK k \in 1 .. Len(c) :
           /\ order[k] = m /\ curr[m] = c[k]
           /\ \A j \in 1 .. Len(c) : j # k => order[j] # m
           /\ head_node' = IF k = 1 THEN At(c, 2) ELSE At(c, 1)
           /\ \A j \in 1 .. Len(c) :
                next'[c[j]] = IF j + 1 = k THEN At(c, j + 2) ELSE At(c, j + 1)
  BY UnlinkCuts
<1>6. /\ Len(c) \in Nat /\ Len(order) = Len(c) /\ order \in Seq(Module)
      /\ \A j \in 1 .. Len(c) : c[j] \in used /\ module[c[j]] = order[j]
  BY <1>3, Cells DEF Chain, TypeOK
<1> DEFINE d == RemoveAt(c, k)
           n == Len(c) - 1
<1>7. n \in Nat /\ Len(c) = n + 1
  BY <1>6
<1>8. /\ d \in Seq(Node) /\ Len(d) = n
      /\ \A j \in 1 .. n : d[j] = IF j < k THEN c[j] ELSE c[j + 1]
  BY RemoveAtIs
<1>9. order' = RemoveAt(order, k)
  BY <1>1, <1>5, <1>6, RemoveFirstIs
<1>10. /\ order' \in Seq(Module) /\ Len(order') = n
       /\ \A j \in 1 .. n : order'[j] = IF j < k THEN order[j] ELSE order[j + 1]
  BY <1>6, <1>9, RemoveAtIs
<1> HIDE DEF d, n
<1>11. \A j \in 1 .. n : j \in 1 .. Len(c) /\ j + 1 \in 1 .. Len(c)
  BY <1>7
<1>12. At(d, 1) = head_node'
  <2>1. CASE n = 0
    <3>1. k = 1 /\ 2 \notin 1 .. Len(c) /\ 1 \notin 1 .. Len(d)
      BY <1>7, <1>8, <2>1
    <3> QED
      BY <1>5, <3>1 DEF At
  <2>2. CASE n # 0
    <3>1. 1 \in 1 .. n /\ 1 + 1 = 2
      BY <1>7, <2>2
    <3>2. 1 \in 1 .. Len(c) /\ 2 \in 1 .. Len(c)
      BY <1>11, <3>1
    <3>3. d[1] = IF k = 1 THEN c[2] ELSE c[1]
      BY <1>8, <3>1
    <3> QED
      BY <1>5, <1>8, <3>1, <3>2, <3>3 DEF At
  <2> QED
    BY <2>1, <2>2
<1>13. ASSUME NEW j \in 1 .. n
       PROVE  next'[d[j]] = At(d, j + 1)
  <2>1. At(d, j + 1) = IF j + 1 < k THEN At(c, j + 1) ELSE At(c, j + 2)
    <3>1. CASE j + 1 \in 1 .. n
      <4>1. d[j + 1] = IF j + 1 < k THEN c[j + 1] ELSE c[j + 1 + 1]
        BY <1>8, <3>1
      <4>2. j + 1 \in 1 .. Len(c) /\ j + 2 \in 1 .. Len(c) /\ j + 1 + 1 = j + 2
        BY <1>7, <3>1
      <4> QED
        BY <1>8, <3>1, <4>1, <4>2 DEF At
    <3>2. CASE j + 1 \notin 1 .. n
      <4>1. j + 2 \notin 1 .. Len(c) /\ ~(j + 1 < k)
        BY <1>7, <3>2
      <4> QED
        BY <1>8, <3>2, <4>1 DEF At
    <3> QED
      BY <3>1, <3>2
  <2>2. CASE j < k
    <3>1. next'[c[j]] = IF j + 1 = k THEN At(c, j + 2) ELSE At(c, j + 1)
      BY <1>5, <1>11
    <3>2. j + 1 = k \/ j + 1 < k
      BY <2>2, <1>7
    <3>3. ~(k < k)
      OBVIOUS
    <3>4. d[j] = c[j]
      BY <1>8, <2>2
    <3>5. j + 1 = k => ~(j + 1 < k)
      BY <3>3
    <3>6. j + 1 < k => j + 1 # k
      BY <3>3
    <3> QED
      BY <2>1, <3>1, <3>2, <3>4, <3>5, <3>6
  <2>3. CASE ~(j < k)
    <3>1. j + 1 \in 1 .. Len(c) /\ j + 1 + 1 # k /\ ~(j + 1 < k) /\ j + 1 + 1 = j + 2
      BY <1>7, <2>3
    <3>2. next'[c[j + 1]] = At(c, j + 1 + 1)
      BY <1>5, <3>1
    <3>3. d[j] = c[j + 1]
      BY <1>8, <2>3
    <3> QED
      BY <2>1, <3>1, <3>2, <3>3
  <2> QED
    BY <2>2, <2>3
<1>14. Chain(d)'
  <2>1. ASSUME NEW j \in 1 .. n
        PROVE  d[j] \in used /\ module[d[j]] = order'[j]
    BY <1>6, <1>8, <1>10, <1>11
  <2> QED
    BY <1>1, <1>8, <1>10, <1>12, <1>13, <2>1 DEF Chain
<1>15. Once'
  <2>1. ASSUME NEW i \in 1 .. n, NEW j \in 1 .. n, order'[i] = order'[j]
        PROVE  i = j
    <3> DEFINE up(x) == IF x < k THEN x ELSE x + 1
    <3>1. up(i) \in 1 .. Len(order) /\ up(j) \in 1 .. Len(order)
      BY <1>6, <1>11
    <3>2. order[up(i)] = order[up(j)]
      BY <1>10, <2>1
    <3> HIDE DEF up
    <3>3. up(i) = up(j)
      BY <1>3, <3>1, <3>2 DEF Once
    <3> QED
      BY <1>7, <3>3 DEF up
  <2> QED
    BY <1>10, <2>1 DEF Once
<1>16. Registered' = Registered \ {m}
  <2>1. /\ \A x : x \in Registered <=> \E i \in 1 .. Len(c) : order[i] = x
        /\ \A x : x \in Registered' <=> \E i \in 1 .. n : order'[i] = x
    <3>1. \A x : x \in Registered' <=> \E i \in 1 .. Len(order') : order'[i] = x
      BY <1>10, LenProperties DEF Registered, ToSet
    <3> QED
      BY <1>6, <1>10, <3>1, RegisteredIs
  <2>2. ASSUME NEW i \in 1 .. n
        PROVE  order'[i] # m /\ \E j \in 1 .. Len(c) : order[j] = order'[i]
    <3>1. CASE i < k
      BY <1>5, <1>10, <1>11, <3>1, SMTT(30)
    <3>2. CASE ~(i < k)
      <4>1. i + 1 # k /\ order'[i] = order[i + 1] /\ i + 1 \in 1 .. Len(c)
        BY <1>7, <1>10, <1>11, <3>2
      <4> QED
        BY <1>5, <4>1
    <3> QED
      BY <3>1, <3>2
  <2>3. ASSUME NEW j \in 1 .. Len(c), j # k
        PROVE  \E i \in 1 .. n : order'[i] = order[j]
    <3>1. CASE j < k
      <4>1. j \in 1 .. n
        BY <1>7, <3>1
      <4> QED
        BY <1>10, <3>1, <4>1
    <3>2. CASE k < j
      <4>1. PICK i \in 1 .. n : i + 1 = j /\ ~(i < k)
        <5>1. j - 1 \in 1 .. n /\ j - 1 + 1 = j /\ ~(j - 1 < k)
          BY <1>7, <3>2
        <5> QED
          BY <5>1
      <4> QED
        BY <1>10, <4>1
    <3> QED
      BY <1>7, <2>3, <3>1, <3>2
  <2>4. ASSUME NEW x \in Registered'
        PROVE  x \in Registered \ {m}
    <3>1. PICK i \in 1 .. n : order'[i] = x
      BY <2>1
    <3>2. x # m /\ \E j \in 1 .. Len(c) : order[j] = x
      BY <2>2, <3>1
    <3> QED
      BY <2>1, <3>2
  <2>5. ASSUME NEW x \in Registered, x # m
        PROVE  x \in Registered'
    <3>1. PICK j \in 1 .. Len(c) : order[j] = x
      BY <2>1
    <3>2. \E i \in 1 .. n : order'[i] = x
      BY <1>5, <2>3, <2>5, <3>1
    <3> QED
      BY <2>1, <3>2
  <2> QED
    BY <2>4, <2>5
<1>17. Listed'
  BY <1>3, <1>4, <1>16 DEF Listed
<1>18. NoLeak' /\ Single'
  BY <1>1, <1>3, <1>4 DEF NoLeak, Single, Adding, Removing
<1>19. Fresh' /\ \A x \in Module : Place(d, x)'
  <2>1. Place(d, m)'
    BY <1>4 DEF Place
  <2>2. pc'[m] \notin Adding
    BY <1>4 DEF Adding
  <2> QED
    BY <1>4, <2>1, <2>2, Others
<1>20. Writers(d)'
  BY <1>4, <1>14, <1>15, <1>17, <1>18, <1>19 DEF Writers
<1> QED
  BY <1>8, <1>20

(* Walks and oopses of readers leave the list and its writers alone.       *)
LEMMA WritersFrame ==
  ASSUME NEW c \in Seq(Node), Writers(c), Found', Kinds',
         UNCHANGED <<head_node, module, next, used, prev, new_node, order>>,
         \A m \in Module : pc'[m] = pc[m] /\ curr'[m] = curr[m]
  PROVE  Writers(c)'
<1>1. Chain(c)' /\ Once' /\ Single' /\ Registered' = Registered
  BY SameHeap
<1>2. OneWriter' /\ Listed'
  BY <1>1 DEF Writers, OneWriter, Listed
<1>3. Fresh' /\ NoLeak'
  BY DEF Writers, Fresh, NoLeak
<1>4. ASSUME NEW m \in Module
      PROVE  Place(c, m)'
  <2>1. Place(c, m) /\ pc'[m] = pc[m] /\ curr'[m] = curr[m]
    BY DEF Writers
  <2> QED
    BY <2>1 DEF Place, Between
<1> QED
  BY <1>1, <1>2, <1>3, <1>4 DEF Writers

LEMMA WritersWalk ==
  ASSUME TypeOK, Found', NEW c \in Seq(Node), Writers(c), NEW r \in Reader, Walk(r)
  PROVE  Writers(c)'
<1> USE DEF Goto, walker, heap, history
<1>1. UNCHANGED <<head_node, module, next, used, prev, new_node, order>>
  BY DEF Walk, GetModule, Look, Taken
<1>2. PICK l \in {"idle", "look", "done"} : pc' = [pc EXCEPT ![r] = l]
  <2>1. pc[r] = "look" => pc = [pc EXCEPT ![r] = "look"]
    BY DEF TypeOK
  <2> QED
    BY <2>1 DEF Walk, GetModule, Look, Taken
<1>3. \A m \in Module : pc'[m] = pc[m] /\ curr'[m] = curr[m]
  BY ListAssumption DEF Walk, GetModule, Look, Taken, TypeOK, Actor
<1>4. Kinds'
  <2>1. \A x \in Reader : pc'[x] = IF x = r THEN l ELSE pc[x]
    BY <1>2 DEF TypeOK, Actor
  <2> QED
    BY <1>2, <1>3, <2>1 DEF Writers, Kinds
<1> QED
  BY <1>1, <1>3, <1>4, WritersFrame

LEMMA WritersOops ==
  ASSUME TypeOK, Found', NEW c \in Seq(Node), Writers(c), NEW x \in Actor, Oops(x)
  PROVE  Writers(c)'
<1> USE DEF Goto, walker, heap, history
<1>1. x \in Reader
  BY WritersNoOops DEF Oops, Actor
<1>2. /\ UNCHANGED <<head_node, module, next, used, prev, new_node, order>>
      /\ pc' = [pc EXCEPT ![x] = "oops"] /\ curr' = curr
  BY DEF Oops
<1>3. \A m \in Module : pc'[m] = pc[m] /\ curr'[m] = curr[m]
  BY <1>1, <1>2, ListAssumption DEF TypeOK
<1>4. Kinds'
  <2>1. \A r \in Reader : pc'[r] = IF r = x THEN "oops" ELSE pc[r]
    BY <1>2 DEF TypeOK, Actor
  <2> QED
    BY <1>3, <2>1 DEF Writers, Kinds
<1> QED
  BY <1>2, <1>3, <1>4, WritersFrame

LEMMA WritersNext ==
  ASSUME TypeOK, Found, "writers" \notin Hazards,
         NEW c \in Seq(Node), Writers(c), [Next]_vars
  PROVE  \E d \in Seq(Node) : Writers(d)'
<1>1. Found'
  BY FoundNext
<1>2. ASSUME NEW m \in Module, Insmod(m)
      PROVE  \E d \in Seq(Node) : Writers(d)'
  BY <1>1, <1>2, WritersAddModule, WritersTestEmpty, WritersWalkToTail,
     WritersLinkFirst, WritersLinkLast DEF Insmod
<1>3. ASSUME NEW m \in Module, Rmmod(m)
      PROVE  \E d \in Seq(Node) : Writers(d)'
  BY <1>1, <1>3, WritersRemoveModule, WritersSeek, WritersUnlink, WritersFreeNode DEF Rmmod
<1>4. CASE UNCHANGED vars
  <2>1. Kinds'
    BY <1>4 DEF vars, Writers, Kinds
  <2> QED
    BY <1>1, <1>4, <2>1, WritersFrame DEF vars, heap, walker, history
<1> QED
  BY <1>1, <1>2, <1>3, <1>4, WritersWalk, WritersOops DEF Next

LEMMA WritersInit == Init => Writers(<<>>) /\ <<>> \in Seq(Node)
<1> SUFFICES ASSUME Init
             PROVE  Writers(<<>>) /\ <<>> \in Seq(Node)
  OBVIOUS
<1>1. <<>> \in Seq(Node) /\ Len(<<>>) = 0 /\ 1 .. 0 = {}
  BY EmptySeq
<1>2. Chain(<<>>) /\ Once
  BY <1>1 DEF Init, Chain, Once, At
<1>3. /\ \A m \in Module : pc[m] = "out"
      /\ \A r \in Reader : pc[r] = "idle"
  BY ListAssumption DEF Init, Actor
<1>4. Registered = {}
  BY <1>1, RegisteredIs, TypeInit DEF Init, TypeOK
<1>5. Kinds /\ OneWriter /\ Listed /\ Fresh /\ Found
  BY <1>3, <1>4 DEF Kinds, OneWriter, Listed, Fresh, Found, Busy, Adding, Removing
<1>6. Single /\ NoLeak
  BY DEF Init, Single, NoLeak
<1>7. \A m \in Module : Place(<<>>, m)
  BY <1>3 DEF Place
<1> QED
  BY <1>1, <1>2, <1>5, <1>6, <1>7 DEF Writers

(* Some sequence of cells is the list.                                     *)
Listing == \E c \in Seq(Node) : Writers(c)

LEMMA ListingAlways ==
  ASSUME "writers" \notin Hazards
  PROVE  Spec => []Listing
<1>1. Init => Listing
  BY WritersInit DEF Listing
<1>2. TypeOK /\ Found /\ Listing /\ [Next]_vars => Listing'
  <2> SUFFICES ASSUME TypeOK, Found, Listing, [Next]_vars
               PROVE  Listing'
    OBVIOUS
  <2>1. PICK c \in Seq(Node) : Writers(c)
    BY DEF Listing
  <2>2. PICK d \in Seq(Node) : Writers(d)'
    BY <2>1, WritersNext
  <2> QED
    BY <2>2 DEF Listing
<1> QED
  BY <1>1, <1>2, SoundAlways, PTL DEF Spec

(* Where insmods and rmmods do not overlap, the list is the sequence of    *)
(* the modules registered, at every step of each of them, also while walks *)
(* overlap removals and when allocations fail.                             *)
THEOREM ListIsOrderAlways ==
  ASSUME "writers" \notin Hazards
  PROVE  Spec => []ListIsOrder
<1>1. TypeOK /\ Listing => ListIsOrder
  <2> SUFFICES ASSUME TypeOK, Listing
               PROVE  ListIsOrder
    OBVIOUS
  <2>1. PICK c \in Seq(Node) : Writers(c)
    BY DEF Listing
  <2>2. Len(c) \in Nat /\ c \in [1 .. Len(c) -> Node] /\ DOMAIN c = 1 .. Len(c)
    BY LenProperties
  <2>3. Chain(c)
    BY <2>1 DEF Writers
  <2>4. c \in SeqOf(Node, Len(order))
    <3>1. Len(c) \in 0 .. Len(order)
      BY <2>2, <2>3 DEF Chain
    <3> QED
      BY <2>2, <3>1 DEF SeqOf
  <2>5. \A i \in DOMAIN c : module[c[i]] = order[i]
    BY <2>2, <2>3 DEF Chain
  <2>6. IsChain(c)
    <3>1. ToSet(c) \subseteq used
      BY <2>2, <2>3 DEF Chain, ToSet
    <3>2. head_node = IF c = <<>> THEN NULL ELSE c[1]
      <4>1. CASE c = <<>>
        <5>1. 1 \notin 1 .. Len(c)
          BY <4>1, EmptySeq
        <5> QED
          BY <2>3, <4>1, <5>1, Cells DEF Chain
      <4>2. CASE c # <<>>
        <5>1. 1 \in 1 .. Len(c)
          BY <2>2, <4>2, EmptySeq
        <5> QED
          BY <2>3, <4>2, <5>1, Cells DEF Chain
      <4> QED
        BY <4>1, <4>2
    <3>3. ASSUME NEW i \in DOMAIN c
          PROVE  next[c[i]] = IF i = Len(c) THEN NULL ELSE c[i + 1]
      <4>1. next[c[i]] = At(c, i + 1)
        BY <2>2, <2>3 DEF Chain
      <4>2. i = Len(c) \/ i + 1 \in 1 .. Len(c)
        BY <2>2
      <4>3. i = Len(c) => i + 1 \notin 1 .. Len(c)
        BY <2>2
      <4> QED
        BY <4>1, <4>2, <4>3 DEF At
    <3> QED
      BY <3>1, <3>2, <3>3 DEF IsChain
  <2> QED
    BY <2>4, <2>5, <2>6 DEF ListIsOrder
<1> QED
  BY <1>1, SoundAlways, ListingAlways, PTL

(* Where insmods and rmmods do not overlap, every allocated cell is in the *)
(* list, on its way in or on its way back.                                 *)
THEOREM NoLeakAlways ==
  ASSUME "writers" \notin Hazards
  PROVE  Spec => []NoLeak
<1>1. Listing => NoLeak
  BY DEF Listing, Writers
<1> QED
  BY <1>1, ListingAlways, PTL

-----------------------------------------------------------------------------
(***************************************************************************)
(* The walks.                                                              *)
(***************************************************************************)
(* While others insmod, a walk stays where it is in the list, and what     *)
(* comes into the list meanwhile it may return.                            *)
LEMMA WalkingInsmod ==
  ASSUME TypeOK, NEW m \in Module, Insmod(m), Walking
  PROVE  Walking'
<1> USE DEF Goto, walker, heap, history
<1>1. PICK l \in Adding \cup {"in", "oops"} : pc' = [pc EXCEPT ![m] = l]
  <2>1. pc[m] = "walk" => pc = [pc EXCEPT ![m] = "walk"]
    BY DEF TypeOK
  <2> QED
    BY <2>1 DEF Insmod, AddModule, TestEmpty, LinkFirst, WalkToTail, LinkLast, Adding
<1>2. /\ \A r \in Reader : pc'[r] = pc[r] /\ curr'[r] = curr[r]
      /\ \A x \in Module : pc'[x] \in Removing => pc[x] \in Removing
  <2>1. \A r \in Reader : r # m /\ r \in Actor
    BY ListAssumption DEF Actor
  <2>2. \A r \in Reader : curr'[r] = curr[r]
    BY <2>1 DEF Insmod, AddModule, TestEmpty, LinkFirst, WalkToTail, LinkLast, TypeOK
  <2> QED
    BY <1>1, <2>1, <2>2 DEF TypeOK, Actor, Adding, Removing
<1>3. UNCHANGED <<want, found, always>>
  BY DEF Insmod, AddModule, TestEmpty, LinkFirst, WalkToTail, LinkLast, Register
<1>4. used \subseteq used' /\ \A n \in used : module'[n] = module[n]
  BY DEF Insmod, AddModule, TestEmpty, LinkFirst, WalkToTail, LinkLast, TypeOK
<1>5. /\ Len(order) \in Nat /\ Len(order) <= Len(order')  /\ Len(order') \in Nat
      /\ \A i \in 1 .. Len(order) : order'[i] = order[i]
      /\ Registered \subseteq Registered'
      /\ \A r \in Reader : ever[r] \subseteq ever'[r]
      /\ \A r \in Reader : Registered \subseteq ever[r] => Registered' \subseteq ever'[r]
  <2>1. Len(order) \in Nat
    BY LenProperties DEF TypeOK
  <2>2. CASE order' = order /\ ever' = ever
    BY <2>1, <2>2 DEF Registered
  <2>3. CASE Register(m)
    <3>1. /\ Len(order') = Len(order) + 1
          /\ \A i \in 1 .. Len(order) : order'[i] = order[i]
      BY <2>3, AppendProperties DEF Register, TypeOK
    <3>2. Registered' = Registered \cup {m}
      BY <2>3, RegisterIs DEF Register, TypeOK
    <3>3. \A r \in Reader : ever'[r] = ever[r] \cup {m}
      BY <2>3 DEF Register
    <3> QED
      BY <2>1, <3>1, <3>2, <3>3
  <2> QED
    BY <2>2, <2>3 DEF Insmod, AddModule, TestEmpty, LinkFirst, WalkToTail, LinkLast
<1>6. LookupExact'
  BY <1>2, <1>3, <1>5 DEF Walking, LookupExact
<1>7. ASSUME NEW r \in Reader, pc'[r] = "look"
      PROVE  Looks(r)'
  <2>1. /\ pc[r] = "look" /\ Looks(r)
        /\ curr'[r] = curr[r] /\ want'[r] = want[r] /\ always'[r] = always[r]
    BY <1>2, <1>3, <1>7 DEF Walking
  <2>2. always'[r] \subseteq Registered' /\ Registered' \subseteq ever'[r]
    BY <1>5, <2>1 DEF Looks
  <2>3. \A x \in Module : pc'[x] \notin Removing
    BY <1>2, <2>1 DEF Looks
  <2>4. CASE curr[r] = NULL /\ want[r] \notin always[r]
    BY <2>1, <2>2, <2>3, <2>4 DEF Looks
  <2>5. ASSUME curr[r] \in used,
               NEW i \in 1 .. Len(order),
               module[curr[r]] = order[i],
               \A j \in 1 .. i - 1 : order[j] # want[r]
        PROVE  Looks(r)'
    <3>1. i \in 1 .. Len(order') /\ \A j \in 1 .. i - 1 : j \in 1 .. Len(order)
      BY <1>5
    <3>2. curr'[r] \in used' /\ module'[curr'[r]] = order'[i]
      BY <1>4, <1>5, <2>1, <2>5
    <3>3. \A j \in 1 .. i - 1 : order'[j] # want'[r]
      BY <1>5, <2>1, <2>5, <3>1
    <3> QED
      BY <2>2, <2>3, <3>1, <3>2, <3>3 DEF Looks
  <2> QED
    BY <2>1, <2>4, <2>5 DEF Looks
<1> QED
  BY <1>6, <1>7 DEF Walking, Looks

(* An rmmod meets no walk under way.                                       *)
LEMMA WalkingRmmod ==
  ASSUME TypeOK, "readers" \notin Hazards, NEW m \in Module, Rmmod(m), Walking
  PROVE  Walking'
<1> USE DEF Goto, walker, heap, history
<1>1. \A r \in Reader : pc[r] # "look"
  <2>1. CASE RemoveModule(m)
    BY <2>1 DEF RemoveModule
  <2>2. CASE pc[m] \in Removing
    BY <2>2 DEF Walking, Looks
  <2> QED
    BY <2>1, <2>2 DEF Rmmod, Seek, Unlink, FreeNode, Removing
<1>2. \A r \in Reader : pc'[r] = pc[r]
  <2>1. \A r \in Reader : r # m /\ r \in Actor
    BY ListAssumption DEF Actor
  <2>2. pc[m] = "seek" => pc = [pc EXCEPT ![m] = "seek"]
    BY DEF TypeOK
  <2>3. \E l \in Removing \cup {"out"} : pc' = [pc EXCEPT ![m] = l]
    BY <2>2 DEF Rmmod, RemoveModule, Seek, Unlink, FreeNode, Removing
  <2> QED
    BY <2>1, <2>3 DEF TypeOK
<1>3. UNCHANGED <<want, found, ever>> /\ \A r \in Reader : always'[r] \subseteq always[r]
  BY DEF Rmmod, RemoveModule, Seek, Unlink, Deregister, FreeNode, TypeOK
<1>4. LookupExact'
  BY <1>2, <1>3 DEF Walking, LookupExact
<1> QED
  BY <1>1, <1>2, <1>4 DEF Walking, Looks

(* Any cell that a walk of r may be at is in the list, and its position    *)
(* there is that of its module.                                            *)
LEMMA LookPlace ==
  ASSUME TypeOK, NEW c \in Seq(Node), Writers(c), NEW n \in used,
         NEW i \in 1 .. Len(order), module[n] = order[i]
  PROVE  i \in 1 .. Len(c) /\ n = c[i] /\ next[n] = At(c, i + 1)
<1>1. Chain(c) /\ Single
  BY DEF Writers
<1>2. i \in 1 .. Len(c) /\ c[i] \in used /\ module[c[i]] = order[i]
  BY <1>1 DEF Chain
<1>3. n = c[i]
  BY <1>1, <1>2 DEF Single
<1> QED
  BY <1>1, <1>2, <1>3 DEF Chain

LEMMA WalkingLook ==
  ASSUME TypeOK, NEW c \in Seq(Node), Writers(c), NEW r \in Reader, Look(r), Walking
  PROVE  Walking'
<1> USE DEF Goto, walker, heap, history
<1>1. /\ pc[r] = "look" /\ Looks(r)
      /\ UNCHANGED <<module, used, want, order, always, ever>>
  BY DEF Look, Walking
<1>2. \A m \in Module : pc'[m] = pc[m]
  BY ListAssumption DEF Look, TypeOK, Actor
<1>3. ASSUME NEW x \in Reader, x # r
      PROVE  /\ pc'[x] = pc[x] /\ curr'[x] = curr[x] /\ found'[x] = found[x]
             /\ Looks(x)'
  <2>1. pc'[x] = pc[x] /\ curr'[x] = curr[x] /\ found'[x] = found[x]
    BY <1>3 DEF Look, TypeOK, Actor
  <2>2. Looks(x)
    BY DEF Walking
  <2> QED
    BY <1>1, <1>2, <2>1, <2>2 DEF Looks, Registered
<1>4. CASE curr[r] = NULL
  <2>1. pc'[r] = "done" /\ found'[r] = NULL
    BY <1>4 DEF Look, TypeOK, Actor
  <2>2. want[r] \notin always[r]
    BY <1>1, <1>4, ListAssumption DEF Looks, TypeOK
  <2>3. LookupExact'
    BY <1>1, <1>3, <2>1, <2>2 DEF Walking, LookupExact
  <2> QED
    BY <1>3, <2>1, <2>3 DEF Walking, Looks
<1>5. CASE curr[r] # NULL
  <2>1. PICK i \in 1 .. Len(order) :
             /\ curr[r] \in used /\ module[curr[r]] = order[i]
             /\ \A j \in 1 .. i - 1 : order[j] # want[r]
    BY <1>1, <1>5 DEF Looks
  <2>2. order[i] \in Registered /\ order[i] \in Module /\ order[i] # NULL
    BY RegisteredIs, ListAssumption DEF TypeOK
  <2>3. CASE module[curr[r]] = want[r]
    <3>1. pc'[r] = "done" /\ found'[r] = want[r]
      BY <1>5, <2>3 DEF Look, TypeOK, Actor
    <3>2. want[r] \in ever[r] /\ want[r] # NULL
      BY <1>1, <2>1, <2>2, <2>3 DEF Looks
    <3>3. LookupExact'
      BY <1>1, <1>3, <3>1, <3>2 DEF Walking, LookupExact
    <3> QED
      BY <1>3, <3>1, <3>3 DEF Walking, Looks
  <2>4. CASE module[curr[r]] # want[r]
    <3>1. pc'[r] = "look" /\ curr'[r] = next[curr[r]] /\ found'[r] = found[r]
      BY <1>1, <1>5, <2>4 DEF Look, TypeOK, Actor
    <3>2. i \in 1 .. Len(c) /\ next[curr[r]] = At(c, i + 1)
      BY <2>1, LookPlace
    <3>3. /\ Len(c) = Len(order) /\ Len(c) \in Nat
          /\ \A j \in 1 .. Len(c) : c[j] \in used /\ module[c[j]] = order[j]
      BY Cells DEF Writers, Chain
    <3>4. \A j \in 1 .. i : order[j] # want[r]
      <4>1. \A j \in 1 .. i : j = i \/ j \in 1 .. i - 1
        BY <3>2
      <4> QED
        BY <2>1, <2>4, <4>1
    <3>5. CASE i = Len(c)
      <4>1. i + 1 \notin 1 .. Len(c)
        BY <3>3, <3>5
      <4>2. curr'[r] = NULL
        BY <3>1, <3>2, <4>1, Cells
      <4>3. want[r] \notin Registered
        BY <3>3, <3>4, <3>5, RegisteredIs DEF TypeOK
      <4>4. Looks(r)'
        BY <1>1, <1>2, <4>2, <4>3 DEF Looks, Registered
      <4> QED
        BY <1>1, <1>3, <3>1, <4>4 DEF Walking, LookupExact
    <3>6. CASE i # Len(c)
      <4>1. PICK k \in 1 .. Len(c) : k = i + 1 /\ k - 1 = i
        BY <3>2, <3>3, <3>6
      <4>2. curr'[r] = c[k]
        BY <3>1, <3>2, <4>1, Cells
      <4>3. curr'[r] \in used' /\ module'[curr'[r]] = order'[k] /\ k \in 1 .. Len(order')
        BY <1>1, <3>3, <4>2
      <4>4. \A j \in 1 .. k - 1 : order'[j] # want'[r]
        BY <1>1, <3>4, <4>1
      <4>5. Looks(r)'
        BY <1>1, <1>2, <4>3, <4>4 DEF Looks, Registered
      <4> QED
        BY <1>1, <1>3, <3>1, <4>5 DEF Walking, LookupExact
    <3> QED
      BY <3>5, <3>6
  <2> QED
    BY <2>3, <2>4
<1> QED
  BY <1>4, <1>5

LEMMA WalkingGetModule ==
  ASSUME TypeOK, "readers" \notin Hazards, NEW c \in Seq(Node), Writers(c),
         NEW r \in Reader, NEW m \in Module, GetModule(r, m), Walking
  PROVE  Walking'
<1> USE DEF Goto, walker, heap, history
<1>1. /\ UNCHANGED <<module, used, found, order>>
      /\ pc'[r] = "look" /\ curr'[r] = head_node /\ want'[r] = m
      /\ always'[r] = Registered /\ ever'[r] = Registered
  BY DEF GetModule, TypeOK, Actor
<1>2. \A x \in Module : pc'[x] = pc[x] /\ pc[x] \notin Removing
  BY ListAssumption DEF GetModule, TypeOK
<1>3. ASSUME NEW x \in Reader, x # r
      PROVE  /\ pc'[x] = pc[x] /\ curr'[x] = curr[x] /\ want'[x] = want[x]
             /\ always'[x] = always[x] /\ ever'[x] = ever[x]
             /\ Looks(x)'
  <2>1. /\ pc'[x] = pc[x] /\ curr'[x] = curr[x] /\ want'[x] = want[x]
        /\ always'[x] = always[x] /\ ever'[x] = ever[x]
    BY <1>3 DEF GetModule, TypeOK, Actor
  <2>2. Looks(x)
    BY DEF Walking
  <2> QED
    BY <1>1, <1>2, <2>1, <2>2 DEF Looks, Registered
<1>4. Registered' = Registered
  BY <1>1 DEF Registered
<1>5. Chain(c) /\ Len(c) \in Nat /\ Len(order) = Len(c)
  BY Cells DEF Writers, Chain
<1>6. Looks(r)'
  <2>1. CASE Len(c) = 0
    <3>1. 1 \notin 1 .. Len(c) /\ \A i : i \notin 1 .. Len(order)
      BY <1>5, <2>1
    <3>2. head_node = NULL
      BY <1>5, <3>1, Cells DEF Chain
    <3>3. m \notin Registered
      BY <3>1, RegisteredIs DEF TypeOK
    <3> QED
      BY <1>1, <1>2, <1>4, <3>2, <3>3 DEF Looks
  <2>2. CASE Len(c) # 0
    <3>1. 1 \in 1 .. Len(c) /\ \A j : j \notin 1 .. 1 - 1
      BY <1>5, <2>2
    <3>2. head_node = c[1] /\ c[1] \in used /\ module[c[1]] = order[1]
      BY <1>5, <3>1, Cells DEF Chain
    <3> QED
      BY <1>1, <1>2, <1>4, <1>5, <3>1, <3>2 DEF Looks
  <2> QED
    BY <2>1, <2>2
<1>7. LookupExact'
  BY <1>1, <1>3 DEF Walking, LookupExact
<1> QED
  BY <1>3, <1>6, <1>7 DEF Walking

LEMMA WalkingTaken ==
  ASSUME TypeOK, NEW r \in Reader, Taken(r), Walking
  PROVE  Walking'
<1> USE DEF Goto, walker, heap, history
<1>1. UNCHANGED <<module, used, order, always, ever>> /\ pc'[r] = "idle"
  BY DEF Taken, TypeOK, Actor
<1>2. \A x \in Module : pc'[x] = pc[x]
  BY ListAssumption DEF Taken, TypeOK
<1>3. ASSUME NEW x \in Reader, x # r
      PROVE  /\ pc'[x] = pc[x] /\ want'[x] = want[x] /\ found'[x] = found[x]
             /\ Looks(x)'
  <2>1. pc'[x] = pc[x] /\ curr'[x] = curr[x] /\ want'[x] = want[x] /\ found'[x] = found[x]
    BY <1>3 DEF Taken, TypeOK, Actor
  <2>2. Looks(x)
    BY DEF Walking
  <2> QED
    BY <1>1, <1>2, <2>1, <2>2 DEF Looks, Registered
<1>4. LookupExact'
  BY <1>1, <1>3 DEF Walking, LookupExact
<1> QED
  BY <1>1, <1>3, <1>4 DEF Walking, Looks

(* No walk makes a bad access.                                             *)
LEMMA WalkingNoOops ==
  ASSUME TypeOK, NEW c \in Seq(Node), Writers(c), Walking, NEW x \in Actor
  PROVE  ~BadAccess(x)
<1>1. CASE x \in Reader
  <2>1. pc[x] \in {"idle", "look", "done", "oops"}
    BY <1>1 DEF Writers, Kinds
  <2>2. pc[x] = "look" => curr[x] \in used \cup {NULL}
    BY <1>1 DEF Walking, Looks
  <2> QED
    BY <2>1, <2>2 DEF BadAccess
<1>2. CASE x \in Module
  BY <1>2, WritersNoOops
<1> QED
  BY <1>1, <1>2 DEF Actor

LEMMA WalkingNext ==
  ASSUME TypeOK, Listing, "readers" \notin Hazards, Walking, [Next]_vars
  PROVE  Walking'
<1>1. PICK c \in Seq(Node) : Writers(c)
  BY DEF Listing
<1>2. ASSUME NEW r \in Reader, Walk(r)
      PROVE  Walking'
  BY <1>1, <1>2, WalkingGetModule, WalkingLook, WalkingTaken DEF Walk
<1>3. \A x \in Actor : ~Oops(x)
  BY <1>1, WalkingNoOops DEF Oops
<1>4. CASE UNCHANGED vars
  BY <1>4 DEF vars, heap, walker, history, Walking, LookupExact, Looks, Registered
<1> QED
  BY <1>2, <1>3, <1>4, WalkingInsmod, WalkingRmmod DEF Next

LEMMA WalkingAlways ==
  ASSUME "writers" \notin Hazards, "readers" \notin Hazards
  PROVE  Spec => []Walking
<1>1. Init => Walking
  BY ListAssumption DEF Init, Walking, LookupExact, Looks, Actor
<1>2. TypeOK /\ Listing /\ Walking /\ [Next]_vars => Walking'
  BY WalkingNext
<1> QED
  BY <1>1, <1>2, SoundAlways, ListingAlways, PTL DEF Spec

(* Where neither rmmods nor insmods overlap each other, and no removal     *)
(* overlaps a walk, a lookup finds what is in the list all through and     *)
(* returns only what it was asked for and was in the list meanwhile.       *)
THEOREM LookupExactAlways ==
  ASSUME "writers" \notin Hazards, "readers" \notin Hazards
  PROVE  Spec => []LookupExact
<1>1. Walking => LookupExact
  BY DEF Walking
<1> QED
  BY <1>1, WalkingAlways, PTL

(* Under the same conditions, and if no allocation fails, no insmod, rmmod *)
(* or walk goes through NULL or into a freed cell.                         *)
THEOREM NoOopsAlways ==
  ASSUME Hazards = {}
  PROVE  Spec => []NoOops
<1>1. Init => NoOops
  BY DEF Init, NoOops
<1>2. TypeOK /\ Listing /\ Walking /\ NoOops /\ [Next]_vars => NoOops'
  <2> SUFFICES ASSUME TypeOK, Listing, Walking, NoOops, [Next]_vars
               PROVE  NoOops'
    OBVIOUS
  <2> USE DEF Goto, walker, heap, history
  <2>1. PICK c \in Seq(Node) : Writers(c)
    BY DEF Listing
  <2>2. \A x \in Actor : ~Oops(x)
    BY <2>1, WalkingNoOops DEF Oops
  <2>3. ASSUME NEW x \in Actor,
               NEW l \in Adding \cup Removing \cup {"out", "in", "idle", "look", "done"},
               pc' = [pc EXCEPT ![x] = l] \/ pc' = pc
        PROVE  NoOops'
    <3>1. l # "oops"
      BY <2>3 DEF Adding, Removing
    <3>2. \A y \in Actor : pc'[y] = pc[y] \/ pc'[y] = l
      BY <2>3 DEF TypeOK
    <3> QED
      BY <3>1, <3>2 DEF NoOops
  <2>4. ASSUME NEW m \in Module, Insmod(m)
        PROVE  NoOops'
    <3>1. \E l \in Adding \cup {"in"} : pc' = [pc EXCEPT ![m] = l] \/ pc' = pc
      BY <2>4 DEF Insmod, AddModule, TestEmpty, LinkFirst, WalkToTail, LinkLast, Adding
    <3> QED
      BY <2>3, <3>1 DEF Actor
  <2>5. ASSUME NEW m \in Module, Rmmod(m)
        PROVE  NoOops'
    <3>1. \E l \in Removing \cup {"out"} : pc' = [pc EXCEPT ![m] = l] \/ pc' = pc
      BY <2>5 DEF Rmmod, RemoveModule, Seek, Unlink, FreeNode, Removing
    <3> QED
      BY <2>3, <3>1 DEF Actor
  <2>6. ASSUME NEW r \in Reader, Walk(r)
        PROVE  NoOops'
    <3>1. \E l \in {"idle", "look", "done"} : pc' = [pc EXCEPT ![r] = l] \/ pc' = pc
      BY <2>6 DEF Walk, GetModule, Look, Taken
    <3> QED
      BY <2>3, <3>1 DEF Actor
  <2>7. CASE UNCHANGED vars
    BY <2>7 DEF vars, NoOops
  <2> QED
    BY <2>2, <2>4, <2>5, <2>6, <2>7 DEF Next
<1>3. "writers" \notin Hazards /\ "readers" \notin Hazards
  OBVIOUS
<1> QED
  BY <1>1, <1>2, <1>3, SoundAlways, ListingAlways, WalkingAlways, PTL DEF Spec

=============================================================================
