--------------------------- MODULE RegistryProofs ---------------------------
(***************************************************************************)
(* The guarantee of the abstract table, for every set of processes,        *)
(* modules and vectors.                                                    *)
(***************************************************************************)
EXTENDS Registry, TLAPS

LEMMA EntryFact ==
  ASSUME None \notin Entry
  PROVE \A m \in Module, v \in Vector :
    LET e == [module |-> m, vector |-> v]
    IN e \in Entry /\ e # None /\ e.module = m
BY DEF Entry

LEMMA TypeStep ==
  ASSUME TypeOK, Next
  PROVE  TypeOK'
<1>1. ASSUME NEW p \in Task, Detach(p) \/ Exit(p)
      PROVE  TypeOK'
  BY <1>1 DEF TypeOK, Detach, Exit
<1>2. ASSUME NEW p \in Task, NEW m \in Module, NEW v \in Vector, Attach(p, m, v)
      PROVE  TypeOK'
  BY <1>2 DEF TypeOK, Attach, Entry
<1>3. ASSUME NEW p \in Task, NEW c \in Task, Fork(p, c)
      PROVE  TypeOK'
  BY <1>3 DEF TypeOK, Fork
<1>4. ASSUME NEW m \in Module, Load(m) \/ Unload(m)
      PROVE  TypeOK'
  BY <1>4 DEF TypeOK, Load, Unload
<1> QED
  BY <1>1, <1>2, <1>3, <1>4 DEF Next

(* The table holds well-formed entries for all processes, always.          *)
THEOREM TypeCorrect == Spec => []TypeOK
<1>1. Init => TypeOK
  BY DEF Init, TypeOK
<1>2. TypeOK /\ [Next]_vars => TypeOK'
  BY TypeStep DEF TypeOK, vars
<1> QED
  BY <1>1, <1>2, PTL DEF Spec

LEMMA ServedStep ==
  ASSUME None \notin Entry, TypeOK, EntriesServed, Next
  PROVE  EntriesServed'
<1>1. ASSUME NEW p \in Task, Detach(p)
      PROVE  EntriesServed'
  BY <1>1 DEF TypeOK, EntriesServed, Detach
<1>2. ASSUME NEW p \in Task, Exit(p)
      PROVE  EntriesServed'
  BY <1>2 DEF EntriesServed, Exit
<1>3. ASSUME NEW p \in Task, NEW m \in Module, NEW v \in Vector, Attach(p, m, v)
      PROVE  EntriesServed'
  BY <1>3, EntryFact DEF TypeOK, EntriesServed, Attach
<1>4. ASSUME NEW p \in Task, NEW c \in Task, Fork(p, c)
      PROVE  EntriesServed'
  BY <1>4 DEF TypeOK, EntriesServed, Fork
<1>5. ASSUME NEW m \in Module, Load(m)
      PROVE  EntriesServed'
  BY <1>5 DEF EntriesServed, Load
<1>6. ASSUME NEW m \in Module, Unload(m)
      PROVE  EntriesServed'
  BY <1>6 DEF TypeOK, EntriesServed, Unload, Names
<1> QED
  BY <1>1, <1>2, <1>3, <1>4, <1>5, <1>6 DEF Next

(* Whatever is attached, forked, detached, loaded and unloaded, no process *)
(* is ever served by a module that has been unloaded, and no dead process  *)
(* keeps an entry.                                                         *)
THEOREM AlwaysServed ==
  ASSUME None \notin Entry
  PROVE  Spec => []EntriesServed
<1>1. Init => EntriesServed
  BY DEF Init, EntriesServed
<1>2. TypeOK /\ EntriesServed /\ [Next]_vars => EntriesServed'
  BY ServedStep DEF EntriesServed, vars
<1> QED
  BY <1>1, <1>2, TypeCorrect, PTL DEF Spec
=============================================================================
