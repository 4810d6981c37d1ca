------------------------------ MODULE Registry ------------------------------
(***************************************************************************)
(* What the driver promises: a table that says for each process which      *)
(* loadable module serves its system calls and which calls it may make.    *)
(* An entry changes in one step, a child starts with its parent's entry or *)
(* with none, a process is gone only after its entry is, and a module that *)
(* some entry names is never unloaded.                                     *)
(***************************************************************************)
CONSTANTS Task, Module, Vector, None

VARIABLES
  alive,    \* the processes that run
  loaded,   \* the modules that can be attached to
  attach    \* attach[p]: None, or the module and the vector of p

vars == <<alive, loaded, attach>>

Entry == [module : Module, vector : Vector]
Names(p, m) == attach[p] # None /\ attach[p].module = m

Attach(p, m, v) ==
  /\ p \in alive /\ m \in loaded
  /\ attach' = [attach EXCEPT ![p] = [module |-> m, vector |-> v]]
  /\ UNCHANGED <<alive, loaded>>

Detach(p) ==
  /\ attach' = [attach EXCEPT ![p] = None]
  /\ UNCHANGED <<alive, loaded>>

(* The child starts with its parent's entry, or with none.                 *)
Fork(p, c) ==
  /\ p \in alive /\ c \notin alive
  /\ alive' = alive \cup {c}
  /\ attach[c] = None
  /\ attach' \in {attach, [attach EXCEPT ![c] = attach[p]]}
  /\ UNCHANGED loaded

Exit(p) ==
  /\ p \in alive
  /\ alive' = alive \ {p}
  /\ attach[p] = None
  /\ UNCHANGED <<loaded, attach>>

Load(m) ==
  /\ m \notin loaded
  /\ loaded' = loaded \cup {m}
  /\ UNCHANGED <<alive, attach>>

Unload(m) ==
  /\ m \in loaded
  /\ loaded' = loaded \ {m}
  /\ \A p \in Task : ~Names(p, m)
  /\ UNCHANGED <<alive, attach>>

Init ==
  /\ alive \in SUBSET Task
  /\ loaded = {}
  /\ attach = [p \in Task |-> None]

Next ==
  \/ \E p \in Task : Detach(p) \/ Exit(p)
  \/ \E p \in Task, m \in Module, v \in Vector : Attach(p, m, v)
  \/ \E p, c \in Task : Fork(p, c)
  \/ \E m \in Module : Load(m) \/ Unload(m)

Spec == Init /\ [][Next]_vars

-----------------------------------------------------------------------------
(* Type invariant of the table, of the processes and of the modules.       *)
TypeOK ==
  /\ alive \subseteq Task
  /\ loaded \subseteq Module
  /\ attach \in [Task -> Entry \cup {None}]

(* Every entry names a module that is loaded, and belongs to a process     *)
(* that runs.                                                              *)
EntriesServed ==
  \A p \in Task : attach[p] # None => p \in alive /\ attach[p].module \in loaded
=============================================================================
