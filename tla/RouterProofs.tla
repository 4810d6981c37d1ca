---------------------------- MODULE RouterProofs ----------------------------
(***************************************************************************)
(* Theorems about Router, for any number of processes, modules, calls,     *)
(* vectors and addresses: the types and the mutex under every hazard, and, *)
(* as long as nobody disturbs a SET, the control of the driver, its safety *)
(* and that it implements Registry.                                        *)
(***************************************************************************)
EXTENDS Router, TLAPS, FiniteSetTheorems

LEMMA IdleType == Idle \in Request
BY DEF Idle, Request

LEMMA TypeInit == Init => TypeOK
BY IdleType, RouterAssumption DEF Init, TypeOK, Label, HelperPC, CallPC

(* The types, without the mutex: they hold also where others take it.      *)
Typed ==
  /\ life \in [Task -> {"none", "live", "zombie", "reaped"}]
  /\ sys_vector \in [Task -> Addr \cup {None}]
  /\ used \in SUBSET Addr
  /\ module_addr \in [Addr -> Module \cup {None}]
  /\ sv \in [Addr -> Vector \cup {Zero, None}]
  /\ mstate \in [Module -> {"out", "live", "going"}]
  /\ refcnt \in [Module -> Int]
  /\ pc \in [Task -> Label]
  /\ req \in [Task -> Request]
  /\ node \in [Task -> Module \cup {None}]

LEMMA TypedIs == TypeOK <=> Typed /\ Lock \in Task \cup {None}
BY DEF TypeOK, Typed

LEMMA TypeReturn ==
  ASSUME Typed, NEW t \in Task, Return(t)
  PROVE  /\ pc' \in [Task -> Label]
         /\ req' \in [Task -> Request]
         /\ node' \in [Task -> Module \cup {None}]
BY IdleType DEF Typed, Return, Goto, Label, HelperPC, CallPC

LEMMA TypeSpawn ==
  ASSUME Typed, NEW p \in Task, NEW c \in Task, Spawn(p, c)
  PROVE  /\ life' \in [Task -> {"none", "live", "zombie", "reaped"}]
         /\ sys_vector' \in [Task -> Addr \cup {None}]
         /\ used' \in SUBSET Addr
         /\ module_addr' \in [Addr -> Module \cup {None}]
         /\ sv' \in [Addr -> Vector \cup {Zero, None}]
         /\ mstate' = mstate
         /\ refcnt' \in [Module -> Int]
<1>1. CASE Inherit(p, c)
  <2>1. sys_vector[p] \in Addr
    BY <1>1 DEF Typed, Inherit
  <2> QED
    BY <1>1, <2>1 DEF Typed, Spawn, Inherit
<1>2. CASE UNCHANGED <<memory, refcnt>>
  BY <1>2 DEF Typed, Spawn, memory
<1> QED
  BY <1>1, <1>2 DEF Spawn

LEMMA CountType ==
  ASSUME NEW f \in [Module -> Int], NEW m
  PROVE  /\ [f EXCEPT ![m] = @ + 1] \in [Module -> Int]
         /\ [f EXCEPT ![m] = @ - 1] \in [Module -> Int]
<1>1. CASE m \in Module
  BY <1>1
<1>2. CASE m \notin Module
  BY <1>2
<1> QED
  BY <1>1, <1>2

(* Every action of a process in get_ioctl_helper keeps the types.          *)
LEMMA TypeHelper ==
  ASSUME Typed, NEW t \in Task, HelperStep(t)
  PROVE  Typed'
<1> USE DEF Typed, memory, kernel, local, At, Goto, Label, HelperPC, CallPC
<1>1. CASE Find(t)
  BY <1>1, TypeReturn DEF Find
<1>2. CASE Peek(t)
  BY <1>2, TypeReturn DEF Peek
<1>3. CASE ReadOld(t)
  <2>1. sys_vector[req[t].pid] \in Addr
    BY <1>3 DEF ReadOld, Readable, Request
  <2> QED
    BY <1>3, <2>1 DEF ReadOld
<1>4. CASE DecrementTest(t)
  BY <1>4 DEF DecrementTest, AfterDecrement
<1>5. CASE DecrementPut(t)
  <2>1. refcnt' \in [Module -> Int]
    BY <1>5, CountType DEF DecrementPut
  <2> QED
    BY <1>5, <2>1 DEF DecrementPut, AfterDecrement
<1>6. CASE FreeVector(t)
  BY <1>6 DEF FreeVector, Kfree
<1>7. CASE ClearVector(t)
  BY <1>7, TypeReturn DEF ClearVector
<1>8. CASE AllocVector(t)
  BY <1>8 DEF AllocVector
<1>9. CASE FirstModule(t)
  BY <1>9 DEF FirstModule, SetModuleAddr, Request
<1>10. CASE Increment(t)
  <2>1. refcnt' \in [Module -> Int]
    BY <1>10, CountType DEF Increment
  <2> QED
    BY <1>10, <2>1 DEF Increment
<1>11. CASE SwitchModule(t)
  BY <1>11 DEF SwitchModule, SetModuleAddr, Request
<1>12. CASE SetVector(t)
  BY <1>12, TypeReturn DEF SetVector, Request
<1> QED
  BY <1>1, <1>2, <1>3, <1>4, <1>5, <1>6, <1>7, <1>8, <1>9, <1>10, <1>11, <1>12 DEF HelperStep

(* So does every other action of a process ...                             *)
LEMMA TypeProcess ==
  ASSUME Typed, NEW t \in Task,
         Begin(t) \/ AcquireLock(t) \/ CopyFails(t) \/ CallStep(t) \/ Unlock(t) \/ Die(t) \/ Oops(t)
  PROVE  Typed'
<1> USE DEF Typed, memory, kernel, local, At, Goto, Label, HelperPC, CallPC
<1>1. ASSUME NEW p \in Task, NEW m \in Module, NEW v \in Vector, IoctlSet(t, p, m, v)
      PROVE  Typed'
  BY <1>1 DEF IoctlSet, Idle, Request
<1>2. ASSUME NEW c \in Task, NEW m \in Module, NEW v \in Vector, Clone2(t, c, m, v)
      PROVE  Typed'
  <2>1. PICK pid \in {c, None} :
          /\ IF pid = None THEN UNCHANGED <<memory, kernel>> ELSE Spawn(t, c)
          /\ req' = [req EXCEPT ![t] =
                       [Idle EXCEPT !.via = "clone2", !.pid = pid, !.module = m, !.vector = v]]
    BY <1>2 DEF Clone2
  <2>2. req' \in [Task -> Request]
    BY <2>1 DEF Idle, Request
  <2>3. CASE pid = None
    BY <1>2, <2>1, <2>2, <2>3 DEF Clone2
  <2>4. CASE pid # None
    BY <1>2, <2>1, <2>2, <2>4, TypeSpawn DEF Clone2
  <2> QED
    BY <2>3, <2>4
<1>3. ASSUME NEW c \in Task, Fork(t, c)
      PROVE  Typed'
  BY <1>3, TypeSpawn DEF Fork
<1>4. ASSUME NEW c \in Call, BeginCall(t, c)
      PROVE  Typed'
  BY <1>4 DEF BeginCall, Idle, Request
<1>5. CASE ExitGroup(t)
  BY <1>5 DEF ExitGroup, Idle, Request
<1>6. CASE AcquireLock(t)
  BY <1>6 DEF AcquireLock
<1>7. CASE CopyFails(t)
  BY <1>7, TypeReturn DEF CopyFails
<1>8. CASE Gate(t)
  BY <1>8, IdleType DEF Gate, LeaveCall
<1>9. CASE ReadNode(t)
  <2>1. sys_vector[t] \in Addr
    BY <1>9 DEF ReadNode, Readable
  <2> QED
    BY <1>9, <2>1 DEF ReadNode
<1>10. CASE EnterModule(t)
  BY <1>10 DEF EnterModule
<1>11. CASE LeaveModule(t)
  BY <1>11, IdleType DEF LeaveModule, LeaveCall
<1>12. CASE Unlock(t)
  BY <1>12 DEF Unlock
<1>13. CASE Die(t)
  BY <1>13 DEF Die
<1>14. CASE Oops(t)
  BY <1>14, IdleType DEF Oops
<1> QED
  BY <1>1, <1>2, <1>3, <1>4, <1>5, <1>6, <1>7, <1>8, <1>9, <1>10, <1>11, <1>12, <1>13, <1>14
     DEF Begin, CallStep

(* ... and every action of the environment.                                *)
LEMMA TypeEnvironment ==
  ASSUME Typed, Environment
  PROVE  Typed'
<1> USE DEF Typed, memory, kernel, local, Goto, Label, HelperPC, CallPC
<1>1. ASSUME NEW t \in Task, Kill(t) \/ Reap(t)
      PROVE  Typed'
  BY <1>1 DEF Kill, Reap
<1>2. ASSUME NEW m \in Module, LoadModule(m) \/ BeginUnload(m) \/ FinishUnload(m)
      PROVE  Typed'
  BY <1>2 DEF LoadModule, BeginUnload, FinishUnload
<1> QED
  BY <1>1, <1>2 DEF Environment

LEMMA TypedStep ==
  ASSUME Typed, Next
  PROVE  Typed'
BY TypeHelper, TypeProcess, TypeEnvironment DEF Next, Progress

(* Every step leaves the mutex alone, or a process takes or releases it.   *)
LEMMA LockStep ==
  ASSUME Next
  PROVE  \/ UNCHANGED Lock
         \/ \E t \in Task : AcquireLock(t) /\ Lock' = t
         \/ \E t \in Task : Unlock(t) /\ Lock' = None
<1>1. ASSUME NEW t \in Task, Begin(t) \/ CopyFails(t) \/ HelperStep(t) \/ CallStep(t) \/ Die(t) \/ Oops(t)
      PROVE  UNCHANGED Lock
  BY <1>1 DEF Begin, IoctlSet, Clone2, Fork, BeginCall, ExitGroup, CopyFails, Die, Oops,
              HelperStep, Find, Peek, ReadOld, DecrementTest, DecrementPut, FreeVector, ClearVector,
              AllocVector, FirstModule, Increment, SwitchModule, SetVector,
              CallStep, Gate, ReadNode, EnterModule, LeaveModule
<1>2. Environment => UNCHANGED Lock
  BY DEF Environment, Kill, Reap, LoadModule, BeginUnload, FinishUnload
<1> QED
  BY <1>1, <1>2 DEF Next, Progress, AcquireLock, Unlock

(* Every variable of the driver holds a value of its type at every step,   *)
(* whatever overlaps and fails.                                            *)
THEOREM TypeCorrect == Spec => []TypeOK
<1>1. TypeOK /\ [Next]_vars => TypeOK'
  <2> SUFFICES ASSUME TypeOK, [Next]_vars PROVE TypeOK'
    OBVIOUS
  <2>1. CASE Next
    <3>1. Typed'
      BY <2>1, TypedIs, TypedStep
    <3>2. Lock' \in Task \cup {None}
      BY <2>1, LockStep DEF TypeOK
    <3> QED
      BY <3>1, <3>2 DEF TypeOK, Typed
  <2>2. CASE UNCHANGED vars
    BY <2>2 DEF vars, memory, kernel, local, TypeOK
  <2> QED
    BY <2>1, <2>2
<1> QED
  BY <1>1, TypeInit, PTL DEF Spec

-----------------------------------------------------------------------------
(* Mutual exclusion is inductive once it is said who holds the mutex: a    *)
(* process past line 57 that has not passed line 94 is its holder.  Helper *)
(* steps move the process along without touching Lock; sys_clone2 and the  *)
(* hooked exit walk the same labels but are not holders.                   *)
HolderLocked == \A t \in Task : Locked(t) => Lock = t

LEMMA HolderInit == Init => HolderLocked
BY DEF Init, HolderLocked, Locked, HelperPC, Idle

(* A step of t that leaves Lock alone and does not carry t past line 57    *)
(* changes nothing about the holder.                                       *)
LEMMA HolderKept ==
  ASSUME Typed, HolderLocked, NEW t \in Task,
         UNCHANGED Lock,
         \A u \in Task \ {t} : pc'[u] = pc[u] /\ req'[u] = req[u],
         Locked(t)' => Locked(t)
  PROVE  HolderLocked'
BY DEF HolderLocked, Locked

LEMMA HolderReturn ==
  ASSUME Typed, NEW t \in Task, Return(t), pc[t] \in HelperPC
  PROVE  /\ \A u \in Task \ {t} : pc'[u] = pc[u] /\ req'[u] = req[u]
         /\ Locked(t)' <=> Locked(t)
<1>1. \A u \in Task \ {t} : pc'[u] = pc[u] /\ req'[u] = req[u]
  BY DEF Typed, Return, Goto
<1>2. Locked(t)' <=> Locked(t)
  BY DEF Typed, Return, Goto, Locked, HelperPC, Idle
<1> QED
  BY <1>1, <1>2

(* A helper step either returns or stays in the helper.                    *)
LEMMA HelperMoves ==
  ASSUME Typed, NEW t \in Task, HelperStep(t)
  PROVE  /\ UNCHANGED Lock
         /\ pc[t] \in HelperPC
         /\ \A u \in Task \ {t} : pc'[u] = pc[u] /\ req'[u] = req[u]
         /\ Locked(t)' <=> Locked(t)
<1> USE DEF Typed, memory, kernel, local, At, Goto, HelperPC, Locked
<1>1. CASE Find(t)
  BY <1>1, HolderReturn DEF Find
<1>2. CASE Peek(t)
  BY <1>2, HolderReturn DEF Peek
<1>3. CASE ReadOld(t)
  BY <1>3 DEF ReadOld
<1>4. CASE DecrementTest(t)
  BY <1>4 DEF DecrementTest, AfterDecrement
<1>5. CASE DecrementPut(t)
  BY <1>5 DEF DecrementPut, AfterDecrement
<1>6. CASE FreeVector(t)
  BY <1>6 DEF FreeVector
<1>7. CASE ClearVector(t)
  BY <1>7, HolderReturn DEF ClearVector
<1>8. CASE AllocVector(t)
  BY <1>8 DEF AllocVector
<1>9. CASE FirstModule(t)
  BY <1>9 DEF FirstModule
<1>10. CASE Increment(t)
  BY <1>10 DEF Increment
<1>11. CASE SwitchModule(t)
  BY <1>11 DEF SwitchModule
<1>12. CASE SetVector(t)
  BY <1>12, HolderReturn DEF SetVector
<1> QED
  BY <1>1, <1>2, <1>3, <1>4, <1>5, <1>6, <1>7, <1>8, <1>9, <1>10, <1>11, <1>12 DEF HelperStep

LEMMA HolderStep ==
  ASSUME Typed, HolderLocked, Next
  PROVE  HolderLocked'
<1> USE DEF Typed, memory, kernel, local, At, Goto, HelperPC, CallPC
<1>1. ASSUME NEW t \in Task, Begin(t)
      PROVE  HolderLocked'
  <2>1. UNCHANGED Lock /\ \A u \in Task \ {t} : pc'[u] = pc[u] /\ req'[u] = req[u]
    BY <1>1, ZenonT(40) DEF Begin, IoctlSet, Clone2, Fork, BeginCall, ExitGroup
  <2>2. ~Locked(t)'
    <3>1. CASE pc'[t] \in {"user", "lock", "gate"}
      BY <3>1 DEF Locked
    <3>2. CASE pc'[t] \in {"find", "peek"} /\ req'[t].via \in {"clone2", "exit"}
      BY <3>2 DEF Locked
    <3>3. CASE ExitGroup(t)
      BY <3>3, <3>2 DEF ExitGroup, Idle
    <3>4. ASSUME NEW c \in Task, NEW m \in Module, NEW v \in Vector, Clone2(t, c, m, v)
          PROVE  ~Locked(t)'
      BY <3>4, <3>2 DEF Clone2, Idle
    <3> QED
      BY <1>1, <3>1, <3>3, <3>4 DEF Begin, IoctlSet, Fork, BeginCall, Running
  <2> QED
    BY <2>1, <2>2, HolderKept
<1>2. ASSUME NEW t \in Task, AcquireLock(t)
      PROVE  HolderLocked'
  <2>1. \A u \in Task \ {t} : ~Locked(u)
    BY <1>2, RouterAssumption DEF AcquireLock, HolderLocked
  <2> QED
    BY <1>2, <2>1 DEF AcquireLock, HolderLocked, Locked
<1>3. ASSUME NEW t \in Task, CopyFails(t)
      PROVE  HolderLocked'
  BY <1>3, HolderReturn, HolderKept DEF CopyFails
<1>4. ASSUME NEW t \in Task, HelperStep(t)
      PROVE  HolderLocked'
  BY <1>4, HelperMoves, HolderKept
<1>5. ASSUME NEW t \in Task, CallStep(t) \/ Die(t) \/ Oops(t)
      PROVE  HolderLocked'
  <2>1. UNCHANGED Lock /\ \A u \in Task \ {t} : pc'[u] = pc[u] /\ req'[u] = req[u]
    BY <1>5 DEF CallStep, Gate, ReadNode, EnterModule, LeaveModule, LeaveCall, Die, Oops
  <2>2. ~Locked(t)'
    BY <1>5 DEF CallStep, Gate, ReadNode, EnterModule, LeaveModule, LeaveCall, Die, Oops, Locked
  <2> QED
    BY <2>1, <2>2, HolderKept
<1>6. ASSUME NEW t \in Task, Unlock(t)
      PROVE  HolderLocked'
  <2>1. \A u \in Task \ {t} : ~Locked(u)
    BY <1>6 DEF Unlock, HolderLocked, Locked
  <2> QED
    BY <1>6, <2>1 DEF Unlock, HolderLocked, Locked
<1>7. CASE Environment
  <2>1. ASSUME NEW t \in Task, Kill(t)
        PROVE  HolderLocked'
    BY <1>7, <2>1 DEF Kill, Running, HolderLocked, Locked
  <2>2. ASSUME UNCHANGED <<Lock, pc, req>>
        PROVE  HolderLocked'
    BY <2>2 DEF HolderLocked, Locked
  <2> QED
    BY <1>7, <2>1, <2>2 DEF Environment, Reap, LoadModule, BeginUnload, FinishUnload
<1> QED
  BY <1>1, <1>2, <1>3, <1>4, <1>5, <1>6, <1>7 DEF Next, Progress

LEMMA HolderImplies == HolderLocked => IoctlExclusive
BY DEF HolderLocked, IoctlExclusive

(* Two SETs never overlap between mutex_lock and mutex_unlock, whatever    *)
(* sys_clone2, the exits, the kills and the oopses around them do.         *)
THEOREM Exclusion == Spec => []IoctlExclusive
<1>1. TypeOK /\ HolderLocked /\ [Next]_vars => HolderLocked'
  <2> SUFFICES ASSUME TypeOK, HolderLocked, [Next]_vars PROVE HolderLocked'
    OBVIOUS
  <2>1. CASE UNCHANGED vars
    BY <2>1 DEF vars, local, HolderLocked, Locked
  <2> QED
    BY <2>1, TypedIs, HolderStep
<1> QED
  BY <1>1, TypeCorrect, HolderInit, HolderImplies, PTL DEF Spec

-----------------------------------------------------------------------------
(***************************************************************************)
(* The control of the driver, the part of the invariant of RouterSafety    *)
(* that says nothing about the heap or the counts: where a process can be  *)
(* and with which request, that it lives, and that no two work on the same *)
(* vector.  It holds as long as nobody disturbs a SET: the hazards         *)
(* "target", "clone" and "admin" do not occur.                             *)
(***************************************************************************)
Undisturbed == Hazards \subseteq {"kill", "oom"}

Attaching == {"alloc", "addr", "inc", "mod", "sv"}
Dropping  == {"peek", "old", "test", "put", "free", "null"}

(* What a process is about, by where it is.                                *)
Phase(t) ==
  /\ pc[t] \in {"user", "unlock", "die", "dead", "oops"} => req[t] = Idle
  /\ pc[t] = "lock" => req[t].via = "ioctl"
  /\ pc[t] \in HelperPC => req[t].via \in {"ioctl", "clone2", "exit"}
  /\ pc[t] \in CallPC => req[t].via = "call"
  /\ req[t].via = "call" => req[t].pid = t /\ req[t].call \in Call
  /\ req[t].via = "exit" => pc[t] \in Dropping /\ req[t].pid = t /\ req[t].vector = Zero
  /\ Setting(t) => req[t].module \in Module /\ req[t].vector \in Vector
  /\ req[t].via = "ioctl" => req[t].pid \in Task
  /\ pc[t] \in Attaching => req[t].vector # Zero
  /\ pc[t] \in {"free", "null"} => req[t].vector = Zero

(* Whether it lives, and that the process it works on has not been reaped. *)
Living(t) ==
  /\ life[t] = "none" => pc[t] = "user"
  /\ life[t] = "live" => pc[t] \notin {"dead", "oops"}
  /\ life[t] \in {"zombie", "reaped"} => pc[t] \in {"dead", "oops"}
  /\ pc[t] \in HelperPC \ {"find"} => req[t].pid \in Task /\ TaskExists(req[t].pid)

(* Nobody else is at the vector of a process that a SET or clone2 is       *)
(* about, and no rmmod is under way meanwhile.                             *)
Apart(t) ==
  Setting(t) =>
    /\ \A u \in Task : req[t].via = "clone2" /\ Setting(u) /\ req[u].pid = req[t].pid =>
         u = t \/ req[t].pid = None
    /\ req[t].pid \in Task \ {t} => ~UsesVector(req[t].pid)
    /\ \A m \in Module : mstate[m] # "going"
    /\ pc[t] \in HelperPC \ {"find"} /\ req[t].vector # Zero => mstate[req[t].module] = "live"

Shape == TypeOK /\ HolderLocked /\ \A t \in Task : Phase(t) /\ Living(t) /\ Apart(t)

-----------------------------------------------------------------------------
(* A step of one process leaves the control and the locals of all others.  *)
ProcessStep(t) == Begin(t) \/ AcquireLock(t) \/ CopyFails(t) \/ Progress(t) \/ Oops(t)
Moves(t) ==
  \A u \in Task \ {t} : pc'[u] = pc[u] /\ req'[u] = req[u] /\ node'[u] = node[u]

LEMMA ReturnMoves ==
  ASSUME TypeOK, NEW t \in Task, Return(t), Phase(t), pc[t] \in HelperPC
  PROVE  /\ Moves(t)
         /\ pc'[t] \in {"unlock", "user", "die"}
         /\ pc'[t] = "die" <=> req[t].via = "exit"
         /\ req'[t] = Idle
BY DEF TypeOK, Return, Goto, Moves, Phase

LEMMA HelperMovesAll ==
  ASSUME TypeOK, NEW t \in Task, HelperStep(t), Phase(t)
  PROVE  Moves(t)
<1> USE DEF TypeOK, memory, kernel, local, At, Goto, Moves
<1>1. CASE Find(t)
  BY <1>1, ReturnMoves DEF Find, HelperPC
<1>2. CASE Peek(t)
  BY <1>2, ReturnMoves DEF Peek, HelperPC
<1>3. CASE ReadOld(t)
  BY <1>3 DEF ReadOld
<1>4. CASE DecrementTest(t)
  BY <1>4 DEF DecrementTest
<1>5. CASE DecrementPut(t)
  BY <1>5 DEF DecrementPut
<1>6. CASE FreeVector(t)
  BY <1>6 DEF FreeVector
<1>7. CASE ClearVector(t)
  BY <1>7, ReturnMoves DEF ClearVector, HelperPC
<1>8. CASE AllocVector(t)
  BY <1>8 DEF AllocVector
<1>9. CASE FirstModule(t)
  BY <1>9 DEF FirstModule
<1>10. CASE Increment(t)
  BY <1>10 DEF Increment
<1>11. CASE SwitchModule(t)
  BY <1>11 DEF SwitchModule
<1>12. CASE SetVector(t)
  BY <1>12, ReturnMoves DEF SetVector, HelperPC
<1> QED
  BY <1>1, <1>2, <1>3, <1>4, <1>5, <1>6, <1>7, <1>8, <1>9, <1>10, <1>11, <1>12 DEF HelperStep

LEMMA ProcessMoves ==
  ASSUME TypeOK, NEW t \in Task, ProcessStep(t), Phase(t)
  PROVE  Moves(t)
<1> USE DEF TypeOK, memory, kernel, local, At, Goto, Moves
<1>1. CASE HelperStep(t)
  BY <1>1, HelperMovesAll
<1>2. CASE Begin(t)
  BY <1>2 DEF Begin, IoctlSet, Clone2, Fork, BeginCall, ExitGroup
<1>3. CASE CopyFails(t)
  BY <1>3, ReturnMoves DEF CopyFails, HelperPC
<1>4. CASE CallStep(t)
  BY <1>4 DEF CallStep, Gate, ReadNode, EnterModule, LeaveModule, LeaveCall
<1>5. CASE AcquireLock(t) \/ Unlock(t) \/ Die(t) \/ Oops(t)
  BY <1>5 DEF AcquireLock, Unlock, Die, Oops
<1> QED
  BY <1>1, <1>2, <1>3, <1>4, <1>5 DEF ProcessStep, Progress

(* What a helper step of t does to its own control and request.            *)
LEMMA HelperGoes ==
  ASSUME TypeOK, NEW t \in Task, HelperStep(t), Phase(t)
  PROVE  /\ \/ /\ pc'[t] \in {"unlock", "user", "die"} /\ req'[t] = Idle
               /\ pc'[t] = "die" <=> req[t].via = "exit"
            \/ /\ pc'[t] \in HelperPC \ {"find"} /\ req'[t] = req[t]
               /\ pc[t] = "find" => /\ req[t].pid \in Task /\ TaskExists(req[t].pid)
                                    /\ req[t].vector # Zero => mstate[req[t].module] # "out"
         /\ pc[t] \in HelperPC
         /\ UNCHANGED <<life, mstate, Lock>>
<1> USE DEF TypeOK, memory, kernel, local, At, Goto, HelperPC
<1>1. CASE Find(t)
  BY <1>1, ReturnMoves DEF Find, Request
<1>2. CASE Peek(t)
  BY <1>2, ReturnMoves DEF Peek
<1>3. CASE ReadOld(t)
  BY <1>3 DEF ReadOld
<1>4. CASE DecrementTest(t)
  BY <1>4 DEF DecrementTest, AfterDecrement
<1>5. CASE DecrementPut(t)
  BY <1>5 DEF DecrementPut, AfterDecrement
<1>6. CASE FreeVector(t)
  BY <1>6 DEF FreeVector
<1>7. CASE ClearVector(t)
  BY <1>7, ReturnMoves DEF ClearVector
<1>8. CASE AllocVector(t)
  BY <1>8 DEF AllocVector
<1>9. CASE FirstModule(t)
  BY <1>9 DEF FirstModule
<1>10. CASE Increment(t)
  BY <1>10 DEF Increment
<1>11. CASE SwitchModule(t)
  BY <1>11 DEF SwitchModule
<1>12. CASE SetVector(t)
  BY <1>12, ReturnMoves DEF SetVector
<1> QED
  BY <1>1, <1>2, <1>3, <1>4, <1>5, <1>6, <1>7, <1>8, <1>9, <1>10, <1>11, <1>12 DEF HelperStep

LEMMA PhaseHelper ==
  ASSUME TypeOK, NEW t \in Task, HelperStep(t), Phase(t)
  PROVE  Phase(t)'
<1>1. CASE pc'[t] \in {"unlock", "user", "die"} /\ req'[t] = Idle
  BY <1>1 DEF Phase, Idle, Setting, Attaching, HelperPC, CallPC
<1>2. CASE pc'[t] \in HelperPC \ {"find"} /\ req'[t] = req[t]
  <2> USE <1>2 DEF TypeOK, Phase, Setting, Attaching, Dropping, HelperPC, CallPC, memory, kernel, local, At, Goto
  <2>1. CASE Find(t)
    BY <2>1 DEF Find, Return
  <2>2. CASE Peek(t)
    BY <2>2 DEF Peek, Return
  <2>3. CASE ReadOld(t)
    BY <2>3 DEF ReadOld
  <2>4. CASE DecrementTest(t)
    BY <2>4 DEF DecrementTest, AfterDecrement
  <2>5. CASE DecrementPut(t)
    BY <2>5 DEF DecrementPut, AfterDecrement
  <2>6. CASE FreeVector(t)
    BY <2>6 DEF FreeVector
  <2>7. CASE ClearVector(t)
    BY <2>7 DEF ClearVector, Return
  <2>8. CASE AllocVector(t)
    BY <2>8 DEF AllocVector
  <2>9. CASE FirstModule(t)
    BY <2>9 DEF FirstModule
  <2>10. CASE Increment(t)
    BY <2>10 DEF Increment
  <2>11. CASE SwitchModule(t)
    BY <2>11 DEF SwitchModule
  <2>12. CASE SetVector(t)
    BY <2>12 DEF SetVector, Return
  <2> QED
    BY <2>1, <2>2, <2>3, <2>4, <2>5, <2>6, <2>7, <2>8, <2>9, <2>10, <2>11, <2>12 DEF HelperStep
<1> QED
  BY <1>1, <1>2, HelperGoes

LEMMA PhaseProcess ==
  ASSUME TypeOK, NEW t \in Task, ProcessStep(t), Phase(t)
  PROVE  Phase(t)'
<1> USE RouterAssumption DEF TypeOK, Phase, Setting, Attaching, Dropping, HelperPC, CallPC, Idle,
        memory, kernel, local, At, Goto, Running
<1>1. CASE HelperStep(t)
  BY <1>1, PhaseHelper
<1>2. ASSUME NEW p \in Task, NEW m \in Module, NEW v \in Vector, IoctlSet(t, p, m, v)
      PROVE  Phase(t)'
  BY <1>2 DEF IoctlSet
<1>3. ASSUME NEW c \in Task, NEW m \in Module, NEW v \in Vector, Clone2(t, c, m, v)
      PROVE  Phase(t)'
  BY <1>3 DEF Clone2
<1>4. ASSUME NEW c \in Task, Fork(t, c)
      PROVE  Phase(t)'
  BY <1>4 DEF Fork
<1>5. ASSUME NEW c \in Call, BeginCall(t, c)
      PROVE  Phase(t)'
  BY <1>5 DEF BeginCall
<1>6. CASE ExitGroup(t)
  BY <1>6 DEF ExitGroup
<1>7. CASE CopyFails(t)
  BY <1>7, ReturnMoves DEF CopyFails
<1>8. CASE CallStep(t)
  BY <1>8 DEF CallStep, Gate, ReadNode, EnterModule, LeaveModule, LeaveCall
<1>9. CASE AcquireLock(t) \/ Unlock(t) \/ Die(t) \/ Oops(t)
  BY <1>9 DEF AcquireLock, Unlock, Die, Oops
<1> QED
  BY <1>1, <1>2, <1>3, <1>4, <1>5, <1>6, <1>7, <1>8, <1>9 DEF ProcessStep, Progress, Begin

(* A process that takes a step is alive; what a step does to lives.        *)
LEMMA LifeMoves ==
  ASSUME TypeOK, NEW t \in Task, ProcessStep(t), Phase(t), \A u \in Task : Living(u)
  PROVE  /\ life[t] = "live"
         /\ \/ life'[t] = "live" /\ pc'[t] \notin {"dead", "oops"}
            \/ life'[t] = "zombie" /\ pc'[t] \in {"dead", "oops"} /\ req'[t] = Idle
         /\ \A p \in Task \ {t} : life'[p] = life[p] \/ (life[p] = "none" /\ life'[p] = "live")
<1> USE DEF TypeOK, Phase, Living, HelperPC, CallPC, memory, kernel, local, At, Goto, Running
<1>1. CASE HelperStep(t)
  BY <1>1, HelperGoes
<1>2. ASSUME NEW p \in Task, NEW m \in Module, NEW v \in Vector, IoctlSet(t, p, m, v)
      PROVE  pc'[t] = "lock" /\ UNCHANGED life /\ life[t] = "live"
  BY <1>2 DEF IoctlSet
<1>3. ASSUME NEW c \in Task, NEW m \in Module, NEW v \in Vector, Clone2(t, c, m, v)
      PROVE  /\ pc'[t] = "find" /\ life[t] = "live"
             /\ UNCHANGED life \/ (life[c] = "none" /\ life' = [life EXCEPT ![c] = "live"])
  BY <1>3 DEF Clone2, Spawn
<1>4. ASSUME NEW c \in Task, Fork(t, c)
      PROVE  /\ pc'[t] = "user" /\ life[t] = "live"
             /\ life[c] = "none" /\ life' = [life EXCEPT ![c] = "live"]
  BY <1>4 DEF Fork, Spawn
<1>5. ASSUME NEW c \in Call, BeginCall(t, c)
      PROVE  pc'[t] = "gate" /\ UNCHANGED life /\ life[t] = "live"
  BY <1>5 DEF BeginCall
<1>6. CASE ExitGroup(t)
  BY <1>6 DEF ExitGroup
<1>7. CASE CopyFails(t)
  BY <1>7, ReturnMoves DEF CopyFails
<1>8. CASE CallStep(t)
  BY <1>8 DEF CallStep, Gate, ReadNode, EnterModule, LeaveModule, LeaveCall
<1>9. CASE AcquireLock(t) \/ Unlock(t)
  BY <1>9 DEF AcquireLock, Unlock
<1>10. CASE Die(t) \/ Oops(t)
  BY <1>10 DEF Die, Oops
<1> QED
  BY <1>1, <1>2, <1>3, <1>4, <1>5, <1>6, <1>7, <1>8, <1>9, <1>10 DEF ProcessStep, Progress, Begin

(* Where a step of t takes it in the helper, the task it is about exists.  *)
LEMMA TargetMoves ==
  ASSUME TypeOK, NEW t \in Task, ProcessStep(t), Phase(t), Living(t),
         pc'[t] \in HelperPC \ {"find"}
  PROVE  /\ req'[t].pid \in Task /\ TaskExists(req'[t].pid)
         /\ Setting(t)' => Setting(t) /\ req'[t] = req[t] /\ pc[t] \in HelperPC
         /\ Setting(t) /\ pc[t] = "find" /\ req[t].vector # Zero => mstate[req[t].module] # "out"
         /\ UNCHANGED <<life, mstate>>
<1> USE DEF TypeOK, Phase, Living, HelperPC, CallPC, memory, kernel, local, At, Goto, Running
<1>1. CASE HelperStep(t)
  BY <1>1, HelperGoes DEF Setting
<1>2. CASE ExitGroup(t)
  BY <1>2 DEF ExitGroup, Setting, TaskExists, Idle
<1>3. CASE CopyFails(t)
  BY <1>3, ReturnMoves DEF CopyFails
<1>4. CASE CallStep(t)
  BY <1>4 DEF CallStep, Gate, ReadNode, EnterModule, LeaveModule, LeaveCall
<1>5. CASE AcquireLock(t) \/ Unlock(t) \/ Die(t) \/ Oops(t)
  BY <1>5 DEF AcquireLock, Unlock, Die, Oops
<1>6. CASE Begin(t) /\ ~ExitGroup(t)
  BY <1>6, ZenonT(40) DEF Begin, IoctlSet, Clone2, Fork, BeginCall
<1> QED
  BY <1>1, <1>2, <1>3, <1>4, <1>5, <1>6 DEF ProcessStep, Progress

LEMMA LivingProcess ==
  ASSUME TypeOK, NEW t \in Task, ProcessStep(t), \A u \in Task : Phase(u) /\ Living(u)
  PROVE  \A u \in Task : Living(u)'
<1>1. Living(t)'
  <2>1. pc'[t] \in HelperPC \ {"find"} => req'[t].pid \in Task /\ TaskExists(req[t].pid)'
    BY TargetMoves DEF TaskExists
  <2> QED
    BY <2>1, LifeMoves DEF Living
<1>2. ASSUME NEW u \in Task \ {t}
      PROVE  Living(u)'
  <2>1. pc'[u] = pc[u] /\ req'[u] = req[u]
    BY ProcessMoves DEF Moves
  <2>2. \A p \in Task : TaskExists(p) => TaskExists(p)'
    BY LifeMoves DEF TaskExists
  <2>3. life'[u] = life[u] \/ (life[u] = "none" /\ life'[u] = "live")
    BY LifeMoves
  <2> QED
    BY <2>1, <2>2, <2>3 DEF Living
<1> QED
  BY <1>1, <1>2

(* What a step of t that is or gets about another process has to do with   *)
(* the others: the guards of IOCTL_SET and clone2.                         *)
LEMMA SettingMoves ==
  ASSUME Undisturbed, TypeOK, NEW t \in Task, ProcessStep(t), \A u \in Task : Phase(u) /\ Living(u), Setting(t)'
  PROVE  \/ Setting(t) /\ req'[t] = req[t]
         \/ /\ pc'[t] \in {"lock", "find"}
            /\ \A u \in Task \ {t} : req[u].pid = req'[t].pid /\ req[u].pid # None =>
                 /\ req[u].via # "clone2"
                 /\ req'[t].via = "clone2" => ~Setting(u)
            /\ req'[t].pid \in Task \ {t} => ~UsesVector(req'[t].pid)
            /\ \A m \in Module : mstate[m] # "going"
<1> USE DEF Undisturbed, TypeOK, Phase, HelperPC, CallPC, memory, kernel, local, At, Goto, Setting
<1>1. CASE HelperStep(t)
  BY <1>1, HelperGoes DEF Idle
<1>2. ASSUME NEW p \in Task, NEW m \in Module, NEW v \in Vector, IoctlSet(t, p, m, v)
      PROVE  /\ pc'[t] = "lock" /\ req'[t].pid = p /\ req'[t].via = "ioctl"
             /\ \A u \in Task \ {t} : req[u].pid = p => req[u].via # "clone2"
             /\ p # t => ~UsesVector(p)
             /\ \A n \in Module : mstate[n] # "going"
  BY <1>2 DEF IoctlSet, TargetQuiet, CloneQuiet, AdminQuiet, Idle
<1>3. ASSUME NEW c \in Task, NEW m \in Module, NEW v \in Vector, Clone2(t, c, m, v)
      PROVE  /\ pc'[t] = "find" /\ req'[t].pid \in {c, None} /\ req'[t].via = "clone2"
             /\ \A u \in Task \ {t} : req[u].pid = c => ~Setting(u)
             /\ req'[t].pid = c => ~UsesVector(c)
             /\ \A n \in Module : mstate[n] # "going"
  <2>1. PICK pid \in {c, None} :
          /\ IF pid = None THEN UNCHANGED <<memory, kernel>> ELSE Spawn(t, c)
          /\ req' = [req EXCEPT ![t] =
                       [Idle EXCEPT !.via = "clone2", !.pid = pid, !.module = m, !.vector = v]]
    BY <1>3 DEF Clone2
  <2>2. pc'[t] = "find" /\ req'[t].pid = pid /\ req'[t].via = "clone2"
    <3>1. req'[t] = [Idle EXCEPT !.via = "clone2", !.pid = pid, !.module = m, !.vector = v]
      BY <2>1
    <3>2. pc'[t] = "find"
      BY <1>3 DEF Clone2
    <3>3. req'[t].pid = pid /\ req'[t].via = "clone2"
      BY <3>1 DEF Idle
    <3> QED
      BY <3>2, <3>3
  <2>3. \A u \in Task \ {t} : req[u].pid = c => ~Setting(u)
    BY <1>3 DEF Clone2, CloneQuiet
  <2>4. pid = c => ~UsesVector(c)
    BY <2>1, RouterAssumption DEF Spawn, Living, UsesVector, Idle
  <2>5. \A n \in Module : mstate[n] # "going"
    BY <1>3 DEF Clone2, AdminQuiet
  <2> QED
    BY <2>1, <2>2, <2>3, <2>4, <2>5
<1>4. CASE ~HelperStep(t) /\ ~(\E p \in Task, m \in Module, v \in Vector : IoctlSet(t, p, m, v) \/ Clone2(t, p, m, v))
  <2>1. ASSUME NEW c \in Task, Fork(t, c)
        PROVE  ~Setting(t)'
    BY <2>1 DEF Fork, Running, Idle
  <2>2. ASSUME NEW c \in Call, BeginCall(t, c)
        PROVE  ~Setting(t)'
    BY <2>2 DEF BeginCall, Idle
  <2>3. CASE ExitGroup(t)
    BY <2>3 DEF ExitGroup, Idle
  <2>4. CASE CopyFails(t)
    BY <2>4, ReturnMoves DEF CopyFails, Idle
  <2>5. CASE CallStep(t)
    BY <2>5 DEF CallStep, Gate, ReadNode, EnterModule, LeaveModule, LeaveCall, Idle
  <2>6. CASE AcquireLock(t) \/ Unlock(t) \/ Die(t) \/ Oops(t)
    BY <2>6 DEF AcquireLock, Unlock, Die, Oops, Idle
  <2> QED
    BY <1>4, <2>1, <2>2, <2>3, <2>4, <2>5, <2>6 DEF ProcessStep, Progress, Begin
<1> QED
  BY <1>1, <1>2, <1>3, <1>4, RouterAssumption

(* A process that nobody is about is the only one to begin using its own.  *)
LEMMA UsesMoves ==
  ASSUME Undisturbed, TypeOK, NEW t \in Task, ProcessStep(t), Phase(t), UsesVector(t)'
  PROVE  UsesVector(t) \/ ~Targeted(t)
<1> USE DEF Undisturbed, TypeOK, Phase, HelperPC, CallPC, memory, kernel, local, At, Goto, UsesVector
<1>1. CASE HelperStep(t)
  BY <1>1, HelperGoes DEF Idle
<1>2. CASE Begin(t)
  <2>1. ASSUME NEW c \in Task, Fork(t, c)
        PROVE  ~UsesVector(t)'
    BY <2>1 DEF Fork, Running, Idle
  <2>2. ASSUME NEW c \in Call, BeginCall(t, c)
        PROVE  ~Targeted(t)
    BY <2>2 DEF BeginCall, FreeToRun
  <2>3. CASE ExitGroup(t)
    BY <2>3 DEF ExitGroup, FreeToRun
  <2>4. ASSUME NEW p \in Task, NEW m \in Module, NEW v \in Vector, IoctlSet(t, p, m, v)
        PROVE  ~UsesVector(t)'
    BY <2>4 DEF IoctlSet, Idle
  <2>5. ASSUME NEW p \in Task, NEW m \in Module, NEW v \in Vector, Clone2(t, p, m, v)
        PROVE  ~UsesVector(t)'
    BY <2>5 DEF Clone2, Idle
  <2> QED
    BY <1>2, <2>1, <2>2, <2>3, <2>4, <2>5 DEF Begin
<1>3. CASE CopyFails(t)
  BY <1>3, ReturnMoves DEF CopyFails, Idle
<1>4. CASE CallStep(t)
  BY <1>4 DEF CallStep, Gate, ReadNode, EnterModule, LeaveModule, LeaveCall, Idle
<1>5. CASE AcquireLock(t) \/ Unlock(t) \/ Die(t) \/ Oops(t)
  BY <1>5 DEF AcquireLock, Unlock, Die, Oops, Idle
<1> QED
  BY <1>1, <1>2, <1>3, <1>4, <1>5 DEF ProcessStep, Progress

LEMMA ModuleMoves ==
  ASSUME TypeOK, NEW t \in Task, ProcessStep(t), Phase(t)
  PROVE  UNCHANGED mstate
<1> USE DEF memory, kernel, local
<1>1. CASE HelperStep(t)
  BY <1>1, HelperGoes
<1>2. CASE Begin(t)
  BY <1>2 DEF Begin, IoctlSet, Clone2, Fork, BeginCall, ExitGroup, Spawn
<1>3. CASE CallStep(t)
  BY <1>3 DEF CallStep, Gate, ReadNode, EnterModule, LeaveModule
<1>4. CASE AcquireLock(t) \/ CopyFails(t) \/ Unlock(t) \/ Die(t) \/ Oops(t)
  BY <1>4 DEF AcquireLock, CopyFails, Unlock, Die, Oops
<1> QED
  BY <1>1, <1>2, <1>3, <1>4 DEF ProcessStep, Progress

LEMMA ApartProcess ==
  ASSUME Undisturbed, Shape, NEW t \in Task, ProcessStep(t)
  PROVE  \A u \in Task : Apart(u)'
<1> USE DEF Shape
<1>1. UNCHANGED mstate /\ Moves(t)
  BY ModuleMoves, ProcessMoves
<1>2. ASSUME NEW u \in Task \ {t}, Setting(u)
      PROVE  Apart(u)'
  <2>1. pc'[u] = pc[u] /\ req'[u] = req[u]
    BY <1>1 DEF Moves
  <2>2. ASSUME NEW w \in Task, req[u].via = "clone2", Setting(w)', req'[w].pid = req[u].pid
        PROVE  w = u \/ req[u].pid = None
    <3>1. CASE w = t
      BY <1>2, <2>2, <3>1, SettingMoves DEF Apart
    <3>2. CASE w # t
      BY <1>1, <1>2, <2>2, <3>2 DEF Apart, Moves, Setting
    <3> QED
      BY <3>1, <3>2
  <2>3. ASSUME req[u].pid \in Task \ {u}
        PROVE  ~UsesVector(req[u].pid)'
    <3>1. CASE req[u].pid = t
      <4>1. Targeted(t) /\ ~UsesVector(t)
        BY <1>2, <2>3, <3>1 DEF Apart, Targeted
      <4>2. ~UsesVector(t)'
        BY <4>1, UsesMoves
      <4> QED
        BY <1>1, <3>1, <4>2 DEF Moves, UsesVector
    <3>2. CASE req[u].pid # t
      BY <1>1, <1>2, <2>3, <3>2 DEF Apart, Moves, UsesVector
    <3> QED
      BY <3>1, <3>2
  <2> QED
    BY <1>1, <1>2, <2>1, <2>2, <2>3 DEF Apart, Setting
<1>3. ASSUME Setting(t)'
      PROVE  Apart(t)'
  <2>1. ASSUME NEW w \in Task, req'[t].via = "clone2", Setting(w)', req'[w].pid = req'[t].pid
        PROVE  w = t \/ req'[t].pid = None
    BY <1>1, <1>3, <2>1, SettingMoves DEF Apart, Moves, Setting
  <2>2. ASSUME req'[t].pid \in Task \ {t}
        PROVE  ~UsesVector(req[t].pid)'
    BY <1>1, <1>3, <2>2, SettingMoves DEF Apart, Moves, UsesVector
  <2>3. \A m \in Module : mstate'[m] # "going"
    BY <1>1, <1>3, SettingMoves DEF Apart
  <2>4. ASSUME pc'[t] \in HelperPC \ {"find"}, req'[t].vector # Zero
        PROVE  mstate'[req'[t].module] = "live"
    <3>1. Setting(t) /\ req'[t] = req[t] /\ pc[t] \in HelperPC
      BY <1>3, <2>4, TargetMoves
    <3>2. req[t].module \in Module
      BY <3>1 DEF Phase
    <3>3. CASE pc[t] = "find"
      BY <1>1, <2>3, <2>4, <3>1, <3>2, <3>3, TargetMoves DEF TypeOK
    <3>4. CASE pc[t] # "find"
      BY <1>1, <2>4, <3>1, <3>4 DEF Apart
    <3> QED
      BY <3>3, <3>4
  <2> QED
    BY <2>1, <2>2, <2>3, <2>4 DEF Apart
<1> QED
  BY <1>1, <1>2, <1>3 DEF Apart, Moves, Setting

(* The environment moves a process at most from user mode to its end, and  *)
(* reaps none that somebody is about.                                      *)
LEMMA EnvironmentMoves ==
  ASSUME Undisturbed, TypeOK, Environment
  PROVE  /\ UNCHANGED <<req, node, Lock, used, module_addr, sv>>
         /\ \A u \in Task :
              \/ pc'[u] = pc[u] /\ life'[u] = life[u]
              \/ pc'[u] = "dead" /\ pc[u] = "user" /\ life[u] = "live" /\ life'[u] = "zombie"
              \/ pc'[u] = pc[u] /\ life[u] = "zombie" /\ life'[u] = "reaped" /\ ~Targeted(u)
         /\ \A m \in Module :
              \/ mstate'[m] = mstate[m]
              \/ mstate[m] = "going"
              \/ mstate[m] = "out" /\ mstate'[m] = "live"
              \/ mstate'[m] = "going" /\ \A t \in Task : ~Setting(t)
<1> USE DEF Undisturbed, TypeOK, memory, kernel, local, Goto
<1>1. ASSUME NEW t \in Task, Kill(t)
      PROVE  /\ UNCHANGED <<req, node, Lock, used, module_addr, sv, mstate>>
             /\ pc'[t] = "dead" /\ pc[t] = "user" /\ life[t] = "live" /\ life'[t] = "zombie"
             /\ \A u \in Task \ {t} : pc'[u] = pc[u] /\ life'[u] = life[u]
  BY <1>1 DEF Kill, Running
<1>2. ASSUME NEW t \in Task, Reap(t)
      PROVE  /\ UNCHANGED <<req, node, Lock, used, module_addr, sv, mstate, pc>>
             /\ life[t] = "zombie" /\ life'[t] = "reaped" /\ ~Targeted(t)
             /\ \A u \in Task \ {t} : life'[u] = life[u]
  BY <1>2 DEF Reap, FreeToRun
<1>3. ASSUME NEW m \in Module, LoadModule(m)
      PROVE  /\ UNCHANGED <<req, node, Lock, used, module_addr, sv, pc, life>>
             /\ mstate[m] = "out" /\ mstate'[m] = "live"
             /\ \A n \in Module \ {m} : mstate'[n] = mstate[n]
  BY <1>3 DEF LoadModule
<1>4. ASSUME NEW m \in Module, BeginUnload(m)
      PROVE  /\ UNCHANGED <<req, node, Lock, used, module_addr, sv, pc, life>>
             /\ mstate'[m] = "going" /\ \A t \in Task : ~Setting(t)
             /\ \A n \in Module \ {m} : mstate'[n] = mstate[n]
  BY <1>4 DEF BeginUnload
<1>5. ASSUME NEW m \in Module, FinishUnload(m)
      PROVE  /\ UNCHANGED <<req, node, Lock, used, module_addr, sv, pc, life>>
             /\ mstate[m] = "going"
             /\ \A n \in Module \ {m} : mstate'[n] = mstate[n]
  BY <1>5 DEF FinishUnload
<1>6. CASE \E t \in Task : Kill(t)
  BY <1>1, <1>6
<1>7. CASE \E t \in Task : Reap(t)
  BY <1>2, <1>7
<1>8. CASE \E m \in Module : LoadModule(m) \/ BeginUnload(m) \/ FinishUnload(m)
  BY <1>3, <1>4, <1>5, <1>8
<1> QED
  BY <1>6, <1>7, <1>8 DEF Environment

LEMMA ShapeEnvironment ==
  ASSUME Undisturbed, Shape, Environment
  PROVE  \A u \in Task : (Phase(u) /\ Living(u) /\ Apart(u))'
<1> SUFFICES ASSUME NEW u \in Task
             PROVE  (Phase(u) /\ Living(u) /\ Apart(u))'
  OBVIOUS
<1> USE DEF Shape
<1>1. Phase(u)'
  BY EnvironmentMoves DEF Phase, Setting, Attaching, HelperPC, CallPC, Dropping
<1>2. Living(u)'
  <2>1. pc[u] \in HelperPC \ {"find"} => TaskExists(req[u].pid)'
    <3>1. CASE req[u].via = "exit"
      BY <3>1, EnvironmentMoves DEF Phase, Living, TaskExists, HelperPC
    <3>2. CASE Setting(u)
      BY <3>2, EnvironmentMoves DEF Phase, Living, TaskExists, Targeted, HelperPC
    <3> QED
      BY <3>1, <3>2 DEF Phase, Setting
  <2> QED
    BY <2>1, EnvironmentMoves DEF Living, HelperPC
<1>3. Apart(u)'
  <2>1. \A w \in Task : Setting(w)' = Setting(w) /\ (UsesVector(w)' => UsesVector(w))
    BY EnvironmentMoves DEF Setting, UsesVector
  <2>2. pc'[u] \in HelperPC => pc[u] = pc'[u]
    BY EnvironmentMoves DEF HelperPC
  <2>3. CASE Setting(u)
    <3>1. \A m \in Module : mstate'[m] # "going" /\ (mstate[m] = "live" => mstate'[m] = "live")
      BY <2>3, EnvironmentMoves DEF Apart
    <3>2. req[u].module \in Module
      BY <2>3 DEF Phase
    <3>3. req[u].pid \in Task \ {u} => ~UsesVector(req[u].pid)'
      BY <2>3, EnvironmentMoves DEF Apart, UsesVector
    <3> QED
      BY <2>1, <2>2, <2>3, <3>1, <3>2, <3>3, EnvironmentMoves DEF Apart
  <2> QED
    BY <2>1, <2>3 DEF Apart
<1> QED
  BY <1>1, <1>2, <1>3

LEMMA ShapeInit == Init => Shape
<1> SUFFICES ASSUME Init PROVE Shape
  OBVIOUS
<1>1. TypeOK /\ HolderLocked
  BY TypeInit, HolderInit
<1>2. \A t \in Task : Phase(t) /\ Living(t) /\ Apart(t)
  BY DEF Init, Phase, Living, Apart, Setting, Attaching, HelperPC, CallPC, Idle
<1> QED
  BY <1>1, <1>2 DEF Shape

LEMMA ShapeStep ==
  ASSUME Undisturbed, Shape, Next
  PROVE  Shape'
<1>1. TypeOK'
  <2>1. Typed'
    BY TypedIs, TypedStep DEF Shape
  <2>2. Lock' \in Task \cup {None}
    BY LockStep DEF Shape, TypeOK
  <2> QED
    BY <2>1, <2>2 DEF TypeOK, Typed
<1>2. HolderLocked'
  BY TypedIs, HolderStep DEF Shape
<1>3. ASSUME NEW t \in Task, ProcessStep(t)
      PROVE  \A u \in Task : (Phase(u) /\ Living(u) /\ Apart(u))'
  <2>1. \A u \in Task : Phase(u)'
    BY <1>3, PhaseProcess, ProcessMoves DEF Shape, Moves, Phase, Setting
  <2> QED
    BY <1>3, <2>1, LivingProcess, ApartProcess DEF Shape
<1> QED
  BY <1>1, <1>2, <1>3, ShapeEnvironment DEF Next, ProcessStep, Shape

LEMMA ShapeStutter ==
  ASSUME Shape, UNCHANGED vars
  PROVE  Shape'
BY DEF Shape, vars, memory, kernel, local, TypeOK, HolderLocked, Locked, Phase, Living, Apart,
   Setting, TaskExists, UsesVector

(* At most one process works on the vector of another, and none on that of *)
(* a process that is in a hooked call or past the hooked exit.             *)
LEMMA Sole ==
  Shape => \A t, u, p \in Task : Working(t, p) /\ Working(u, p) => t = u
<1> SUFFICES ASSUME Shape, NEW t \in Task, NEW u \in Task, NEW p \in Task,
                    Working(t, p), Working(u, p), t # u
             PROVE  FALSE
  OBVIOUS
<1> USE DEF Shape, Working
<1>1. CASE req[t].via = "exit" \/ req[u].via = "exit"
  BY <1>1, RouterAssumption DEF Phase, Apart, UsesVector, Setting
<1>2. CASE req[t].via = "ioctl" /\ req[u].via = "ioctl"
  BY <1>2 DEF HolderLocked, Locked
<1>3. CASE Setting(t) /\ Setting(u) /\ (req[t].via = "clone2" \/ req[u].via = "clone2")
  BY <1>3, RouterAssumption DEF Apart
<1> QED
  BY <1>1, <1>2, <1>3 DEF Phase, Setting

LEMMA NoWorker ==
  Shape => \A t, u \in Task : req[u].via = "call" \/ pc[u] = "die" => ~Working(t, u)
<1> SUFFICES ASSUME Shape, NEW t \in Task, NEW u \in Task, req[u].via = "call" \/ pc[u] = "die", Working(t, u)
             PROVE  FALSE
  OBVIOUS
<1> USE DEF Shape, Working
<1>1. CASE t = u
  BY <1>1 DEF Phase, HelperPC
<1>2. CASE t # u
  BY <1>2 DEF Phase, Apart, UsesVector, Setting
<1> QED
  BY <1>1, <1>2

LEMMA SoleNext ==
  Shape' => /\ \A t, u, p \in Task : Working(t, p)' /\ Working(u, p)' => t = u
            /\ \A t, u \in Task : req'[u].via = "call" \/ pc'[u] = "die" => ~Working(t, u)'
<1>1. Shape' => (\A t, u, p \in Task : Working(t, p) /\ Working(u, p) => t = u)'
  BY Sole, PTL
<1>2. Shape' => (\A t, u \in Task : req[u].via = "call" \/ pc[u] = "die" => ~Working(t, u))'
  BY NoWorker, PTL
<1> QED
  BY <1>1, <1>2

(* A process in user mode that nobody is about has no worker.              *)
LEMMA Unworked ==
  ASSUME Shape, NEW p \in Task, ~Targeted(p), pc[p] \notin HelperPC, NEW t \in Task
  PROVE  ~Working(t, p)
BY DEF Shape, Working, Phase, Targeted, Setting

-----------------------------------------------------------------------------
(***************************************************************************)
(* Safety: exact counts, one owner of every structure, no bad access,      *)
(* consistent calls, and that Router implements Registry, as long as       *)
(* nobody disturbs a SET: the hazards "target", "clone" and "admin" do not *)
(* occur.  What also holds when processes are killed or allocations fail   *)
(* is said at each theorem.                                                *)
(***************************************************************************)
Unfilled  == {"addr", "inc", "mod", "sv"}

(* A process at one of the points ls is working on the vector of p.        *)
Half(p, ls) == \E t \in Task : Working(t, p) /\ pc[t] \in ls

(***************************************************************************)
(* The inductive invariant, part by part, on top of Shape.                 *)
(***************************************************************************)
(* The structure a process points to is allocated and filled in, unless    *)
(* somebody is just doing it; no two processes share one.                  *)
HeapAt(p) ==
  /\ sys_vector[p] \in used \cup {None} \/ Clearing(p)
  /\ life[p] \in {"none", "reaped"} \/ pc[p] = "die" => sys_vector[p] = None
  /\ sys_vector[p] \in used /\ ~Clearing(p) =>
       /\ ~Half(p, {"addr"}) => module_addr[sys_vector[p]] \in Module
       /\ ~Half(p, Unfilled) => sv[sys_vector[p]] \in Vector \cup {Zero}
Distinct(p, q) ==
  sys_vector[p] = sys_vector[q] => sys_vector[p] = None \/ Clearing(p) \/ Clearing(q)
Heap ==
  /\ \A p \in Task : HeapAt(p)
  /\ \A p, q \in Task : p # q => Distinct(p, q)

(* What a process has seen is still so.                                    *)
Seen(t) ==
  LET p == req[t].pid
      a == sys_vector[p]
  IN /\ pc[t] \in {"old", "test", "put", "free", "inc", "mod", "sv"} => a \in used
     /\ pc[t] = "addr" => a \in used \/ ("oom" \in Hazards /\ a = None)
     /\ pc[t] = "alloc" => a = None
     /\ pc[t] \in {"test", "put"} => node[t] = module_addr[a]
     /\ pc[t] = "sv" => module_addr[a] = req[t].module
     /\ pc[t] \in CallPC => a \in used
     /\ pc[t] \in {"enter", "body"} => node[t] = module_addr[a]
     /\ pc[t] \in {"node", "enter", "body"} => req[t].call \in sv[a]

(* The count of a module is never too small, and exact if nobody dies      *)
(* without exit_group.                                                     *)
Tally(m) == {p \in Task : Counted(p, m)}
Count(m) ==
  /\ refcnt[m] >= Cardinality(Tally(m))
  /\ Hazards = {} => refcnt[m] = Cardinality(Tally(m))
Counts == \A m \in Module : Count(m)

Pinned == \A p \in Task, m \in Module : Counted(p, m) => mstate[m] = "live"

(* Nothing allocated is lost, a dead process has no vector, and nobody     *)
(* works on that of one.                                                   *)
Owned == \A a \in used : \E p \in Task : sys_vector[p] = a /\ ~Clearing(p)
DeadDetached == \A t \in Task : pc[t] \in {"dead", "oops"} => sys_vector[t] = None
TargetsAlive == \A t \in Task : Setting(t) /\ req[t].pid \in Task => life[req[t].pid] # "zombie"
Reachable == Hazards = {} => Owned /\ DeadDetached /\ TargetsAlive

IInv  == Shape /\ Heap /\ (\A t \in Task : Seen(t)) /\ Counts /\ Pinned /\ Reachable

-----------------------------------------------------------------------------
(* Half, of the process that t works on, and of all others.                *)
LEMMA HalfMine ==
  ASSUME Shape, NEW t \in Task, NEW p \in Task, Working(t, p), NEW ls
  PROVE  Half(p, ls) <=> pc[t] \in ls
BY Sole DEF Half

LEMMA HalfMineNext ==
  ASSUME Shape, NEW t \in Task, NEW p \in Task, Working(t, p), Moves(t), NEW ls
  PROVE  Half(p, ls)' <=> Working(t, p)' /\ pc'[t] \in ls
BY Sole DEF Half, Moves, Working

LEMMA HalfOther ==
  ASSUME NEW t \in Task, NEW p \in Task, ~Working(t, p), ~Working(t, p)' \/ pc'[t] \in {"find", "peek"}, Moves(t),
         NEW ls, {"find", "peek"} \cap ls = {}
  PROVE  Half(p, ls)' <=> Half(p, ls)
BY DEF Half, Moves, Working

-----------------------------------------------------------------------------
(* A step that is about p leaves the structures of all other processes.    *)
Elsewhere(p) ==
  \A q \in Task \ {p} :
    /\ sys_vector'[q] = sys_vector[q]
    /\ sys_vector[q] \in used /\ ~Clearing(q) =>
         /\ sys_vector[q] \in used'
         /\ module_addr'[sys_vector[q]] = module_addr[sys_vector[q]]
         /\ sv'[sys_vector[q]] = sv[sys_vector[q]]

(* ... and leaves them half-done or done, as they were.                    *)
KeepsHalf(q) ==
  /\ Clearing(q) => Clearing(q)'
  /\ Half(q, {"addr"}) => Half(q, {"addr"})'
  /\ Half(q, Unfilled) => Half(q, Unfilled)'
KeepsLife(q) ==
  life'[q] \in {"none", "reaped"} \/ pc'[q] = "die" => life[q] \in {"none", "reaped"} \/ pc[q] = "die"

LEMMA HeapElsewhere ==
  ASSUME TypeOK, TypeOK', Heap, NEW p \in Task, Elsewhere(p), HeapAt(p)',
         \A q \in Task \ {p} : KeepsHalf(q) /\ KeepsLife(q),
         \/ sys_vector'[p] = None
         \/ sys_vector'[p] = sys_vector[p] /\ (Clearing(p) => Clearing(p)')
         \/ sys_vector'[p] \notin used
  PROVE  Heap'
<1>1. ASSUME NEW q \in Task \ {p}
      PROVE  HeapAt(q)'
  BY <1>1, RouterAssumption DEF Heap, HeapAt, Elsewhere, KeepsHalf, KeepsLife, TypeOK
<1>2. ASSUME NEW q \in Task \ {p}
      PROVE  Distinct(p, q)'
  BY <1>2, RouterAssumption DEF Heap, HeapAt, Distinct, Elsewhere, KeepsHalf, TypeOK
<1>3. ASSUME NEW q \in Task \ {p}, NEW r \in Task \ {p}, q # r
      PROVE  Distinct(q, r)'
  BY <1>3 DEF Heap, Distinct, Elsewhere, KeepsHalf
<1>4. ASSUME NEW q \in Task \ {p}
      PROVE  Distinct(q, p)'
  BY <1>2, <1>4 DEF Distinct
<1> QED
  BY <1>1, <1>2, <1>3, <1>4 DEF Heap

LEMMA HeapQuiet ==
  ASSUME TypeOK, Heap, UNCHANGED memory,
         \A q \in Task : (KeepsHalf(q) /\ KeepsLife(q)) \/ sys_vector[q] = None
  PROVE  Heap'
<1>1. ASSUME NEW q \in Task
      PROVE  HeapAt(q)'
  BY <1>1, RouterAssumption DEF Heap, HeapAt, KeepsHalf, KeepsLife, TypeOK, memory
<1>2. ASSUME NEW q \in Task, NEW r \in Task, q # r
      PROVE  Distinct(q, r)'
  BY <1>2 DEF Heap, Distinct, KeepsHalf, memory
<1> QED
  BY <1>1, <1>2 DEF Heap

(* No other process points to the structure of p.                          *)
LEMMA OtherMemory ==
  ASSUME Heap, NEW p \in Task, NEW q \in Task \ {p}, ~Clearing(p), ~Clearing(q),
         sys_vector[p] # None
  PROVE  sys_vector[q] # sys_vector[p]
BY DEF Heap, Distinct

(* What a process has seen does not change by a step that is about another.*)
SeenPC == {"old", "test", "put", "free", "inc", "mod", "sv", "addr", "alloc"} \cup CallPC

LEMMA SeenUnlessClearing ==
  ASSUME Shape, NEW u \in Task, pc[u] \in SeenPC
  PROVE  /\ req[u].pid \in Task /\ ~Clearing(req[u].pid)
         /\ pc[u] \in HelperPC => Working(u, req[u].pid)
         /\ pc[u] \in CallPC => req[u].pid = u
<1>1. pc[u] \in HelperPC \ {"find"} \/ pc[u] \in CallPC
  BY DEF SeenPC, HelperPC, CallPC
<1>2. CASE pc[u] \in HelperPC \ {"find"}
  <2>1. req[u].pid \in Task /\ Working(u, req[u].pid)
    BY <1>2 DEF Shape, Living, Working
  <2>2. Clearing(req[u].pid) <=> pc[u] = "null"
    BY <2>1, Sole DEF Clearing
  <2> QED
    BY <1>2, <2>1, <2>2 DEF SeenPC, HelperPC, CallPC
<1>3. CASE pc[u] \in CallPC
  <2>1. req[u].via = "call" /\ req[u].pid = u
    BY <1>3 DEF Shape, Phase
  <2>2. ~Clearing(u)
    BY <2>1, NoWorker DEF Clearing
  <2> QED
    BY <1>3, <2>1, <2>2 DEF HelperPC, CallPC
<1> QED
  BY <1>1, <1>2, <1>3

LEMMA SeenElsewhere ==
  ASSUME Shape, NEW p \in Task, Elsewhere(p), NEW u \in Task, Seen(u),
         pc'[u] = pc[u], req'[u] = req[u], node'[u] = node[u],
         pc[u] \in SeenPC => req[u].pid # p
  PROVE  Seen(u)'
<1>1. CASE pc[u] \in SeenPC
  <2>1. req[u].pid \in Task \ {p} /\ ~Clearing(req[u].pid)
    BY <1>1, SeenUnlessClearing
  <2>2. sys_vector'[req[u].pid] = sys_vector[req[u].pid]
    BY <2>1 DEF Elsewhere
  <2>3. CASE sys_vector[req[u].pid] \in used
    BY <2>1, <2>2, <2>3 DEF Elsewhere, Seen, CallPC
  <2>4. CASE sys_vector[req[u].pid] \notin used
    BY <2>1, <2>2, <2>4 DEF Seen, CallPC
  <2> QED
    BY <2>3, <2>4
<1>2. CASE pc[u] \notin SeenPC
  BY <1>2 DEF Seen, SeenPC, CallPC
<1> QED
  BY <1>1, <1>2

LEMMA SeenQuiet ==
  ASSUME UNCHANGED memory, NEW u \in Task, Seen(u),
         pc'[u] = pc[u], req'[u] = req[u], node'[u] = node[u]
  PROVE  Seen(u)'
BY DEF Seen, memory, CallPC

-----------------------------------------------------------------------------
(* The steps of the helper on the heap.                                    *)
LEMMA Keeps ==
  ASSUME Shape, NEW t \in Task, ProcessStep(t), NEW q \in Task, ~Working(t, q),
         q # t \/ pc'[t] # "die"
  PROVE  KeepsHalf(q) /\ KeepsLife(q)
<1>1. Moves(t)
  BY ProcessMoves DEF Shape
<1>2. KeepsHalf(q)
  BY <1>1 DEF KeepsHalf, Half, Clearing, Moves, Working
<1>3. KeepsLife(q)
  BY <1>1, LifeMoves DEF Shape, KeepsLife, Moves
<1> QED
  BY <1>2, <1>3

LEMMA KeepsOthers ==
  ASSUME Shape, NEW t \in Task, HelperStep(t), NEW q \in Task, q # req[t].pid
  PROVE  ~Working(t, q) /\ KeepsHalf(q) /\ KeepsLife(q)
<1>1. ~Working(t, q)
  BY DEF Working
<1>2. q # t \/ pc'[t] # "die"
  <2>1. TypeOK /\ Phase(t)
    BY DEF Shape
  <2>2. pc'[t] = "die" => req[t].via = "exit"
    BY <2>1, HelperGoes DEF HelperPC
  <2>3. req[t].via = "exit" => req[t].pid = t
    BY <2>1 DEF Phase
  <2> QED
    BY <2>2, <2>3
<1>3. ProcessStep(t)
  BY DEF ProcessStep, Progress
<1> QED
  BY <1>1, <1>2, <1>3, Keeps

(* Where a process of the helper stands, and what its memory is like.      *)
LEMMA AtWork ==
  ASSUME Shape, NEW t \in Task, pc[t] \in HelperPC \ {"find"}
  PROVE  /\ req[t].pid \in Task /\ Working(t, req[t].pid)
         /\ TaskExists(req[t].pid)
         /\ Clearing(req[t].pid) <=> pc[t] = "null"
         /\ \A ls : Half(req[t].pid, ls) <=> pc[t] \in ls
         /\ pc[req[t].pid] # "die"
<1>1. req[t].pid \in Task /\ Working(t, req[t].pid) /\ TaskExists(req[t].pid)
  BY DEF Shape, Living, Working
<1>2. Clearing(req[t].pid) <=> pc[t] = "null"
  BY <1>1, Sole DEF Clearing
<1>3. \A ls : Half(req[t].pid, ls) <=> pc[t] \in ls
  BY <1>1, HalfMine
<1>4. pc[req[t].pid] # "die"
  BY <1>1, NoWorker
<1> QED
  BY <1>1, <1>2, <1>3, <1>4

LEMMA AfterWork ==
  ASSUME Shape, NEW t \in Task, HelperStep(t), pc[t] \in HelperPC \ {"find"}, NEW p, p = req[t].pid
  PROVE  \/ /\ pc'[t] \in HelperPC \ {"find"}
            /\ Clearing(p)' <=> pc'[t] = "null"
            /\ \A ls : Half(p, ls)' <=> pc'[t] \in ls
         \/ /\ pc'[t] \in {"unlock", "user", "die"}
            /\ ~Clearing(p)'
            /\ \A ls : ~Half(p, ls)'
<1>0. TypeOK /\ Phase(t)
  BY DEF Shape
<1>1. p \in Task /\ Working(t, p) /\ Moves(t)
  BY <1>0, AtWork, HelperMovesAll
<1>2. \A u \in Task : Working(u, p) => u = t
  BY <1>1, Sole
<1>3. \A u \in Task \ {t} : ~Working(u, p)'
  BY <1>1, <1>2 DEF Moves, Working
<1>4. CASE pc'[t] \in HelperPC \ {"find"} /\ req'[t] = req[t]
  <2>1. Working(t, p)'
    BY <1>4 DEF Working
  <2>2. Clearing(p)' <=> pc'[t] = "null"
    BY <1>3, <2>1 DEF Clearing
  <2>3. \A ls : Half(p, ls)' <=> pc'[t] \in ls
    BY <1>3, <2>1 DEF Half
  <2> QED
    BY <1>4, <2>2, <2>3
<1>5. CASE pc'[t] \in {"unlock", "user", "die"}
  <2>1. ~Working(t, p)'
    BY <1>5 DEF Working, HelperPC
  <2>2. ~Clearing(p)'
    BY <1>3, <2>1 DEF Clearing
  <2>3. \A ls : ~Half(p, ls)'
    BY <1>3, <2>1 DEF Half
  <2> QED
    BY <1>5, <2>2, <2>3
<1> QED
  BY <1>0, <1>4, <1>5, HelperGoes

LEMMA QuietElsewhere ==
  ASSUME UNCHANGED memory, NEW p
  PROVE  Elsewhere(p)
BY DEF memory, Elsewhere

(* The structure of p once its worker t has taken a step.                  *)
LEMMA HeapAtNext ==
  ASSUME Shape, Shape', NEW t \in Task, HelperStep(t), pc[t] \in HelperPC \ {"find"},
         NEW p, p = req[t].pid,
         pc'[t] = "null" \/ sys_vector'[p] \in used' \cup {None},
         pc'[t] = "die" => sys_vector'[p] = None,
         sys_vector'[p] \in used' /\ pc'[t] \notin {"null", "addr"} => module_addr'[sys_vector'[p]] \in Module,
         sys_vector'[p] \in used' /\ pc'[t] \notin Unfilled \cup {"null"} =>
           sv'[sys_vector'[p]] \in Vector \cup {Zero}
  PROVE  HeapAt(p)'
<1>1. p \in Task /\ TaskExists(p) /\ TypeOK /\ Phase(t)
  BY AtWork DEF Shape
<1>2. life'[p] \notin {"none", "reaped"}
  BY <1>1, HelperGoes DEF TaskExists
<1>3. pc'[p] = "die" => sys_vector'[p] = None
  <2>1. Moves(t)
    BY <1>1, HelperMovesAll
  <2> QED
    BY <1>1, <2>1, AtWork DEF Moves
<1>4. sys_vector'[p] \in used' \cup {None} \/ Clearing(p)'
  BY AfterWork
<1>5. ASSUME sys_vector'[p] \in used', ~Clearing(p)'
      PROVE  /\ ~Half(p, {"addr"})' => module_addr'[sys_vector'[p]] \in Module
             /\ ~Half(p, Unfilled)' => sv'[sys_vector'[p]] \in Vector \cup {Zero}
  <2>1. Clearing(p)' <=> pc'[t] = "null"
    BY AfterWork
  <2>2. Half(p, {"addr"})' <=> pc'[t] = "addr"
    BY AfterWork
  <2>3. Half(p, Unfilled)' <=> pc'[t] \in Unfilled
    BY AfterWork DEF Unfilled
  <2> QED
    BY <1>5, <2>1, <2>2, <2>3
<1> QED
  BY <1>2, <1>3, <1>4, <1>5 DEF HeapAt

(* What the worker of p can rely on.                                       *)
LEMMA HeapAtNow ==
  ASSUME Shape, Heap, NEW t \in Task, pc[t] \in HelperPC \ {"find"}, NEW p, p = req[t].pid
  PROVE  /\ p \in Task
         /\ pc[t] = "null" \/ sys_vector[p] \in used \cup {None}
         /\ sys_vector[p] \in used /\ pc[t] \notin {"null", "addr"} => module_addr[sys_vector[p]] \in Module
         /\ sys_vector[p] \in used /\ pc[t] \notin Unfilled \cup {"null"} => sv[sys_vector[p]] \in Vector \cup {Zero}
         /\ pc[t] # "null" /\ sys_vector[p] # None =>
              \A q \in Task \ {p} : ~Clearing(q) => sys_vector[q] # sys_vector[p]
<1>1. p \in Task /\ HeapAt(p) /\ (Clearing(p) <=> pc[t] = "null")
  BY AtWork DEF Heap
<1>2. Half(p, {"addr"}) <=> pc[t] \in {"addr"}
  BY AtWork
<1>3. Half(p, Unfilled) <=> pc[t] \in Unfilled
  BY AtWork
<1>4. pc[t] # "null" /\ sys_vector[p] # None =>
        \A q \in Task \ {p} : ~Clearing(q) => sys_vector[q] # sys_vector[p]
  BY <1>1, OtherMemory
<1> QED
  BY <1>1, <1>2, <1>3, <1>4 DEF HeapAt

(* Each step of the helper is about one process, and leaves its structure  *)
(* as filled in as the point it leads to says.                             *)
HelperTouches(p) ==
  /\ Elsewhere(p)
  /\ HeapAt(p)'
  /\ \/ sys_vector'[p] = None
     \/ sys_vector'[p] = sys_vector[p] /\ (Clearing(p) => Clearing(p)')
     \/ sys_vector'[p] \notin used

LEMMA TouchesQuiet ==
  ASSUME Shape, Shape', Heap, NEW t \in Task, Seen(t), NEW p, p = req[t].pid,
         Peek(t) \/ ReadOld(t) \/ DecrementTest(t) \/ DecrementPut(t) \/ Increment(t)
  PROVE  HelperTouches(p)
<1>1. HelperStep(t) /\ UNCHANGED memory
  BY DEF HelperStep, Peek, ReadOld, DecrementTest, DecrementPut, Increment
<1>2. pc[t] \in {"peek", "old", "test", "put", "inc"}
  BY DEF Peek, ReadOld, DecrementTest, DecrementPut, Increment, At
<1>3. pc[t] \in HelperPC \ {"find"} /\ pc[t] # "null"
  BY <1>2 DEF HelperPC
<1>4. Elsewhere(p)
  BY <1>1, QuietElsewhere
<1>5. sys_vector'[p] = sys_vector[p] /\ (Clearing(p) => Clearing(p)')
  BY <1>1, <1>3, AtWork DEF memory
<1>6. pc'[t] # "null" /\ (pc'[t] \notin Unfilled => pc[t] # "inc")
      /\ (pc'[t] = "die" => pc[t] = "peek" /\ sys_vector[p] = None)
  <2>1. CASE Peek(t)
    BY <2>1 DEF Shape, TypeOK, Goto, Return, Peek, At
  <2>2. CASE ReadOld(t)
    BY <2>2 DEF Shape, TypeOK, Goto, ReadOld, At
  <2>3. CASE DecrementTest(t) \/ DecrementPut(t)
    BY <2>3 DEF Shape, TypeOK, Goto, DecrementTest, DecrementPut, AfterDecrement, At
  <2>4. CASE Increment(t)
    BY <2>4 DEF Shape, TypeOK, Goto, Increment, At, Unfilled
  <2> QED
    BY <2>1, <2>2, <2>3, <2>4
<1>7. HeapAt(p)'
  BY <1>1, <1>2, <1>3, <1>6, HeapAtNow, HeapAtNext DEF memory, Unfilled
<1> QED
  BY <1>4, <1>5, <1>7 DEF HelperTouches

LEMMA TouchesFree ==
  ASSUME Shape, Shape', Heap, NEW t \in Task, Seen(t), NEW p, p = req[t].pid, FreeVector(t)
  PROVE  HelperTouches(p)
<1>1. HelperStep(t)
  BY DEF HelperStep
<1>2. pc[t] = "free" /\ pc'[t] = "null" /\ pc[t] \in HelperPC \ {"find"}
  BY DEF FreeVector, At, Goto, Shape, TypeOK, HelperPC
<1>3. sys_vector[p] \in used /\ sys_vector[p] # None
  BY <1>2, RouterAssumption DEF Seen, Shape, TypeOK
<1>4. /\ sys_vector' = sys_vector /\ used' = used \ {sys_vector[p]}
      /\ module_addr' = [module_addr EXCEPT ![sys_vector[p]] = None]
      /\ sv' = [sv EXCEPT ![sys_vector[p]] = None]
  BY <1>3 DEF FreeVector, Kfree
<1>5. Elsewhere(p)
  BY <1>2, <1>3, <1>4, HeapAtNow DEF Elsewhere, Shape, TypeOK
<1>6. Clearing(p)'
  BY <1>1, <1>2, AfterWork
<1>7. HeapAt(p)'
  BY <1>1, <1>2, HeapAtNext
<1> QED
  BY <1>4, <1>5, <1>6, <1>7 DEF HelperTouches

LEMMA TouchesClear ==
  ASSUME Shape, Shape', Heap, NEW t \in Task, Seen(t), NEW p, p = req[t].pid, ClearVector(t)
  PROVE  HelperTouches(p)
<1>1. HelperStep(t)
  BY DEF HelperStep
<1>2. pc[t] = "null" /\ pc[t] \in HelperPC \ {"find"} /\ p \in Task
  BY AtWork DEF ClearVector, At, HelperPC
<1>3. sys_vector' = [sys_vector EXCEPT ![p] = None] /\ UNCHANGED <<used, module_addr, sv>>
  BY DEF ClearVector
<1>4. sys_vector'[p] = None
  BY <1>2, <1>3 DEF Shape, TypeOK
<1>5. Elsewhere(p)
  BY <1>2, <1>3 DEF Elsewhere, Shape, TypeOK
<1>6. None \notin used'
  BY RouterAssumption DEF Shape, TypeOK
<1>7. HeapAt(p)'
  BY <1>1, <1>2, <1>4, <1>6, HeapAtNext
<1> QED
  BY <1>4, <1>5, <1>7 DEF HelperTouches

LEMMA TouchesAlloc ==
  ASSUME Shape, Shape', Heap, NEW t \in Task, Seen(t), NEW p, p = req[t].pid, AllocVector(t)
  PROVE  HelperTouches(p)
<1>1. HelperStep(t)
  BY DEF HelperStep
<1>2. pc[t] = "alloc" /\ pc'[t] = "addr" /\ pc[t] \in HelperPC \ {"find"} /\ p \in Task
  BY AtWork DEF AllocVector, At, Goto, Shape, TypeOK, HelperPC
<1>3. UNCHANGED <<module_addr, sv>>
  BY DEF AllocVector
<1>4. PICK b \in Addr \cup {None} :
        /\ sys_vector' = [sys_vector EXCEPT ![p] = b]
        /\ used' = IF b = None THEN used ELSE used \cup {b}
        /\ b \notin used
  BY RouterAssumption DEF AllocVector, Shape, TypeOK
<1>5. sys_vector'[p] = b /\ \A q \in Task \ {p} : sys_vector'[q] = sys_vector[q]
  BY <1>2, <1>4 DEF Shape, TypeOK
<1>6. Elsewhere(p)
  BY <1>3, <1>4, <1>5 DEF Elsewhere
<1>7. HeapAt(p)'
  BY <1>1, <1>2, <1>4, <1>5, HeapAtNext DEF Unfilled
<1> QED
  BY <1>4, <1>5, <1>6, <1>7 DEF HelperTouches

LEMMA TouchesModule ==
  ASSUME Shape, Shape', Heap, NEW t \in Task, Seen(t), NEW p, p = req[t].pid,
         FirstModule(t) \/ SwitchModule(t)
  PROVE  HelperTouches(p)
<1>1. HelperStep(t)
  BY DEF HelperStep
<1>2. pc[t] \in {"addr", "mod"} /\ pc'[t] \in {"inc", "sv"} /\ pc[t] \in HelperPC \ {"find"} /\ p \in Task
  BY AtWork DEF FirstModule, SwitchModule, At, Goto, Shape, TypeOK, HelperPC
<1>3. sys_vector[p] \in used /\ sys_vector[p] \in Addr /\ sys_vector[p] # None
  BY <1>2, RouterAssumption DEF FirstModule, SwitchModule, At, Readable, Shape, TypeOK
<1>4. /\ UNCHANGED <<sys_vector, used, sv>>
      /\ module_addr' = [module_addr EXCEPT ![sys_vector[p]] = req[t].module]
  BY DEF FirstModule, SwitchModule, SetModuleAddr
<1>5. module_addr'[sys_vector[p]] \in Module
  <2>1. Phase(t) /\ Setting(t)
    BY <1>2 DEF Shape, Phase, Setting, Dropping
  <2> QED
    BY <1>3, <1>4, <2>1 DEF Phase, Shape, TypeOK
<1>6. Elsewhere(p)
  BY <1>2, <1>3, <1>4, HeapAtNow DEF Elsewhere, Shape, TypeOK
<1>7. HeapAt(p)'
  BY <1>1, <1>2, <1>3, <1>4, <1>5, HeapAtNext DEF Unfilled
<1>8. ~Clearing(p)
  BY <1>2, AtWork
<1> QED
  BY <1>4, <1>6, <1>7, <1>8 DEF HelperTouches

LEMMA TouchesVector ==
  ASSUME Shape, Shape', Heap, NEW t \in Task, Seen(t), NEW p, p = req[t].pid, SetVector(t)
  PROVE  HelperTouches(p)
<1>1. HelperStep(t)
  BY DEF HelperStep
<1>2. pc[t] = "sv" /\ pc[t] \in HelperPC \ {"find"} /\ p \in Task
  BY AtWork DEF SetVector, At, HelperPC
<1>3. sys_vector[p] \in used /\ sys_vector[p] \in Addr /\ sys_vector[p] # None
  BY <1>2, RouterAssumption DEF SetVector, At, Readable, Shape, TypeOK
<1>4. /\ UNCHANGED <<sys_vector, used, module_addr>>
      /\ sv' = [sv EXCEPT ![sys_vector[p]] = req[t].vector]
  BY DEF SetVector
<1>5. Phase(t) /\ Setting(t)
  BY <1>2 DEF Shape, Phase, Setting, Dropping, HelperPC
<1>6. sv'[sys_vector[p]] \in Vector /\ pc'[t] # "die"
  <2>1. req[t].vector \in Vector
    BY <1>5 DEF Phase
  <2>2. pc'[t] # "die"
    BY <1>5 DEF SetVector, Return, Goto, Setting, Shape, TypeOK
  <2> QED
    BY <1>3, <1>4, <2>1, <2>2 DEF Shape, TypeOK
<1>7. Elsewhere(p)
  BY <1>2, <1>3, <1>4, HeapAtNow DEF Elsewhere, Shape, TypeOK
<1>8. module_addr[sys_vector[p]] \in Module
  BY <1>2, <1>3, HeapAtNow
<1>9. HeapAt(p)'
  BY <1>1, <1>2, <1>3, <1>4, <1>6, <1>8, HeapAtNext
<1>10. ~Clearing(p)
  BY <1>2, AtWork
<1> QED
  BY <1>4, <1>7, <1>9, <1>10 DEF HelperTouches

LEMMA HeapHelper ==
  ASSUME Shape, Shape', Heap, NEW t \in Task, Seen(t), HelperStep(t)
  PROVE  /\ Heap'
         /\ req[t].pid \in Task => Elsewhere(req[t].pid)
<1>1. PICK p : p = req[t].pid
  OBVIOUS
<1>2. \A q \in Task : q # p => KeepsHalf(q) /\ KeepsLife(q)
  BY <1>1, KeepsOthers
<1>3. CASE Find(t)
  <2>1. UNCHANGED memory /\ ProcessStep(t)
    BY <1>3 DEF Find, ProcessStep, Progress
  <2>2. pc[t] = "find" /\ pc'[t] # "die"
    BY <1>3 DEF Find, Return, Goto, Shape, TypeOK, Phase, Dropping
  <2>3. \A q \in Task : KeepsLife(q)
    BY <2>1, <2>2, ProcessMoves, LifeMoves DEF KeepsLife, Moves, Shape
  <2>4. \A q \in Task : KeepsHalf(q)
    BY <2>1, <2>2, ProcessMoves DEF KeepsHalf, Half, Clearing, Moves, Shape, Working, Unfilled
  <2> QED
    BY <2>1, <2>3, <2>4, HeapQuiet, QuietElsewhere DEF Shape
<1>4. CASE ~Find(t)
  <2>1. HelperTouches(p)
    BY <1>1, <1>4, TouchesQuiet, TouchesFree, TouchesClear, TouchesAlloc, TouchesModule, TouchesVector DEF HelperStep
  <2>2. pc[t] \in HelperPC \ {"find"}
    BY <1>4 DEF HelperStep, HelperPC, At, Peek, ReadOld, DecrementTest, DecrementPut, FreeVector,
       ClearVector, AllocVector, FirstModule, Increment, SwitchModule, SetVector
  <2>3. p \in Task
    BY <1>1, <2>2, AtWork
  <2> QED
    BY <1>1, <1>2, <2>1, <2>3, HeapElsewhere DEF HelperTouches, Shape
<1> QED
  BY <1>3, <1>4

-----------------------------------------------------------------------------
(* The steps of a process outside the helper.                              *)
LEMMA HeapRest ==
  ASSUME Shape, Heap, NEW t \in Task, ProcessStep(t), UNCHANGED memory,
         pc[t] \notin {"null"} \cup Unfilled \/ sys_vector[req[t].pid] = None,
         pc'[t] # "die"
  PROVE  Heap'
<1>1. Moves(t)
  BY ProcessMoves DEF Shape
<1>2. ASSUME NEW q \in Task
      PROVE  KeepsLife(q)
  BY <1>1, LifeMoves DEF KeepsLife, Moves, Shape
<1>3. ASSUME NEW q \in Task
      PROVE  KeepsHalf(q) \/ sys_vector[q] = None
  BY <1>1, <1>3 DEF KeepsHalf, Half, Clearing, Moves, Working, Unfilled
<1> QED
  BY <1>2, <1>3, HeapQuiet DEF Shape

LEMMA SpawnApart ==
  ASSUME Shape, NEW t \in Task, NEW c \in Task, ProcessStep(t), Running(t), Spawn(t, c), pc'[t] \in {"user", "find"}
  PROVE  /\ c # t /\ life[c] = "none" /\ life'[c] = "live" /\ pc[c] = "user" /\ pc'[c] = "user"
         /\ \A q \in Task : ~Working(t, q)
         /\ \A u \in Task : ~(Working(u, c) /\ pc[u] # "find") /\ ~(Working(u, c)' /\ pc'[u] # "find")
<1>0. TypeOK /\ Moves(t)
  BY ProcessMoves DEF Shape
<1>1. /\ c # t /\ life[c] = "none" /\ life'[c] = "live" /\ pc[c] = "user" /\ pc'[c] = "user"
  BY <1>0 DEF Running, Spawn, Shape, TypeOK, Living, Moves
<1>2. \A q \in Task : ~Working(t, q)
  BY DEF Running, Working, HelperPC
<1>3. \A u \in Task : ~(Working(u, c) /\ pc[u] # "find")
  BY <1>1 DEF Shape, Living, Working, TaskExists
<1>4. \A u \in Task : ~(Working(u, c)' /\ pc'[u] # "find")
  BY <1>0, <1>2, <1>3 DEF Moves, Working, HelperPC
<1> QED
  BY <1>1, <1>2, <1>3, <1>4

LEMMA HeapSpawn ==
  ASSUME Undisturbed, Shape, Shape', Heap, NEW t \in Task, NEW c \in Task, ProcessStep(t),
         Running(t), FreeToRun(t), Spawn(t, c), pc'[t] \in {"user", "find"}
  PROVE  Heap' /\ Elsewhere(c)
<1>0. TypeOK /\ HeapAt(t) /\ Moves(t)
  BY ProcessMoves DEF Shape, Heap
<1>1. /\ c # t /\ life[c] = "none" /\ life'[c] = "live" /\ pc[c] = "user" /\ pc'[c] = "user"
  BY SpawnApart
<1>3. \A q \in Task : KeepsHalf(q) /\ KeepsLife(q)
  BY SpawnApart, Keeps
<1>4. \A u \in Task : ~(Working(u, c) /\ pc[u] # "find") /\ ~(Working(u, c)' /\ pc'[u] # "find")
  BY SpawnApart
<1>5. ~Clearing(c) /\ ~Clearing(c)' /\ ~Half(c, {"addr"})' /\ ~Half(c, Unfilled)'
  BY <1>4 DEF Clearing, Half, Unfilled
<1>6. sys_vector[c] = None
  BY <1>1 DEF Heap, HeapAt
<1>7. CASE UNCHANGED <<memory, refcnt>>
  <2>1. Heap'
    BY <1>3, <1>7, HeapQuiet DEF Shape
  <2> QED
    BY <1>7, <2>1, QuietElsewhere
<1>8. CASE Inherit(t, c)
  <2>1. \A u \in Task : ~Working(u, t)
    BY Unworked DEF Undisturbed, FreeToRun, Running, HelperPC
  <2>2. ~Clearing(t) /\ ~Half(t, {"addr"}) /\ ~Half(t, Unfilled)
    BY <2>1 DEF Clearing, Half
  <2>3. sys_vector[t] \in used /\ module_addr[sys_vector[t]] \in Module /\ sv[sys_vector[t]] \in Vector \cup {Zero}
    BY <1>0, <1>8, <2>2 DEF Inherit, HeapAt
  <2>4. PICK b \in Addr \ used :
          /\ sys_vector' = [sys_vector EXCEPT ![c] = b]
          /\ used' = used \cup {b}
          /\ module_addr' = [module_addr EXCEPT ![b] = module_addr[sys_vector[t]]]
          /\ sv' = [sv EXCEPT ![b] = sv[sys_vector[t]]]
    BY <1>8 DEF Inherit
  <2>5. /\ sys_vector'[c] = b /\ \A q \in Task \ {c} : sys_vector'[q] = sys_vector[q]
        /\ module_addr'[b] = module_addr[sys_vector[t]] /\ sv'[b] = sv[sys_vector[t]]
        /\ \A a \in Addr \ {b} : module_addr'[a] = module_addr[a] /\ sv'[a] = sv[a]
    BY <1>0, <2>4 DEF TypeOK
  <2>6. Elsewhere(c)
    BY <1>0, <2>4, <2>5 DEF Elsewhere, TypeOK
  <2>7. HeapAt(c)'
    BY <1>1, <1>5, <2>3, <2>4, <2>5 DEF HeapAt
  <2> QED
    BY <1>0, <1>3, <2>4, <2>5, <2>6, <2>7, HeapElsewhere DEF Shape
<1> QED
  BY <1>7, <1>8 DEF Spawn

LEMMA OopsOnly ==
  ASSUME Shape, Heap, Pinned, NEW t \in Task, Seen(t), pc[t] \in HelperPC \cup CallPC, ~Readable(t)
  PROVE  /\ "oom" \in Hazards /\ pc[t] = "addr" /\ sys_vector[req[t].pid] = None
<1>0. TypeOK /\ Phase(t)
  BY DEF Shape
<1>1. CASE pc[t] = "find"
  BY <1>1 DEF Readable
<1>2. CASE pc[t] \in HelperPC \ {"find"}
  <2>1. PICK p \in Task : p = req[t].pid /\ TaskExists(p) /\ Working(t, p)
    BY <1>2, AtWork
  <2>2. CASE pc[t] = "put"
    <3>1. sys_vector[p] \in used /\ node[t] = module_addr[sys_vector[p]] /\ module_addr[sys_vector[p]] \in Module
      BY <1>2, <2>1, <2>2, HeapAtNow DEF Seen
    <3>2. \A u \in Task : Working(u, p) => u = t
      BY <2>1, Sole
    <3>3. Counted(p, node[t])
      BY <2>2, <3>1, <3>2 DEF Counted, Attached
    <3> QED
      BY <2>2, <3>1, <3>3, RouterAssumption DEF Pinned, Readable
  <2>3. CASE pc[t] = "null" \/ pc[t] = "peek"
    BY <2>1, <2>3 DEF Readable
  <2>4. CASE pc[t] \in {"old", "test", "free", "alloc", "addr", "inc", "mod", "sv"}
    BY <2>1, <2>4, RouterAssumption DEF Readable, Seen
  <2> QED
    BY <1>2, <2>2, <2>3, <2>4 DEF HelperPC
<1>3. CASE pc[t] \in CallPC
  <2>1. req[t].via = "call" /\ req[t].pid = t
    BY <1>0, <1>3 DEF Phase
  <2>2. \A u \in Task : ~Working(u, t)
    BY <2>1, NoWorker
  <2>3. sys_vector[t] \in used /\ HeapAt(t)
    BY <1>3, <2>1 DEF Seen, Heap
  <2>4. module_addr[sys_vector[t]] \in Module
    BY <2>2, <2>3 DEF HeapAt, Clearing, Half
  <2>5. Counted(t, module_addr[sys_vector[t]])
    BY <2>2, <2>3 DEF Counted, Attached
  <2>6. mstate[module_addr[sys_vector[t]]] = "live"
    BY <2>4, <2>5 DEF Pinned
  <2> QED
    BY <1>3, <2>1, <2>3, <2>4, <2>6, RouterAssumption DEF Seen, Readable, CallPC
<1> QED
  BY <1>1, <1>2, <1>3

(* A step of a process is one of the helper, a fork, an oops, or leaves    *)
(* the heap and the counts alone.                                          *)
LEMMA OutsideHelper ==
  ASSUME Shape, NEW t \in Task, ProcessStep(t), ~HelperStep(t), ~Oops(t)
  PROVE  \/ \E c \in Task : /\ Spawn(t, c) /\ Running(t) /\ FreeToRun(t)
                           /\ pc'[t] \in {"user", "find"} /\ req'[t].via # "call"
         \/ /\ UNCHANGED <<memory, refcnt, mstate>> /\ (Die(t) \/ UNCHANGED life)
            /\ pc[t] \notin HelperPC \ {"find"}
            /\ pc'[t] \notin HelperPC \ {"find", "peek"}
            /\ pc'[t] # "die"
<1> USE DEF Shape, TypeOK, Goto, HelperPC, CallPC
<1>1. ASSUME NEW c \in Task, Fork(t, c)
      PROVE  /\ Spawn(t, c) /\ Running(t) /\ FreeToRun(t)
             /\ pc'[t] \in {"user", "find"} /\ req'[t].via # "call"
  <2>1. Phase(t) /\ UNCHANGED <<pc, local>>
    BY <1>1 DEF Fork
  <2> QED
    BY <1>1, <2>1 DEF Fork, Running, Phase, Idle, local
<1>2. ASSUME NEW c \in Task, NEW m \in Module, NEW v \in Vector, Clone2(t, c, m, v)
      PROVE  \/ /\ Spawn(t, c) /\ Running(t) /\ FreeToRun(t)
                /\ pc'[t] \in {"user", "find"} /\ req'[t].via # "call"
             \/ /\ UNCHANGED <<memory, refcnt, mstate>> /\ (Die(t) \/ UNCHANGED life)
                /\ pc[t] \notin HelperPC \ {"find"}
                /\ pc'[t] \notin HelperPC \ {"find", "peek"}
                /\ pc'[t] # "die"
  <2>1. PICK pid \in {c, None} :
          /\ IF pid = None THEN UNCHANGED <<memory, kernel>> ELSE Spawn(t, c)
          /\ req' = [req EXCEPT ![t] =
                       [Idle EXCEPT !.via = "clone2", !.pid = pid, !.module = m, !.vector = v]]
    BY <1>2 DEF Clone2
  <2>2. req'[t].via # "call"
    <3>1. req'[t] = [Idle EXCEPT !.via = "clone2", !.pid = pid, !.module = m, !.vector = v]
      BY <2>1
    <3> QED
      BY <3>1 DEF Idle
  <2>3. pc'[t] = "find" /\ Running(t) /\ FreeToRun(t)
    BY <1>2 DEF Clone2
  <2> QED
    BY <2>1, <2>2, <2>3 DEF kernel, Running
<1>3. CASE (\E p \in Task, m \in Module, v \in Vector : IoctlSet(t, p, m, v)) \/ (\E c \in Call : BeginCall(t, c)) \/ ExitGroup(t)
  BY <1>3 DEF IoctlSet, BeginCall, ExitGroup, Running, kernel
<1>4. CASE CopyFails(t)
  BY <1>4 DEF CopyFails, Return, kernel
<1>5. CASE CallStep(t)
  BY <1>5 DEF CallStep, Gate, ReadNode, EnterModule, LeaveModule, LeaveCall, At, kernel
<1>6. CASE AcquireLock(t) \/ Unlock(t) \/ Die(t)
  BY <1>6 DEF AcquireLock, Unlock, Die, kernel
<1> HIDE DEF Shape, TypeOK, Goto, HelperPC, CallPC
<1> QED
  BY <1>1, <1>2, <1>3, <1>4, <1>5, <1>6 DEF ProcessStep, Progress, Begin

LEMMA HeapProcess ==
  ASSUME Undisturbed, Shape, Shape', Heap, Pinned, NEW t \in Task, Seen(t), ProcessStep(t)
  PROVE  Heap'
<1>1. CASE HelperStep(t)
  BY <1>1, HeapHelper
<1>2. CASE Oops(t)
  <2>1. sys_vector[req[t].pid] = None
    BY <1>2, OopsOnly DEF Oops
  <2>2. UNCHANGED memory /\ pc'[t] # "die"
    BY <1>2 DEF Oops, Goto, Shape, TypeOK
  <2> QED
    BY <2>1, <2>2, HeapRest
<1>3. CASE ~HelperStep(t) /\ ~Oops(t)
  <2>1. CASE UNCHANGED memory /\ pc[t] \notin HelperPC \ {"find"} /\ pc'[t] # "die"
    <3>1. pc[t] \notin {"null"} \cup Unfilled
      BY <2>1 DEF Unfilled, HelperPC
    <3> QED
      BY <2>1, <3>1, HeapRest
  <2> QED
    BY <1>3, <2>1, OutsideHelper, HeapSpawn
<1> QED
  BY <1>1, <1>2, <1>3

LEMMA HeapEnvironment ==
  ASSUME Undisturbed, Shape, Shape', Heap, Environment
  PROVE  Heap' /\ (UNCHANGED memory \/ \E p \in Task : Reap(p) /\ Elsewhere(p))
<1> USE DEF Shape, TypeOK, Goto, kernel, local
<1>1. ASSUME NEW t \in Task, Kill(t)
      PROVE  Heap' /\ UNCHANGED memory
  <2>1. UNCHANGED <<memory, req>> /\ pc' = [pc EXCEPT ![t] = "dead"] /\ pc[t] = "user"
        /\ life' = [life EXCEPT ![t] = "zombie"]
    BY <1>1 DEF Kill, Running
  <2>2. \A q \in Task : KeepsHalf(q)
    BY <2>1 DEF KeepsHalf, Half, Clearing, Working, HelperPC
  <2>3. \A q \in Task : KeepsLife(q)
    BY <2>1 DEF KeepsLife
  <2> QED
    BY <2>1, <2>2, <2>3, HeapQuiet
<1>2. ASSUME NEW t \in Task, Reap(t)
      PROVE  Heap' /\ Elsewhere(t)
  <2>1. /\ UNCHANGED <<used, module_addr, sv, pc, req>> /\ life[t] = "zombie" /\ ~Targeted(t)
        /\ life' = [life EXCEPT ![t] = "reaped"]
        /\ sys_vector' = [sys_vector EXCEPT ![t] = None]
    BY <1>2 DEF Reap, FreeToRun, Undisturbed
  <2>2. \A q \in Task : KeepsHalf(q)
    BY <2>1 DEF KeepsHalf, Half, Clearing, Working
  <2>3. \A q \in Task \ {t} : KeepsLife(q)
    BY <2>1 DEF KeepsLife
  <2>4. Elsewhere(t)
    BY <2>1 DEF Elsewhere
  <2>5. None \notin used' /\ sys_vector'[t] = None
    BY <2>1, RouterAssumption
  <2>6. HeapAt(t)'
    BY <2>5 DEF HeapAt
  <2> QED
    BY <2>2, <2>3, <2>4, <2>5, <2>6, HeapElsewhere
<1>3. CASE UNCHANGED <<memory, life, pc, req>>
  <2>1. \A q \in Task : KeepsHalf(q)
    BY <1>3 DEF KeepsHalf, Half, Clearing, Working
  <2>2. \A q \in Task : KeepsLife(q)
    BY <1>3 DEF KeepsLife
  <2> QED
    BY <1>3, <2>1, <2>2, HeapQuiet
<1>4. CASE \E m \in Module : LoadModule(m) \/ BeginUnload(m) \/ FinishUnload(m)
  <2>1. UNCHANGED <<memory, life, pc, req>>
    BY <1>4 DEF LoadModule, BeginUnload, FinishUnload
  <2> QED
    BY <1>3, <2>1
<1> QED
  BY <1>1, <1>2, <1>4 DEF Environment

-----------------------------------------------------------------------------
(* What a process has seen stays true until it acts on it.                 *)
LEMMA SeenNothing ==
  ASSUME NEW t \in Task, pc[t] \notin SeenPC
  PROVE  Seen(t)
BY DEF Seen, SeenPC, CallPC

LEMMA SeenNothingNext ==
  ASSUME NEW t \in Task, pc'[t] \notin SeenPC
  PROVE  Seen(t)'
BY DEF Seen, SeenPC, CallPC

LEMMA SeenHelper ==
  ASSUME Shape, Shape', Heap, NEW t \in Task, Seen(t), HelperStep(t)
  PROVE  Seen(t)'
<1> USE DEF Goto, At
<1>0. TypeOK /\ Phase(t) /\ None \notin used
  BY RouterAssumption DEF Shape, TypeOK
<1>1. CASE pc'[t] \in {"unlock", "user", "die"}
  BY <1>1, SeenNothingNext DEF SeenPC, CallPC
<1>2. CASE pc'[t] \in HelperPC /\ req'[t] = req[t]
  <2> USE <1>0, <1>2 DEF TypeOK
  <2>1. PICK p : p = req[t].pid
    OBVIOUS
  <2>2. CASE Find(t) \/ FreeVector(t) \/ ClearVector(t) \/ SetVector(t)
    <3>1. pc'[t] \in {"peek", "null"}
      BY <2>2 DEF Find, FreeVector, ClearVector, SetVector, Return, HelperPC
    <3> QED
      BY <3>1, SeenNothingNext DEF SeenPC, CallPC
  <2>3. CASE Peek(t)
    <3>1. pc[t] = "peek" /\ UNCHANGED sys_vector /\ UNCHANGED used
      BY <2>3 DEF Peek, memory
    <3>2. sys_vector[p] \in used \cup {None}
      BY <2>1, <3>1, HeapAtNow DEF HelperPC
    <3>3. \/ pc'[t] = "old" /\ sys_vector[p] # None
          \/ pc'[t] = "alloc" /\ sys_vector[p] = None
      BY <2>1, <2>3 DEF Peek, Return, HelperPC
    <3> QED
      BY <2>1, <3>1, <3>2, <3>3 DEF Seen, CallPC
  <2>4. CASE ReadOld(t)
    <3>1. UNCHANGED sys_vector /\ UNCHANGED used /\ UNCHANGED module_addr /\ sys_vector[p] \in used
      BY <2>1, <2>4 DEF ReadOld, memory, Readable
    <3>2. \/ pc'[t] = "mod"
          \/ pc'[t] = "test" /\ node'[t] = module_addr[sys_vector[p]]
      BY <2>1, <2>4 DEF ReadOld
    <3> QED
      BY <2>1, <3>1, <3>2 DEF Seen, CallPC
  <2>5. CASE DecrementTest(t) \/ DecrementPut(t)
    <3>1. UNCHANGED memory /\ UNCHANGED node /\ pc[t] \in {"test", "put"}
          /\ pc'[t] \in {"free", "inc"} \cup (IF pc[t] = "test" THEN {"put"} ELSE {})
      BY <2>5 DEF DecrementTest, DecrementPut, AfterDecrement, local
    <3>2. sys_vector[p] \in used /\ node[t] = module_addr[sys_vector[p]]
      BY <2>1, <3>1 DEF Seen
    <3> QED
      BY <2>1, <3>1, <3>2 DEF Seen, CallPC, memory
  <2>6. CASE AllocVector(t)
    <3>1. p \in Task /\ pc'[t] = "addr"
      BY <2>1, <2>6, AtWork DEF AllocVector, HelperPC
    <3>2. sys_vector'[p] \in used' \/ ("oom" \in Hazards /\ sys_vector'[p] = None)
      <4>1. ASSUME NEW b, sys_vector' = [sys_vector EXCEPT ![p] = b]
            PROVE  sys_vector'[p] = b
        BY <3>1, <4>1
      <4>2. \/ \E b \in Addr \ used : sys_vector' = [sys_vector EXCEPT ![p] = b] /\ used' = used \cup {b}
            \/ "oom" \in Hazards /\ sys_vector' = [sys_vector EXCEPT ![p] = None]
        BY <2>1, <2>6 DEF AllocVector
      <4> QED
        BY <4>1, <4>2
    <3> QED
      BY <2>1, <3>1, <3>2 DEF Seen, CallPC
  <2>7. CASE FirstModule(t) \/ SwitchModule(t)
    <3>1. /\ UNCHANGED sys_vector /\ UNCHANGED used /\ sys_vector[p] \in used
          /\ module_addr' = [module_addr EXCEPT ![sys_vector[p]] = req[t].module]
          /\ pc'[t] \in {"inc", "sv"}
      BY <2>1, <2>7 DEF FirstModule, SwitchModule, SetModuleAddr, Readable
    <3>2. module_addr'[sys_vector[p]] = req[t].module
      BY <3>1
    <3> QED
      BY <2>1, <3>1, <3>2 DEF Seen, CallPC
  <2>8. CASE Increment(t)
    <3>1. UNCHANGED sys_vector /\ UNCHANGED used /\ pc[t] = "inc" /\ pc'[t] = "mod"
      BY <2>8 DEF Increment, memory
    <3> QED
      BY <3>1 DEF Seen, CallPC
  <2> QED
    BY <2>2, <2>3, <2>4, <2>5, <2>6, <2>7, <2>8 DEF HelperStep
<1> QED
  BY <1>0, <1>1, <1>2, HelperGoes

(* A hooked call finds the structure it began with.                        *)
LEMMA Calling ==
  ASSUME Shape, Heap, NEW t \in Task, \A u \in Task : ~Working(u, t), sys_vector[t] # None
  PROVE  /\ sys_vector[t] \in used
         /\ module_addr[sys_vector[t]] \in Module
         /\ sv[sys_vector[t]] \in Vector \cup {Zero}
<1>1. ~Clearing(t) /\ ~Half(t, {"addr"}) /\ ~Half(t, Unfilled)
  BY DEF Clearing, Half
<1> QED
  BY <1>1 DEF Heap, HeapAt

LEMMA SeenCall ==
  ASSUME Undisturbed, Shape, Heap, NEW t \in Task, Seen(t), CallStep(t) \/ \E c \in Call : BeginCall(t, c)
  PROVE  Seen(t)'
<1>0. TypeOK /\ Phase(t) /\ None \notin used
  BY RouterAssumption DEF Shape, TypeOK
<1> USE <1>0 DEF Goto, At, TypeOK
<1>1. ASSUME NEW c \in Call, BeginCall(t, c)
      PROVE  Seen(t)'
  <2>1. /\ pc[t] = "user" /\ ~Targeted(t) /\ pc'[t] = "gate" /\ sys_vector[t] # None /\ UNCHANGED memory
        /\ req'[t] = [Idle EXCEPT !.via = "call", !.pid = t, !.call = c]
    BY <1>1 DEF BeginCall, Running, FreeToRun, Undisturbed
  <2>2. req'[t].pid = t
    BY <2>1 DEF Idle
  <2>3. sys_vector[t] \in used
    BY <2>1, Unworked, Calling DEF HelperPC
  <2> QED
    BY <2>1, <2>2, <2>3 DEF Seen, memory, CallPC
<1>2. CASE CallStep(t)
  <2>1. pc[t] \in CallPC /\ UNCHANGED memory
    BY <1>2 DEF CallStep, Gate, ReadNode, EnterModule, LeaveModule, CallPC
  <2>2. req[t].via = "call" /\ req[t].pid = t /\ sys_vector[t] \in used
    BY <2>1 DEF Phase, Seen
  <2>3. sv[sys_vector[t]] # None
    <3>1. \A u \in Task : ~Working(u, t)
      BY <2>2, NoWorker
    <3> QED
      BY <2>2, <3>1, Calling, RouterAssumption
  <2>4. CASE pc'[t] = "user"
    BY <2>4, SeenNothingNext DEF SeenPC, CallPC
  <2>5. CASE Gate(t) /\ pc'[t] # "user"
    <3>1. pc'[t] = "node" /\ UNCHANGED local /\ req[t].call \in sv[sys_vector[t]]
      BY <2>3, <2>5 DEF Gate, LeaveCall
    <3> QED
      BY <2>1, <2>2, <3>1 DEF Seen, memory, local, CallPC
  <2>6. CASE ReadNode(t)
    <3>1. pc[t] = "node" /\ pc'[t] = "enter" /\ UNCHANGED req /\ node'[t] = module_addr[sys_vector[t]]
      BY <2>6 DEF ReadNode
    <3>2. req[t].call \in sv[sys_vector[t]]
      BY <2>2, <3>1 DEF Seen
    <3> QED
      BY <2>1, <2>2, <3>1, <3>2 DEF Seen, memory, CallPC
  <2>7. CASE EnterModule(t)
    <3>1. pc[t] = "enter" /\ pc'[t] = "body" /\ UNCHANGED req /\ UNCHANGED node
      BY <2>7 DEF EnterModule, local
    <3>2. req[t].call \in sv[sys_vector[t]] /\ node[t] = module_addr[sys_vector[t]]
      BY <2>2, <3>1 DEF Seen
    <3> QED
      BY <2>1, <2>2, <3>1, <3>2 DEF Seen, memory, CallPC
  <2>8. CASE LeaveModule(t)
    BY <2>4, <2>8 DEF LeaveModule, LeaveCall
  <2> QED
    BY <1>2, <2>4, <2>5, <2>6, <2>7, <2>8 DEF CallStep
<1> QED
  BY <1>1, <1>2

(* Nobody but its worker has seen anything of p.                           *)
LEMMA SeenByWorker ==
  ASSUME Shape, NEW t \in Task, NEW p \in Task, Working(t, p), NEW u \in Task \ {t}, pc[u] \in SeenPC
  PROVE  req[u].pid # p
<1>1. pc[u] \in HelperPC \/ pc[u] \in CallPC
  BY DEF SeenPC, HelperPC
<1>2. ~Working(u, p)
  BY Sole
<1>3. pc[u] \in HelperPC => Working(u, req[u].pid)
  BY SeenUnlessClearing
<1>4. pc[u] \in CallPC => req[u].via = "call" /\ req[u].pid = u
  BY DEF Shape, Phase
<1> QED
  BY <1>1, <1>2, <1>3, <1>4, NoWorker

LEMMA SeenProcess ==
  ASSUME Undisturbed, Shape, Shape', Heap, Pinned, NEW t \in Task, ProcessStep(t), \A u \in Task : Seen(u)
  PROVE  \A u \in Task : Seen(u)'
<1>1. Moves(t)
  BY ProcessMoves DEF Shape
<1>2. CASE UNCHANGED memory
  <2>1. \A u \in Task \ {t} : Seen(u)'
    BY <1>1, <1>2, SeenQuiet DEF Moves
  <2>2. Seen(t)'
    <3>1. CASE HelperStep(t) \/ CallStep(t) \/ \E c \in Call : BeginCall(t, c)
      BY <3>1, SeenHelper, SeenCall
    <3>2. CASE ~(HelperStep(t) \/ CallStep(t) \/ \E c \in Call : BeginCall(t, c))
      <4>1. pc'[t] \in {"lock", "find", "user", "unlock", "dead", "oops", "peek", "die"}
        <5>1. CASE Begin(t) /\ ~\E c \in Call : BeginCall(t, c)
          BY <5>1 DEF Begin, IoctlSet, Clone2, Fork, ExitGroup, Running, Goto, Shape, TypeOK
        <5>2. CASE CopyFails(t)
          BY <5>2 DEF CopyFails, Return, Goto, Shape, TypeOK
        <5>3. CASE AcquireLock(t) \/ Unlock(t) \/ Die(t) \/ Oops(t)
          BY <5>3 DEF AcquireLock, Unlock, Die, Oops, Goto, Shape, TypeOK
        <5> QED
          BY <3>2, <5>1, <5>2, <5>3 DEF ProcessStep, Progress
      <4> QED
        BY <4>1, SeenNothingNext DEF SeenPC, CallPC
    <3> QED
      BY <3>1, <3>2
  <2> QED
    BY <2>1, <2>2
<1>3. CASE HelperStep(t) /\ req[t].pid \in Task
  <2>1. PICK p \in Task : p = req[t].pid
    BY <1>3
  <2>2. Elsewhere(p) /\ Working(t, p)
    BY <1>3, <2>1, HeapHelper, HelperGoes DEF Working, Shape
  <2>3. ASSUME NEW u \in Task \ {t}
        PROVE  Seen(u)'
    <3>1. pc[u] \in SeenPC => req[u].pid # p
      BY <2>2, SeenByWorker
    <3> QED
      BY <1>1, <2>2, <3>1, SeenElsewhere DEF Moves
  <2> QED
    BY <1>3, <2>3, SeenHelper
<1>4. CASE HelperStep(t) /\ req[t].pid \notin Task
  <2>1. Find(t)
    BY <1>4, AtWork DEF HelperStep, HelperPC, At, Peek, ReadOld, DecrementTest, DecrementPut, FreeVector,
       ClearVector, AllocVector, FirstModule, Increment, SwitchModule, SetVector
  <2> QED
    BY <1>2, <2>1 DEF Find
<1>5. ASSUME NEW c \in Task, Spawn(t, c), Running(t), FreeToRun(t), pc'[t] \in {"user", "find"}
      PROVE  \A u \in Task : Seen(u)'
  <2>1. Elsewhere(c)
    BY <1>5, HeapSpawn
  <2>2. ASSUME NEW u \in Task \ {t}
        PROVE  Seen(u)'
    <3>1. life[c] = "none" /\ pc[c] = "user"
      BY <1>5 DEF Spawn, Shape, Living
    <3>2. CASE pc[u] \in SeenPC
      <4>1. pc[u] \in CallPC => req[u].pid # c
        BY <3>1, <3>2, SeenUnlessClearing DEF CallPC
      <4>2. pc[u] \in HelperPC \ {"find"} => req[u].pid # c
        BY <3>1, AtWork DEF TaskExists
      <4> QED
        BY <1>1, <2>1, <3>2, <4>1, <4>2, SeenElsewhere DEF Moves, SeenPC, HelperPC
    <3>3. CASE pc[u] \notin SeenPC
      BY <1>1, <3>3, SeenNothingNext DEF Moves
    <3> QED
      BY <3>2, <3>3
  <2>3. Seen(t)'
    BY <1>5, SeenNothingNext DEF SeenPC, CallPC
  <2> QED
    BY <2>2, <2>3
<1>6. CASE ~HelperStep(t)
  <2>1. Oops(t) => UNCHANGED memory
    BY DEF Oops
  <2> QED
    BY <1>2, <1>5, <1>6, <2>1, OutsideHelper
<1> QED
  BY <1>3, <1>4, <1>6

LEMMA SeenEnvironment ==
  ASSUME Undisturbed, Shape, Shape', Heap, Environment, \A u \in Task : Seen(u)
  PROVE  \A u \in Task : Seen(u)'
<1> SUFFICES ASSUME NEW u \in Task
             PROVE  Seen(u)'
  OBVIOUS
<1>1. UNCHANGED <<req, node>> /\ (pc'[u] = pc[u] \/ pc'[u] = "dead")
  BY EnvironmentMoves DEF Shape
<1>2. CASE pc'[u] \notin SeenPC
  BY <1>2, SeenNothingNext
<1>3. CASE pc'[u] = pc[u] /\ UNCHANGED memory
  BY <1>1, <1>3, SeenQuiet
<1>4. ASSUME NEW p \in Task, Reap(p), Elsewhere(p), pc'[u] = pc[u], pc[u] \in SeenPC
      PROVE  Seen(u)'
  <2>1. life[p] = "zombie" /\ ~Targeted(p) /\ pc[p] \notin HelperPC \cup CallPC
    BY <1>4 DEF Reap, FreeToRun, Undisturbed, Shape, Living, HelperPC, CallPC
  <2>2. \A w \in Task : ~Working(w, p)
    BY <2>1, Unworked
  <2>3. req[u].pid # p
    BY <1>4, <2>1, <2>2, SeenUnlessClearing DEF SeenPC, HelperPC, CallPC
  <2> QED
    BY <1>1, <1>4, <2>3, SeenElsewhere
<1> QED
  BY <1>1, <1>2, <1>3, <1>4, HeapEnvironment DEF SeenPC, CallPC


-----------------------------------------------------------------------------
(* The counts.                                                             *)
Uncounted == {"free", "null", "alloc", "addr", "inc"}

LEMMA TallyFinite ==
  ASSUME NEW m
  PROVE  IsFiniteSet(Tally(m)) /\ Cardinality(Tally(m)) \in Nat
<1>1. Tally(m) \subseteq Task
  BY DEF Tally
<1> QED
  BY <1>1, RouterAssumption, FS_Subset, FS_CardinalityType

LEMMA TallyFiniteNext ==
  ASSUME NEW m
  PROVE  IsFiniteSet(Tally(m)') /\ Cardinality(Tally(m)') \in Nat
<1>1. Tally(m)' \subseteq Task
  BY DEF Tally
<1> QED
  BY <1>1, RouterAssumption, FS_Subset, FS_CardinalityType

LEMMA CountKept ==
  ASSUME TypeOK, NEW m \in Module, Count(m),
         \A p \in Task : Counted(p, m)' <=> Counted(p, m),
         refcnt'[m] = refcnt[m]
  PROVE  Count(m)'
<1>1. Tally(m)' = Tally(m)
  BY DEF Tally
<1> QED
  BY <1>1 DEF Count

LEMMA CountDropped ==
  ASSUME TypeOK, NEW m \in Module, Count(m), Hazards # {},
         \A p \in Task : Counted(p, m)' => Counted(p, m),
         refcnt'[m] = refcnt[m]
  PROVE  Count(m)'
<1>1. Tally(m)' \subseteq Tally(m)
  BY DEF Tally
<1>2. Cardinality(Tally(m)') <= Cardinality(Tally(m))
  BY <1>1, TallyFinite, FS_Subset
<1> QED
  BY <1>2, TallyFinite, TallyFiniteNext DEF Count, TypeOK

LEMMA CountUp ==
  ASSUME TypeOK, NEW m \in Module, Count(m), NEW p \in Task,
         ~Counted(p, m), Counted(p, m)',
         \A q \in Task \ {p} : Counted(q, m)' <=> Counted(q, m),
         refcnt'[m] = refcnt[m] + 1
  PROVE  Count(m)'
<1>1. Tally(m)' = Tally(m) \cup {p} /\ p \notin Tally(m)
  BY DEF Tally
<1>2. Cardinality(Tally(m)') = Cardinality(Tally(m)) + 1
  BY <1>1, TallyFinite, FS_AddElement
<1> QED
  BY <1>2, TallyFinite DEF Count, TypeOK

LEMMA CountDown ==
  ASSUME TypeOK, NEW m \in Module, Count(m), NEW p \in Task,
         Counted(p, m), ~Counted(p, m)',
         \A q \in Task \ {p} : Counted(q, m)' <=> Counted(q, m),
         refcnt'[m] = refcnt[m] - 1
  PROVE  Count(m)'
<1>1. Tally(m)' = Tally(m) \ {p} /\ p \in Tally(m)
  BY DEF Tally
<1>2. Cardinality(Tally(m)') = Cardinality(Tally(m)) - 1
  BY <1>1, TallyFinite, FS_RemoveElement
<1> QED
  BY <1>2, TallyFinite DEF Count, TypeOK

(* A process that is counted keeps the count above 0.                      *)
LEMMA CountPositive ==
  ASSUME TypeOK, NEW m \in Module, Count(m), NEW p \in Task, Counted(p, m)
  PROVE  refcnt[m] > 0
<1>1. Tally(m) # {}
  BY DEF Tally
<1>2. Cardinality(Tally(m)) # 0
  BY <1>1, TallyFinite, FS_EmptySet
<1> QED
  BY <1>2, TallyFinite DEF Count, TypeOK

LEMMA CountZero ==
  ASSUME NEW m, \A p \in Task : ~Counted(p, m)'
  PROVE  Cardinality(Tally(m)') = 0
<1>1. Tally(m)' = {}
  BY DEF Tally
<1> QED
  BY <1>1, FS_EmptySet

(* Who is counted, by where its worker stands.                             *)
LEMMA CountedMine ==
  ASSUME Shape, NEW t \in Task, NEW p \in Task, Working(t, p), NEW m
  PROVE  Counted(p, m) <=> /\ pc[t] \notin Uncounted
                           /\ IF pc[t] = "mod" THEN req[t].module = m ELSE Attached(p, m)
<1>1. \A u \in Task : Working(u, p) => u = t
  BY Sole
<1> QED
  BY <1>1 DEF Counted, Uncounted

LEMMA CountedMineNext ==
  ASSUME Shape', NEW t \in Task, NEW p \in Task, Working(t, p)', NEW m
  PROVE  Counted(p, m)' <=> /\ pc'[t] \notin Uncounted
                            /\ IF pc'[t] = "mod" THEN req'[t].module = m ELSE Attached(p, m)'
<1>1. \A u \in Task : Working(u, p)' => u = t
  BY SoleNext
<1> QED
  BY <1>1 DEF Counted, Uncounted

LEMMA CountedSame ==
  ASSUME NEW t \in Task, Moves(t), NEW q, NEW m,
         Working(t, q) => pc[t] \notin Uncounted \cup {"mod"},
         Working(t, q)' => pc'[t] \notin Uncounted \cup {"mod"},
         (Clearing(q) /\ Clearing(q)') \/ (Attached(q, m)' <=> Attached(q, m))
  PROVE  Counted(q, m)' <=> Counted(q, m)
<1>1. \A u \in Task \ {t} : Working(u, q)' = Working(u, q) /\ pc'[u] = pc[u] /\ req'[u] = req[u]
  BY DEF Moves, Working
<1>2. Half(q, Uncounted)' <=> Half(q, Uncounted)
  BY <1>1 DEF Half
<1>3. Half(q, {"mod"})' <=> Half(q, {"mod"})
  BY <1>1 DEF Half
<1>4. (\E u \in Task : Working(u, q) /\ pc[u] = "mod" /\ req[u].module = m)'
      <=> \E u \in Task : Working(u, q) /\ pc[u] = "mod" /\ req[u].module = m
  BY <1>1
<1>5. Clearing(q) => Half(q, Uncounted)
  BY DEF Clearing, Half, Uncounted
<1> QED
  BY <1>2, <1>3, <1>4, <1>5 DEF Counted, Half, Uncounted

LEMMA AttachedElsewhere ==
  ASSUME TypeOK, TypeOK', Heap, NEW p, Elsewhere(p), NEW q \in Task \ {p}, NEW m
  PROVE  Clearing(q) \/ (Attached(q, m)' <=> Attached(q, m))
BY RouterAssumption DEF Heap, HeapAt, Elsewhere, Attached, TypeOK

LEMMA CountedElsewhere ==
  ASSUME Shape, Shape', Heap, NEW t \in Task, ProcessStep(t), NEW p, Elsewhere(p), NEW q \in Task \ {p}, NEW m,
         Working(t, q) => pc[t] = "find",
         Working(t, q)' => pc'[t] \in {"find", "peek"}
  PROVE  Counted(q, m)' <=> Counted(q, m)
<1>1. Moves(t)
  BY ProcessMoves DEF Shape
<1>2. Clearing(q) => Clearing(q)'
  BY <1>1 DEF Clearing, Moves, Working
<1>3. Clearing(q) \/ (Attached(q, m)' <=> Attached(q, m))
  BY AttachedElsewhere DEF Shape
<1> QED
  BY <1>1, <1>2, <1>3, CountedSame DEF Uncounted

(* A step of the helper changes who is counted at most for its own process.*)
LEMMA CountedOthers ==
  ASSUME Shape, Shape', Heap, NEW t \in Task, Seen(t), HelperStep(t), NEW p \in Task, p = req[t].pid,
         NEW q \in Task \ {p}, NEW m
  PROVE  Counted(q, m)' <=> Counted(q, m)
<1>1. Elsewhere(p)
  BY HeapHelper
<1>2. ~Working(t, q) /\ ProcessStep(t)
  BY DEF Working, ProcessStep, Progress
<1>3. ~Working(t, q)'
  BY HelperGoes, RouterAssumption DEF Shape, Working, HelperPC
<1> QED
  BY <1>1, <1>2, <1>3, CountedElsewhere

LEMMA CountsSame ==
  ASSUME TypeOK, Counts, Pinned, UNCHANGED <<refcnt, mstate>>,
         \A m \in Module, q \in Task : Counted(q, m)' <=> Counted(q, m)
  PROVE  Counts' /\ Pinned'
<1>1. Counts'
  BY CountKept DEF Counts
<1> QED
  BY <1>1 DEF Pinned

(* The count of its own process, before and after a step of the helper.    *)
LEMMA CountedStep ==
  ASSUME Shape, Shape', NEW t \in Task, HelperStep(t), pc[t] \in HelperPC \ {"find"},
         NEW p, p = req[t].pid, NEW m
  PROVE  /\ p \in Task
         /\ Counted(p, m) <=> /\ pc[t] \notin Uncounted
                              /\ IF pc[t] = "mod" THEN req[t].module = m ELSE Attached(p, m)
         /\ Counted(p, m)' <=> /\ pc'[t] \notin Uncounted
                               /\ IF pc'[t] = "mod" THEN req[t].module = m ELSE Attached(p, m)'
<1>1. p \in Task /\ Working(t, p)
  BY AtWork
<1>2. Counted(p, m) <=> /\ pc[t] \notin Uncounted
                        /\ IF pc[t] = "mod" THEN req[t].module = m ELSE Attached(p, m)
  BY <1>1, CountedMine
<1>3. CASE pc'[t] \in HelperPC \ {"find"} /\ req'[t] = req[t]
  <2>1. Working(t, p)'
    BY <1>3 DEF Working
  <2> QED
    BY <1>1, <1>2, <1>3, <2>1, CountedMineNext
<1>4. CASE pc'[t] \in {"unlock", "user", "die"}
  <2>1. \A u \in Task : ~Working(u, p)'
    <3>1. Moves(t) /\ ~Working(t, p)'
      BY <1>4, HelperMovesAll DEF Shape, Working, HelperPC
    <3> QED
      BY <1>1, <3>1, Sole DEF Moves, Working
  <2>2. Counted(p, m)' <=> Attached(p, m)'
    BY <2>1 DEF Counted
  <2> QED
    BY <1>1, <1>2, <1>4, <2>2 DEF Uncounted
<1> QED
  BY <1>3, <1>4, HelperGoes DEF Shape

LEMMA CountsHelperSame ==
  ASSUME Shape, Shape', Heap, Counts, Pinned, NEW t \in Task, Seen(t), HelperStep(t),
         pc[t] \in HelperPC \ {"find"}, NEW p, p = req[t].pid, UNCHANGED refcnt,
         \A m \in Module : Counted(p, m)' <=> Counted(p, m)
  PROVE  Counts' /\ Pinned'
<1>1. p \in Task /\ UNCHANGED mstate
  BY AtWork, HelperGoes DEF Shape
<1>2. \A m \in Module, q \in Task : Counted(q, m)' <=> Counted(q, m)
  BY <1>1, CountedOthers
<1> QED
  BY <1>1, <1>2, CountsSame DEF Shape

LEMMA CountsFind ==
  ASSUME Shape, Shape', Heap, Counts, Pinned, NEW t \in Task, Seen(t), Find(t)
  PROVE  Counts' /\ Pinned'
<1>1. HelperStep(t) /\ ProcessStep(t) /\ UNCHANGED <<memory, refcnt, mstate>> /\ pc[t] = "find"
  BY DEF HelperStep, ProcessStep, Progress, Find, kernel
<1>2. pc'[t] \in {"peek", "unlock", "user", "die"}
  BY DEF Find, Return, Goto, Shape, TypeOK
<1>3. Elsewhere(None)
  BY <1>1, QuietElsewhere
<1>4. \A m \in Module, q \in Task : Counted(q, m)' <=> Counted(q, m)
  BY <1>1, <1>2, <1>3, CountedElsewhere, RouterAssumption DEF Working, HelperPC
<1> QED
  BY <1>1, <1>4, CountsSame DEF Shape

LEMMA CountsPeek ==
  ASSUME Shape, Shape', Heap, Counts, Pinned, NEW t \in Task, Seen(t), Peek(t) \/ ReadOld(t)
  PROVE  Counts' /\ Pinned'
<1>1. /\ HelperStep(t) /\ UNCHANGED memory /\ UNCHANGED refcnt /\ pc[t] \in {"peek", "old"}
      /\ pc[t] \in HelperPC \ {"find"}
  BY DEF HelperStep, Peek, ReadOld, kernel, At, HelperPC
<1>2. PICK p \in Task : p = req[t].pid
  BY <1>1, AtWork
<1>3. None \notin used
  BY RouterAssumption DEF Shape, TypeOK
<1>4. \/ pc'[t] = "alloc" /\ sys_vector[p] = None
      \/ pc'[t] = "mod" /\ module_addr[sys_vector[p]] = req[t].module /\ sys_vector[p] \in used
      \/ pc'[t] \notin Uncounted \cup {"mod"}
  BY <1>2 DEF Peek, ReadOld, Return, Goto, At, Readable, Shape, TypeOK, Uncounted
<1>5. ASSUME NEW m \in Module
      PROVE  Counted(p, m)' <=> Counted(p, m)
  <2>1. Attached(p, m)' <=> Attached(p, m)
    BY <1>1 DEF Attached, memory
  <2>2. Counted(p, m) <=> Attached(p, m)
    BY <1>1, <1>2, CountedStep DEF Uncounted
  <2> QED
    BY <1>1, <1>2, <1>3, <1>4, <2>1, <2>2, CountedStep DEF Attached, Uncounted
<1> QED
  BY <1>1, <1>2, <1>5, CountsHelperSame

(* The test of decrement_module_rc always finds the module in the list,    *)
(* with a count above 0.                                                   *)
LEMMA CountsTest ==
  ASSUME Shape, Shape', Heap, Counts, Pinned, NEW t \in Task, Seen(t), DecrementTest(t)
  PROVE  Counts' /\ Pinned' /\ pc'[t] = "put"
<1>1. /\ HelperStep(t) /\ UNCHANGED memory /\ UNCHANGED refcnt /\ pc[t] = "test"
      /\ pc[t] \in HelperPC \ {"find"}
  BY DEF HelperStep, DecrementTest, kernel, At, HelperPC
<1>2. PICK p \in Task : p = req[t].pid
  BY <1>1, AtWork
<1>3. sys_vector[p] \in used /\ node[t] = module_addr[sys_vector[p]]
  BY <1>1, <1>2 DEF Seen
<1>4. node[t] \in Module
  BY <1>1, <1>2, <1>3, HeapAtNow
<1>5. Counted(p, node[t])
  BY <1>1, <1>2, <1>3, CountedStep DEF Attached, Uncounted
<1>6. mstate[node[t]] = "live" /\ refcnt[node[t]] > 0
  BY <1>4, <1>5, CountPositive DEF Pinned, Counts, Shape
<1>7. pc'[t] = "put"
  BY <1>4, <1>6, RouterAssumption DEF DecrementTest, Goto, Shape, TypeOK
<1>8. ASSUME NEW m \in Module
      PROVE  Counted(p, m)' <=> Counted(p, m)
  <2>1. Attached(p, m)' <=> Attached(p, m)
    BY <1>1 DEF Attached, memory
  <2> QED
    BY <1>1, <1>2, <1>7, <2>1, CountedStep DEF Uncounted
<1> QED
  BY <1>1, <1>2, <1>7, <1>8, CountsHelperSame

LEMMA CountsPut ==
  ASSUME Shape, Shape', Heap, Counts, Pinned, NEW t \in Task, Seen(t), DecrementPut(t)
  PROVE  Counts' /\ Pinned'
<1>1. /\ HelperStep(t) /\ UNCHANGED memory /\ UNCHANGED mstate /\ pc[t] = "put"
      /\ pc[t] \in HelperPC \ {"find"} /\ pc'[t] \in {"free", "inc"}
      /\ refcnt' = [refcnt EXCEPT ![node[t]] = @ - 1]
  BY DEF HelperStep, DecrementPut, AfterDecrement, At, HelperPC, Goto, Shape, TypeOK
<1>2. PICK p \in Task : p = req[t].pid
  BY <1>1, AtWork
<1>3. sys_vector[p] \in used /\ node[t] = module_addr[sys_vector[p]]
  BY <1>1, <1>2 DEF Seen
<1>4. ASSUME NEW m \in Module
      PROVE  Counted(p, m) <=> m = node[t]
  <2>1. Counted(p, m) <=> Attached(p, m)
    BY <1>1, <1>2, CountedStep DEF Uncounted
  <2> QED
    BY <1>3, <2>1 DEF Attached
<1>5. \A m \in Module : ~Counted(p, m)'
  BY <1>1, <1>2, CountedStep DEF Uncounted
<1>6. \A m \in Module, q \in Task \ {p} : Counted(q, m)' <=> Counted(q, m)
  BY <1>1, <1>2, CountedOthers
<1>7. ASSUME NEW m \in Module
      PROVE  Count(m)'
  <2>0. Count(m) /\ refcnt \in [Module -> Int] /\ TypeOK
    BY DEF Counts, Shape, TypeOK
  <2>1. CASE m = node[t]
    <3>1. refcnt'[m] = refcnt[m] - 1
      BY <1>1, <2>0, <2>1
    <3> QED
      BY <1>4, <1>5, <1>6, <2>0, <2>1, <3>1, CountDown
  <2>2. CASE m # node[t]
    <3>1. refcnt'[m] = refcnt[m]
      BY <1>1, <2>0, <2>2
    <3>2. \A q \in Task : Counted(q, m)' <=> Counted(q, m)
      BY <1>4, <1>5, <1>6, <2>2
    <3> QED
      BY <2>0, <3>1, <3>2, CountKept
  <2> QED
    BY <2>1, <2>2
<1>8. Pinned'
  BY <1>1, <1>5, <1>6 DEF Pinned
<1> QED
  BY <1>7, <1>8 DEF Counts

LEMMA CountsIncrement ==
  ASSUME Shape, Shape', Heap, Counts, Pinned, NEW t \in Task, Seen(t), Increment(t)
  PROVE  Counts' /\ Pinned'
<1>1. /\ HelperStep(t) /\ UNCHANGED memory /\ UNCHANGED mstate /\ pc[t] = "inc"
      /\ pc[t] \in HelperPC \ {"find"} /\ pc'[t] = "mod"
  BY DEF HelperStep, Increment, At, HelperPC, Goto, Shape, TypeOK
<1>2. PICK p \in Task : p = req[t].pid
  BY <1>1, AtWork
<1>3. req[t].module \in Module /\ mstate[req[t].module] = "live"
  <2>1. Phase(t) /\ Apart(t)
    BY DEF Shape
  <2>2. Setting(t) /\ req[t].vector # Zero
    BY <1>1, <2>1 DEF Phase, Setting, Attaching, Dropping
  <2> QED
    BY <1>1, <2>1, <2>2 DEF Phase, Apart
<1>4. refcnt' = [refcnt EXCEPT ![req[t].module] = @ + 1]
  BY <1>3 DEF Increment
<1>5. \A m \in Module : ~Counted(p, m)
  BY <1>1, <1>2, CountedStep DEF Uncounted
<1>6. \A m \in Module : Counted(p, m)' <=> m = req[t].module
  BY <1>1, <1>2, CountedStep DEF Uncounted
<1>7. \A m \in Module, q \in Task \ {p} : Counted(q, m)' <=> Counted(q, m)
  BY <1>1, <1>2, CountedOthers
<1>8. ASSUME NEW m \in Module
      PROVE  Count(m)'
  <2>0. Count(m) /\ refcnt \in [Module -> Int] /\ TypeOK
    BY DEF Counts, Shape, TypeOK
  <2>1. CASE m = req[t].module
    <3>1. refcnt'[m] = refcnt[m] + 1
      BY <1>4, <2>0, <2>1
    <3> QED
      BY <1>5, <1>6, <1>7, <2>0, <2>1, <3>1, CountUp
  <2>2. CASE m # req[t].module
    <3>1. refcnt'[m] = refcnt[m]
      BY <1>4, <2>0, <2>2
    <3>2. \A q \in Task : Counted(q, m)' <=> Counted(q, m)
      BY <1>5, <1>6, <1>7, <2>2
    <3> QED
      BY <2>0, <3>1, <3>2, CountKept
  <2> QED
    BY <2>1, <2>2
<1>9. Pinned'
  BY <1>1, <1>3, <1>6, <1>7 DEF Pinned
<1> QED
  BY <1>8, <1>9 DEF Counts

LEMMA CountsHelper ==
  ASSUME Shape, Shape', Heap, Counts, Pinned, NEW t \in Task, Seen(t), HelperStep(t)
  PROVE  Counts' /\ Pinned'
<1>1. ASSUME FreeVector(t) \/ AllocVector(t) \/ FirstModule(t)
      PROVE  Counts' /\ Pinned'
  <2>1. pc[t] \in Uncounted /\ pc'[t] \in Uncounted /\ UNCHANGED refcnt /\ pc[t] \in HelperPC \ {"find"}
    BY <1>1 DEF FreeVector, AllocVector, FirstModule, At, Goto, Shape, TypeOK, Uncounted, HelperPC, kernel
  <2>2. PICK p \in Task : p = req[t].pid
    BY <2>1, AtWork
  <2> QED
    BY <2>1, <2>2, CountedStep, CountsHelperSame
<1>2. ASSUME ClearVector(t)
      PROVE  Counts' /\ Pinned'
  <2>1. pc[t] = "null" /\ UNCHANGED refcnt /\ pc[t] \in HelperPC \ {"find"} /\ pc'[t] # "mod"
    BY <1>2 DEF ClearVector, Return, At, Goto, Shape, TypeOK, HelperPC, kernel
  <2>2. PICK p \in Task : p = req[t].pid
    BY <2>1, AtWork
  <2>3. p \in Task
    BY <2>1, <2>2, AtWork
  <2>4. sys_vector'[p] = None /\ None \notin used'
    BY <1>2, <2>2, <2>3, RouterAssumption DEF ClearVector, Shape, TypeOK
  <2>5. ASSUME NEW m \in Module
        PROVE  ~Attached(p, m)'
    BY <2>4 DEF Attached
  <2>6. ASSUME NEW m \in Module
        PROVE  Counted(p, m)' <=> Counted(p, m)
    BY <2>1, <2>2, <2>5, CountedStep DEF Uncounted
  <2> QED
    BY <2>1, <2>2, <2>6, CountsHelperSame
<1>3. ASSUME SwitchModule(t)
      PROVE  Counts' /\ Pinned'
  <2>1. pc[t] = "mod" /\ pc'[t] = "sv" /\ UNCHANGED refcnt /\ pc[t] \in HelperPC \ {"find"}
    BY <1>3 DEF SwitchModule, At, Goto, Shape, TypeOK, HelperPC, kernel
  <2>2. PICK p \in Task : p = req[t].pid
    BY <2>1, AtWork
  <2>3. sys_vector'[p] \in used' /\ module_addr'[sys_vector'[p]] = req[t].module
    BY <1>3, <2>2 DEF SwitchModule, SetModuleAddr, At, Readable, Shape, TypeOK
  <2>4. ASSUME NEW m \in Module
        PROVE  Attached(p, m)' <=> req[t].module = m
    BY <2>3 DEF Attached
  <2>5. ASSUME NEW m \in Module
        PROVE  Counted(p, m)' <=> Counted(p, m)
    BY <2>1, <2>2, <2>4, CountedStep DEF Uncounted
  <2> QED
    BY <2>1, <2>2, <2>5, CountsHelperSame
<1>4. ASSUME SetVector(t)
      PROVE  Counts' /\ Pinned'
  <2>1. /\ pc[t] = "sv" /\ pc'[t] \in {"user", "unlock", "die"} /\ UNCHANGED refcnt
        /\ UNCHANGED <<sys_vector, used, module_addr>> /\ pc[t] \in HelperPC \ {"find"}
    BY <1>4 DEF SetVector, Return, At, Goto, Shape, TypeOK, HelperPC, kernel
  <2>2. PICK p \in Task : p = req[t].pid
    BY <2>1, AtWork
  <2>3. \A m \in Module : Attached(p, m)' <=> Attached(p, m)
    BY <2>1 DEF Attached
  <2> QED
    BY <2>1, <2>2, <2>3, CountedStep, CountsHelperSame DEF Uncounted
<1> QED
  BY <1>1, <1>2, <1>3, <1>4, CountsFind, CountsPeek, CountsTest, CountsPut, CountsIncrement DEF HelperStep

(* A fork gives the count of the parent's module for the child ...         *)
LEMMA CountsSpawn ==
  ASSUME Undisturbed, Shape, Shape', Heap, Counts, Pinned, NEW t \in Task, NEW c \in Task, ProcessStep(t),
         Running(t), FreeToRun(t), Spawn(t, c), pc'[t] \in {"user", "find"}
  PROVE  Counts' /\ Pinned'
<1>0. TypeOK /\ UNCHANGED mstate
  BY DEF Shape, Spawn
<1>1. c # t /\ \A q \in Task : ~Working(t, q)
  BY SpawnApart
<1>2. \A u \in Task : ~(Working(u, c) /\ pc[u] # "find") /\ ~(Working(u, c)' /\ pc'[u] # "find")
  BY SpawnApart
<1>3. \A m \in Module : (Counted(c, m) <=> Attached(c, m)) /\ (Counted(c, m)' <=> Attached(c, m)')
  BY <1>2 DEF Counted
<1>4. \A q \in Task : Working(t, q)' => pc'[t] = "find"
  BY DEF Working, HelperPC
<1>5. CASE UNCHANGED <<memory, refcnt>>
  <2>1. Elsewhere(None)
    BY <1>5, QuietElsewhere
  <2>2. \A m \in Module, q \in Task : Counted(q, m)' <=> Counted(q, m)
    BY <1>1, <1>4, <2>1, CountedElsewhere, RouterAssumption
  <2> QED
    BY <1>0, <1>5, <2>2, CountsSame
<1>6. CASE Inherit(t, c)
  <2>1. \A m \in Module, q \in Task \ {c} : Counted(q, m)' <=> Counted(q, m)
    BY <1>1, <1>4, HeapSpawn, CountedElsewhere
  <2>2. \A m \in Module : ~Counted(c, m)
    <3>1. sys_vector[c] = None /\ None \notin used
      BY <1>0, SpawnApart, RouterAssumption DEF Heap, HeapAt, TypeOK
    <3> QED
      BY <1>3, <3>1 DEF Attached
  <2>3. \A u \in Task : ~Working(u, t)
    BY Unworked DEF Undisturbed, FreeToRun, Running, HelperPC
  <2>4. PICK n \in Module : n = module_addr[sys_vector[t]] /\ sys_vector[t] \in used
    BY <1>6, <2>3, Calling, RouterAssumption DEF Inherit, Shape, TypeOK
  <2>5. mstate[n] = "live"
    BY <2>3, <2>4 DEF Counted, Attached, Pinned
  <2>6. refcnt' = [refcnt EXCEPT ![n] = @ + 1]
    BY <1>6, <2>4 DEF Inherit
  <2>7. \A m \in Module : Counted(c, m)' <=> m = n
    <3>1. PICK b \in Addr \ used :
            /\ sys_vector' = [sys_vector EXCEPT ![c] = b]
            /\ used' = used \cup {b}
            /\ module_addr' = [module_addr EXCEPT ![b] = n]
      BY <1>6, <2>4 DEF Inherit
    <3>2. sys_vector'[c] = b /\ b \in used' /\ module_addr'[b] = n
      BY <1>0, <3>1 DEF TypeOK
    <3> QED
      BY <1>3, <3>2 DEF Attached
  <2>8. ASSUME NEW m \in Module
        PROVE  Count(m)'
    <3>0. Count(m) /\ refcnt \in [Module -> Int]
      BY <1>0 DEF Counts, TypeOK
    <3>1. CASE m = n
      <4>1. refcnt'[m] = refcnt[m] + 1
        BY <2>6, <3>0, <3>1
      <4> QED
        BY <1>0, <2>1, <2>2, <2>7, <3>0, <3>1, <4>1, CountUp
    <3>2. CASE m # n
      <4>1. refcnt'[m] = refcnt[m]
        BY <2>6, <3>0, <3>2
      <4>2. \A q \in Task : Counted(q, m)' <=> Counted(q, m)
        BY <2>1, <2>2, <2>7, <3>2
      <4> QED
        BY <1>0, <3>0, <4>1, <4>2, CountKept
    <3> QED
      BY <3>1, <3>2
  <2>9. Pinned'
    BY <1>0, <2>1, <2>5, <2>7 DEF Pinned
  <2> QED
    BY <2>8, <2>9 DEF Counts
<1> QED
  BY <1>5, <1>6 DEF Spawn

(* ... and a process that has not got its structure was never counted.     *)
LEMMA CountsOops ==
  ASSUME Undisturbed, Shape, Shape', Heap, Counts, Pinned, NEW t \in Task, Seen(t), Oops(t)
  PROVE  Counts' /\ Pinned'
<1>0. /\ TypeOK /\ ProcessStep(t) /\ UNCHANGED memory /\ UNCHANGED mstate /\ UNCHANGED refcnt
      /\ pc'[t] = "oops"
  BY DEF Shape, TypeOK, ProcessStep, Oops, Goto
<1>1. pc[t] = "addr" /\ sys_vector[req[t].pid] = None
  BY OopsOnly DEF Oops
<1>2. PICK p \in Task : p = req[t].pid /\ Working(t, p)
  BY <1>1, AtWork DEF HelperPC
<1>3. ~Working(t, p)' /\ Moves(t)
  BY <1>0, ProcessMoves DEF Working, HelperPC, Shape
<1>4. \A u \in Task : ~Working(u, p)'
  BY <1>2, <1>3, Sole DEF Moves, Working
<1>5. None \notin used'
  BY RouterAssumption DEF Shape, TypeOK
<1>6. sys_vector'[p] = None
  BY <1>0, <1>1, <1>2 DEF memory
<1>7. \A m \in Module : ~Counted(p, m) /\ ~Counted(p, m)'
  <2>1. \A m \in Module : ~Counted(p, m)
    BY <1>1, <1>2 DEF Counted
  <2>2. \A m \in Module : ~Attached(p, m)'
    BY <1>5, <1>6 DEF Attached
  <2>3. \A m \in Module : ~Counted(p, m)'
    BY <1>4, <2>2 DEF Counted
  <2> QED
    BY <2>1, <2>3
<1>8. \A m \in Module, q \in Task \ {p} : Counted(q, m)' <=> Counted(q, m)
  <2>1. Elsewhere(p)
    BY <1>0, QuietElsewhere
  <2>2. \A q \in Task \ {p} : ~Working(t, q) /\ ~Working(t, q)'
    BY <1>0, <1>2 DEF Working, HelperPC
  <2> QED
    BY <1>0, <2>1, <2>2, CountedElsewhere
<1> QED
  BY <1>0, <1>7, <1>8, CountsSame

LEMMA CountsProcess ==
  ASSUME Undisturbed, Shape, Shape', Heap, Counts, Pinned, NEW t \in Task, Seen(t), ProcessStep(t)
  PROVE  Counts' /\ Pinned'
<1>1. CASE UNCHANGED <<memory, refcnt, mstate>> /\ pc[t] \notin HelperPC \ {"find"}
           /\ pc'[t] \notin HelperPC \ {"find", "peek"}
  <2>1. Elsewhere(None)
    BY <1>1, QuietElsewhere
  <2>2. \A q \in Task : (Working(t, q) => pc[t] = "find") /\ (Working(t, q)' => pc'[t] \in {"find", "peek"})
    BY <1>1 DEF Working
  <2>3. \A m \in Module, q \in Task : Counted(q, m)' <=> Counted(q, m)
    BY <2>1, <2>2, CountedElsewhere, RouterAssumption
  <2> QED
    BY <1>1, <2>3, CountsSame DEF Shape
<1> QED
  BY <1>1, CountsHelper, CountsOops, OutsideHelper, CountsSpawn

LEMMA CountedStill ==
  ASSUME UNCHANGED req, \A u \in Task : pc'[u] = pc[u] \/ (pc[u] = "user" /\ pc'[u] = "dead"),
         NEW q, NEW m, Clearing(q) \/ (Attached(q, m)' <=> Attached(q, m))
  PROVE  /\ Counted(q, m)' <=> Counted(q, m)
         /\ Clearing(q)' <=> Clearing(q)
<1>1. \A u \in Task : /\ Working(u, q)' <=> Working(u, q)
                      /\ Working(u, q) => pc'[u] = pc[u] /\ req'[u] = req[u]
  BY DEF Working, HelperPC
<1>2. Half(q, Uncounted)' <=> Half(q, Uncounted)
  BY <1>1 DEF Half
<1>3. Half(q, {"mod"})' <=> Half(q, {"mod"})
  BY <1>1 DEF Half
<1>4. (\E u \in Task : Working(u, q) /\ pc[u] = "mod" /\ req[u].module = m)'
      <=> \E u \in Task : Working(u, q) /\ pc[u] = "mod" /\ req[u].module = m
  BY <1>1
<1>5. Clearing(q) => Half(q, Uncounted)
  BY DEF Clearing, Half, Uncounted
<1>6. Clearing(q)' <=> Clearing(q)
  BY <1>1 DEF Clearing
<1> QED
  BY <1>2, <1>3, <1>4, <1>5, <1>6 DEF Counted, Half, Uncounted

(* Only a module nobody is counted for is unloaded or loaded; death leaves *)
(* the counts, and reaping takes a vector only from a process that was     *)
(* killed.                                                                 *)
LEMMA CountsEnvironment ==
  ASSUME Undisturbed, Shape, Shape', Heap, Counts, Pinned, Reachable, Environment
  PROVE  Counts' /\ Pinned'
<1>0. TypeOK /\ TypeOK'
  BY DEF Shape
<1>1. UNCHANGED req /\ \A u \in Task : pc'[u] = pc[u] \/ (pc[u] = "user" /\ pc'[u] = "dead")
  BY <1>0, EnvironmentMoves
<1>2. ASSUME UNCHANGED memory
      PROVE  \A q \in Task, m \in Module : Counted(q, m)' <=> Counted(q, m)
  BY <1>1, <1>2, CountedStill DEF Attached, memory
<1>3. ASSUME NEW t \in Task, Kill(t)
      PROVE  Counts' /\ Pinned'
  <2>1. UNCHANGED <<memory, refcnt, mstate>>
    BY <1>3 DEF Kill
  <2> QED
    BY <1>0, <1>2, <2>1, CountsSame
<1>4. ASSUME NEW t \in Task, Reap(t)
      PROVE  Counts' /\ Pinned'
  <2>1. /\ UNCHANGED <<refcnt, mstate, used>> /\ life[t] = "zombie" /\ ~Targeted(t)
        /\ sys_vector' = [sys_vector EXCEPT ![t] = None] /\ Elsewhere(t)
    BY <1>0, <1>4 DEF Reap, FreeToRun, Undisturbed, Elsewhere, TypeOK
  <2>2. pc[t] \in {"dead", "oops"}
    BY <2>1 DEF Shape, Living
  <2>3. \A u \in Task : ~Working(u, t) /\ ~Working(u, t)'
    BY <1>1, <2>1, <2>2, Unworked DEF HelperPC, Working
  <2>4. \A m \in Module : ~Counted(t, m)'
    <3>1. sys_vector'[t] = None /\ None \notin used'
      BY <1>0, <2>1, RouterAssumption DEF TypeOK
    <3> QED
      BY <2>3, <3>1 DEF Counted, Attached
  <2>5. \A m \in Module, q \in Task \ {t} : Counted(q, m)' <=> Counted(q, m)
    BY <1>0, <1>1, <2>1, AttachedElsewhere, CountedStill
  <2>6. ASSUME NEW m \in Module
        PROVE  Count(m)'
    <3>0. Count(m) /\ refcnt'[m] = refcnt[m]
      BY <2>1 DEF Counts
    <3>1. CASE Hazards = {}
      <4>1. sys_vector[t] = None /\ None \notin used
        BY <1>0, <2>2, <3>1, RouterAssumption DEF Reachable, DeadDetached, TypeOK
      <4>2. ~Counted(t, m)
        BY <2>3, <4>1 DEF Counted, Attached
      <4> QED
        BY <1>0, <2>4, <2>5, <3>0, <4>2, CountKept
    <3>2. CASE Hazards # {}
      BY <1>0, <2>4, <2>5, <3>0, <3>2, CountDropped
    <3> QED
      BY <3>1, <3>2
  <2>7. Pinned'
    BY <2>1, <2>4, <2>5 DEF Pinned
  <2> QED
    BY <2>6, <2>7 DEF Counts
<1>5. ASSUME NEW n \in Module, LoadModule(n)
      PROVE  Counts' /\ Pinned'
  <2>1. /\ UNCHANGED memory /\ mstate[n] = "out"
        /\ mstate' = [mstate EXCEPT ![n] = "live"] /\ refcnt' = [refcnt EXCEPT ![n] = 0]
    BY <1>5 DEF LoadModule
  <2>2. \A q \in Task, m \in Module : Counted(q, m)' <=> Counted(q, m)
    BY <1>2, <2>1
  <2>3. ASSUME NEW m \in Module
        PROVE  Count(m)'
    <3>1. CASE m = n
      <4>1. refcnt'[m] = 0
        BY <1>0, <2>1, <3>1 DEF TypeOK
      <4>2. \A q \in Task : ~Counted(q, m)'
        BY <2>1, <2>2, <3>1 DEF Pinned
      <4> QED
        BY <4>1, <4>2, CountZero DEF Count
    <3>2. CASE m # n
      <4>1. refcnt'[m] = refcnt[m]
        BY <1>0, <2>1, <3>2 DEF TypeOK
      <4> QED
        BY <1>0, <2>2, <4>1, CountKept DEF Counts
    <3> QED
      BY <3>1, <3>2
  <2>4. Pinned'
    BY <1>0, <2>1, <2>2 DEF Pinned, TypeOK
  <2> QED
    BY <2>3, <2>4 DEF Counts
<1>6. ASSUME NEW n \in Module, BeginUnload(n) \/ FinishUnload(n)
      PROVE  Counts' /\ Pinned'
  <2>1. UNCHANGED memory /\ UNCHANGED refcnt /\ (refcnt[n] = 0 \/ mstate[n] = "going")
        /\ \A m \in Module \ {n} : mstate'[m] = mstate[m]
    BY <1>0, <1>6 DEF BeginUnload, FinishUnload, TypeOK
  <2>2. \A q \in Task, m \in Module : Counted(q, m)' <=> Counted(q, m)
    BY <1>2, <2>1
  <2>3. Counts'
    BY <1>0, <2>1, <2>2, CountKept DEF Counts
  <2>4. \A q \in Task : ~Counted(q, n)
    <3>1. CASE refcnt[n] = 0
      BY <1>0, <3>1, CountPositive DEF Counts
    <3>2. CASE mstate[n] = "going"
      BY <3>2 DEF Pinned
    <3> QED
      BY <2>1, <3>1, <3>2
  <2>5. Pinned'
    BY <2>1, <2>2, <2>4 DEF Pinned
  <2> QED
    BY <2>3, <2>5
<1> QED
  BY <1>3, <1>4, <1>5, <1>6 DEF Environment

-----------------------------------------------------------------------------
(* With no hazard at all, nothing allocated is lost.                       *)
LEMMA AliveProcess ==
  ASSUME Hazards = {}, Shape, Shape', Heap, Pinned, TargetsAlive, NEW t \in Task, Seen(t), ProcessStep(t)
  PROVE  TargetsAlive'
<1>0. TypeOK /\ Undisturbed /\ Moves(t) /\ (\A u \in Task : Phase(u)) /\ ~Oops(t)
  BY ProcessMoves, OopsOnly DEF Shape, Undisturbed, Oops
<1>1. \A p \in Task \ {t} : life'[p] = life[p] \/ life'[p] = "live"
  BY LifeMoves DEF Shape
<1>2. ASSUME NEW u \in Task \ {t}, Setting(u), req[u].pid \in Task
      PROVE  life'[req[u].pid] # "zombie"
  <2>1. CASE req[u].pid = t
    <3>1. ~UsesVector(t)
      BY <1>2, <2>1 DEF Shape, Apart
    <3>2. pc'[t] # "dead" /\ pc'[t] # "oops"
      <4>1. CASE HelperStep(t)
        BY <1>0, <4>1, HelperGoes DEF HelperPC
      <4>2. CASE Begin(t)
        BY <1>0, <4>2 DEF Begin, IoctlSet, Clone2, Fork, BeginCall, ExitGroup, Goto, TypeOK, Running
      <4>3. CASE AcquireLock(t) \/ CopyFails(t) \/ CallStep(t) \/ Unlock(t)
        BY <1>0, <4>3 DEF AcquireLock, CopyFails, Return, CallStep, Gate, ReadNode, EnterModule, LeaveModule,
           LeaveCall, Unlock, Goto, TypeOK
      <4>4. CASE Die(t)
        BY <3>1, <4>4 DEF Die, UsesVector
      <4> QED
        BY <1>0, <4>1, <4>2, <4>3, <4>4 DEF ProcessStep, Progress
    <3> QED
      BY <2>1, <3>2, LifeMoves DEF Shape
  <2>2. CASE req[u].pid # t
    BY <1>1, <1>2, <2>2 DEF TargetsAlive
  <2> QED
    BY <2>1, <2>2
<1>3. ASSUME Setting(t)', req'[t].pid \in Task
      PROVE  life'[req'[t].pid] # "zombie"
  <2>1. life'[t] # "zombie"
    <3>1. req'[t] # Idle
      BY <1>3 DEF Setting, Idle
    <3> QED
      BY <3>1, LifeMoves DEF Shape
  <2>2. CASE req'[t] = req[t]
    BY <1>1, <1>3, <2>1, <2>2 DEF TargetsAlive, Setting
  <2>3. CASE req'[t] # req[t]
    <3>1. ASSUME NEW p \in Task, NEW m \in Module, NEW v \in Vector, IoctlSet(t, p, m, v)
          PROVE  life'[req'[t].pid] # "zombie"
      <4>1. req'[t].pid = p /\ UNCHANGED life
        BY <1>0, <3>1 DEF IoctlSet, Idle, kernel, TypeOK
      <4>2. p # t => life[p] # "zombie"
        BY <3>1 DEF IoctlSet, TargetQuiet
      <4> QED
        BY <2>1, <4>1, <4>2
    <3>2. ASSUME NEW c \in Task, NEW m \in Module, NEW v \in Vector, Clone2(t, c, m, v)
          PROVE  life'[req'[t].pid] # "zombie"
      <4>1. PICK pid \in {c, None} :
              /\ IF pid = None THEN UNCHANGED <<memory, kernel>> ELSE Spawn(t, c)
              /\ req' = [req EXCEPT ![t] =
                           [Idle EXCEPT !.via = "clone2", !.pid = pid, !.module = m, !.vector = v]]
        BY <3>2 DEF Clone2
      <4>2. req'[t].pid = pid
        <5>1. req'[t] = [Idle EXCEPT !.via = "clone2", !.pid = pid, !.module = m, !.vector = v]
          BY <1>0, <4>1 DEF TypeOK
        <5> QED
          BY <5>1 DEF Idle
      <4>3. life'[c] = "live"
        BY <1>0, <1>3, <4>1, <4>2, RouterAssumption DEF Spawn, TypeOK
      <4> QED
        BY <1>3, <4>2, <4>3, RouterAssumption
    <3>3. Setting(t)' /\ req'[t] # req[t] =>
            \E p \in Task, m \in Module, v \in Vector : IoctlSet(t, p, m, v) \/ Clone2(t, p, m, v)
      <4>1. CASE HelperStep(t)
        BY <1>0, <4>1, HelperGoes DEF Setting, Idle
      <4>2. CASE AcquireLock(t) \/ CallStep(t) \/ Unlock(t) \/ Die(t)
        BY <1>0, <4>2 DEF AcquireLock, CallStep, Gate, ReadNode, EnterModule, LeaveModule,
           LeaveCall, Unlock, Die, TypeOK, Setting, Idle, local
      <4>3. CASE CopyFails(t)
        BY <1>0, <4>3 DEF CopyFails, Return, TypeOK, Setting, Idle
      <4>4. ASSUME NEW c \in Task, Fork(t, c)
            PROVE  req'[t] = req[t]
        BY <4>4 DEF Fork, local
      <4>5. ASSUME NEW c \in Call, BeginCall(t, c)
            PROVE  ~Setting(t)'
        BY <1>0, <4>5 DEF BeginCall, TypeOK, Setting, Idle
      <4>6. CASE ExitGroup(t)
        BY <1>0, <4>6 DEF ExitGroup, TypeOK, Setting, Idle
      <4> QED
        BY <1>0, <4>1, <4>2, <4>3, <4>4, <4>5, <4>6 DEF ProcessStep, Progress, Begin
    <3> QED
      BY <1>3, <2>3, <3>1, <3>2, <3>3
  <2> QED
    BY <2>2, <2>3
<1> QED
  BY <1>0, <1>2, <1>3 DEF TargetsAlive, Moves, Setting

LEMMA DeadProcess ==
  ASSUME Hazards = {}, Shape, Shape', Heap, Pinned, TargetsAlive, DeadDetached, NEW t \in Task, Seen(t), ProcessStep(t)
  PROVE  DeadDetached'
<1>0. TypeOK /\ Undisturbed /\ Moves(t) /\ (\A u \in Task : Phase(u)) /\ ~Oops(t)
  BY ProcessMoves, OopsOnly DEF Shape, Undisturbed, Oops
<1>1. ASSUME NEW u \in Task \ {t}, pc[u] \in {"dead", "oops"}
      PROVE  sys_vector'[u] = None
  <2>1. sys_vector[u] = None
    BY <1>1 DEF DeadDetached
  <2>2. life[u] \in {"zombie", "reaped"}
    BY <1>1 DEF Shape, Living, TypeOK
  <2>3. CASE UNCHANGED memory
    BY <2>1, <2>3 DEF memory
  <2>4. CASE HelperStep(t)
    <3>1. Working(t, u) => pc[t] = "find"
      <4>1. SUFFICES ASSUME pc[t] \in HelperPC \ {"find"}, req[t].pid = u
                     PROVE  FALSE
        BY DEF Working
      <4>2. TaskExists(u) /\ Phase(t)
        BY <1>0, <4>1, AtWork
      <4>3. Setting(t)
        BY <1>1, <4>1, <4>2 DEF Phase, Setting
      <4> QED
        BY <2>2, <4>1, <4>2, <4>3 DEF TargetsAlive, TaskExists
    <3>2. CASE pc[t] = "find"
      <4>1. Find(t)
        BY <2>4, <3>2 DEF HelperStep, At, Peek, ReadOld, DecrementTest, DecrementPut, FreeVector,
           ClearVector, AllocVector, FirstModule, Increment, SwitchModule, SetVector
      <4> QED
        BY <2>3, <4>1 DEF Find
    <3>3. CASE pc[t] # "find"
      <4>1. req[t].pid \in Task /\ req[t].pid # u
        BY <1>0, <2>4, <3>1, <3>3, AtWork, HelperGoes DEF Working
      <4> QED
        BY <2>1, <2>4, <4>1, HeapHelper DEF Elsewhere
    <3> QED
      BY <3>2, <3>3
  <2>5. ASSUME NEW c \in Task, Spawn(t, c), Running(t), FreeToRun(t), pc'[t] \in {"user", "find"}
        PROVE  sys_vector'[u] = None
    <3>1. u # c
      BY <1>1, <2>5, SpawnApart
    <3> QED
      BY <1>0, <2>1, <2>5, <3>1, HeapSpawn DEF Elsewhere
  <2> QED
    BY <1>0, <2>3, <2>4, <2>5, OutsideHelper
<1>2. ASSUME pc'[t] \in {"dead", "oops"}
      PROVE  sys_vector'[t] = None
  <2>1. Die(t)
    <3>1. CASE HelperStep(t)
      BY <1>0, <1>2, <3>1, HelperGoes DEF HelperPC
    <3>2. CASE Begin(t)
      BY <1>0, <1>2, <3>2 DEF Begin, IoctlSet, Clone2, Fork, BeginCall, ExitGroup, Goto, TypeOK, Running
    <3>3. CASE AcquireLock(t) \/ CopyFails(t) \/ CallStep(t) \/ Unlock(t)
      BY <1>0, <1>2, <3>3 DEF AcquireLock, CopyFails, Return, CallStep, Gate, ReadNode, EnterModule, LeaveModule,
         LeaveCall, Unlock, Goto, TypeOK
    <3> QED
      BY <1>0, <3>1, <3>2, <3>3 DEF ProcessStep, Progress
  <2> QED
    BY <2>1 DEF Die, Heap, HeapAt, memory
<1> QED
  BY <1>0, <1>1, <1>2 DEF DeadDetached, Moves

LEMMA OwnedProcess ==
  ASSUME Hazards = {}, Shape, Shape', Heap, Pinned, Owned, NEW t \in Task, Seen(t), ProcessStep(t)
  PROVE  Owned'
<1>0. TypeOK /\ TypeOK' /\ Undisturbed /\ Moves(t) /\ Phase(t) /\ ~Oops(t)
  BY ProcessMoves, OopsOnly DEF Shape, Undisturbed, Oops
<1>1. ASSUME NEW q \in Task, ~Clearing(q), Working(t, q)' => pc'[t] # "null"
      PROVE  ~Clearing(q)'
  BY <1>0, <1>1 DEF Clearing, Moves, Working
<1>2. CASE UNCHANGED memory /\ pc'[t] # "null"
  BY <1>1, <1>2 DEF Owned, memory
<1>3. CASE HelperStep(t) /\ pc[t] \in HelperPC \ {"find"}
  <2>1. PICK p \in Task : p = req[t].pid /\ Working(t, p) /\ (Clearing(p) <=> pc[t] = "null")
    BY <1>3, AtWork
  <2>2. Elsewhere(p)
    BY <1>3, <2>1, HeapHelper
  <2>3. ASSUME NEW q \in Task \ {p}, ~Clearing(q)
        PROVE  ~Clearing(q)' /\ sys_vector'[q] = sys_vector[q]
    <3>1. ~Working(t, q)'
      BY <1>0, <1>3, <2>1, HelperGoes DEF Working, HelperPC
    <3> QED
      BY <1>1, <2>2, <2>3, <3>1 DEF Elsewhere
  <2>4. CASE FreeVector(t)
    <3>1. sys_vector[p] \in used
      BY <2>1, <2>4 DEF FreeVector, At, Seen
    <3>2. used' = used \ {sys_vector[p]}
      BY <1>0, <2>1, <2>4, <3>1, RouterAssumption DEF FreeVector, Kfree, TypeOK
    <3> QED
      BY <2>3, <3>2 DEF Owned
  <2>5. CASE ClearVector(t)
    <3>1. UNCHANGED used /\ Clearing(p)
      BY <2>1, <2>5 DEF ClearVector, At
    <3> QED
      BY <2>3, <3>1 DEF Owned
  <2>6. CASE AllocVector(t)
    <3>1. sys_vector[p] = None /\ None \notin used /\ pc'[t] = "addr" /\ pc[t] = "alloc"
      BY <1>0, <2>1, <2>6, RouterAssumption DEF AllocVector, At, Seen, Goto, TypeOK
    <3>2. PICK b \in Addr \ used : sys_vector' = [sys_vector EXCEPT ![p] = b] /\ used' = used \cup {b}
      BY <2>1, <2>6 DEF AllocVector
    <3>3. sys_vector'[p] = b /\ ~Clearing(p)'
      BY <1>0, <1>1, <2>1, <3>1, <3>2 DEF TypeOK
    <3>4. ASSUME NEW a \in used
          PROVE  \E q \in Task \ {p} : sys_vector[q] = a /\ ~Clearing(q)
      BY <3>1 DEF Owned
    <3> QED
      BY <2>3, <3>2, <3>3, <3>4 DEF Owned
  <2>7. CASE UNCHANGED <<sys_vector, used>> /\ pc'[t] # "null"
    BY <1>1, <2>7 DEF Owned
  <2>8. CASE Find(t)
    BY <1>3, <2>8 DEF Find
  <2>9. CASE Peek(t) \/ ReadOld(t) \/ DecrementTest(t) \/ DecrementPut(t) \/ FirstModule(t) \/ Increment(t)
             \/ SwitchModule(t) \/ SetVector(t)
    <3>1. pc'[t] # "null"
      BY <1>0, <2>9 DEF Peek, ReadOld, DecrementTest, DecrementPut, AfterDecrement, FirstModule, Increment,
         SwitchModule, SetVector, Return, At, Goto, TypeOK
    <3> QED
      BY <2>7, <2>9, <3>1 DEF Peek, ReadOld, DecrementTest, DecrementPut, FirstModule, Increment, SwitchModule,
         SetVector, memory
  <2> QED
    BY <1>3, <2>4, <2>5, <2>6, <2>8, <2>9 DEF HelperStep
<1>4. CASE HelperStep(t) /\ pc[t] = "find"
  <2>1. Find(t)
    BY <1>4 DEF HelperStep, At, Peek, ReadOld, DecrementTest, DecrementPut, FreeVector,
       ClearVector, AllocVector, FirstModule, Increment, SwitchModule, SetVector
  <2>2. pc'[t] # "null"
    BY <1>0, <2>1 DEF Find, Return, Goto, TypeOK
  <2> QED
    BY <1>2, <2>1, <2>2 DEF Find
<1>5. ASSUME NEW c \in Task, Spawn(t, c), Running(t), FreeToRun(t), pc'[t] \in {"user", "find"}
      PROVE  Owned'
  <2>1. CASE UNCHANGED memory
    BY <1>2, <1>5, <2>1
  <2>2. CASE Inherit(t, c)
    <3>1. PICK b \in Addr \ used : sys_vector' = [sys_vector EXCEPT ![c] = b] /\ used' = used \cup {b}
      BY <2>2 DEF Inherit
    <3>2. sys_vector'[c] = b /\ \A q \in Task \ {c} : sys_vector'[q] = sys_vector[q]
      BY <1>0, <3>1 DEF TypeOK
    <3>3. ~Clearing(c)'
      BY <1>5, SpawnApart DEF Clearing
    <3>4. sys_vector[c] = None /\ None \notin used
      BY <1>0, <1>5, SpawnApart, RouterAssumption DEF Heap, HeapAt, TypeOK
    <3>5. \A q \in Task : ~Clearing(q) => ~Clearing(q)'
      BY <1>1, <1>5
    <3> QED
      BY <3>1, <3>2, <3>3, <3>4, <3>5 DEF Owned
  <2> QED
    BY <1>5, <2>1, <2>2 DEF Spawn
<1>6. CASE ~HelperStep(t) /\ UNCHANGED memory /\ pc'[t] \notin HelperPC \ {"find", "peek"}
  BY <1>2, <1>6 DEF HelperPC
<1> QED
  BY <1>0, <1>3, <1>4, <1>5, <1>6, HelperGoes, OutsideHelper

LEMMA ReachableEnvironment ==
  ASSUME Hazards = {}, Shape, Shape', Heap, Reachable, Environment
  PROVE  Reachable'
<1> USE DEF Reachable
<1>0. TypeOK /\ Undisturbed
  BY DEF Shape, Undisturbed
<1>1. UNCHANGED <<req, used>> /\ \A u \in Task : pc'[u] = pc[u] \/ (pc[u] = "user" /\ pc'[u] = "dead")
  BY <1>0, EnvironmentMoves
<1>2. \A q \in Task : Clearing(q)' <=> Clearing(q)
  BY <1>1 DEF Clearing, Working, HelperPC
<1>3. UNCHANGED pc
  BY <1>1 DEF Environment, Kill, Reap, LoadModule, BeginUnload, FinishUnload
<1>4. UNCHANGED sys_vector
  <2>1. ASSUME NEW t \in Task, Reap(t)
        PROVE  UNCHANGED sys_vector
    <3>1. sys_vector[t] = None
      BY <2>1 DEF Reap, Shape, Living, DeadDetached
    <3> QED
      BY <1>0, <2>1, <3>1 DEF Reap, TypeOK
  <2> QED
    BY <2>1 DEF Environment, Kill, LoadModule, BeginUnload, FinishUnload, memory
<1>5. \A p \in Task : life'[p] = "zombie" => life[p] = "zombie"
  BY <1>0 DEF Environment, Kill, Reap, LoadModule, BeginUnload, FinishUnload, TypeOK
<1> QED
  BY <1>1, <1>2, <1>3, <1>4, <1>5 DEF Owned, DeadDetached, TargetsAlive, Setting

-----------------------------------------------------------------------------
(* The invariant.                                                          *)
LEMMA SafetyInit == Init => IInv
<1> SUFFICES ASSUME Init PROVE IInv
  OBVIOUS
<1>1. Shape
  BY ShapeInit
<1>2. \A p \in Task : ~Clearing(p) /\ \A ls : ~Half(p, ls)
  BY DEF Init, Half, Clearing, Working, HelperPC
<1>3. Heap
  BY RouterAssumption DEF Init, Heap, HeapAt, Distinct
<1>4. \A t \in Task : Seen(t)
  BY SeenNothing DEF Init, SeenPC, CallPC
<1>5. \A p \in Task, m \in Module : ~Counted(p, m)
  BY DEF Init, Counted, Attached, Working, HelperPC
<1>6. Counts
  <2>1. ASSUME NEW m \in Module
        PROVE  Tally(m) = {}
    BY <1>5 DEF Tally
  <2>2. \A m \in Module : refcnt[m] = 0
    BY DEF Init
  <2> QED
    BY <2>1, <2>2, FS_EmptySet DEF Counts, Count
<1>7. Reachable
  BY DEF Init, Reachable, Owned, DeadDetached, TargetsAlive, Setting, Idle
<1> QED
  BY <1>1, <1>3, <1>4, <1>5, <1>6, <1>7 DEF IInv, Pinned

LEMMA SafetyStep ==
  ASSUME Undisturbed, IInv, Next
  PROVE  IInv'
<1> USE DEF IInv
<1>1. Shape'
  BY ShapeStep
<1>2. ASSUME NEW t \in Task, ProcessStep(t)
      PROVE  Heap' /\ (\A u \in Task : Seen(u)') /\ Counts' /\ Pinned' /\ Reachable'
  <2>1. Heap' /\ (\A u \in Task : Seen(u)')
    BY <1>1, <1>2, HeapProcess, SeenProcess
  <2>2. Counts' /\ Pinned'
    BY <1>1, <1>2, CountsProcess
  <2>3. Reachable'
    BY <1>1, <1>2, AliveProcess, DeadProcess, OwnedProcess DEF Reachable
  <2> QED
    BY <2>1, <2>2, <2>3
<1>3. ASSUME Environment
      PROVE  Heap' /\ (\A u \in Task : Seen(u)') /\ Counts' /\ Pinned' /\ Reachable'
  <2>1. Heap' /\ (\A u \in Task : Seen(u)')
    BY <1>1, <1>3, HeapEnvironment, SeenEnvironment
  <2>2. Counts' /\ Pinned'
    BY <1>1, <1>3, CountsEnvironment
  <2>3. Reachable'
    <3>1. CASE Hazards = {}
      BY <1>1, <1>3, <3>1, ReachableEnvironment
    <3>2. CASE Hazards # {}
      BY <3>2 DEF Reachable
    <3> QED
      BY <3>1, <3>2
  <2> QED
    BY <2>1, <2>2, <2>3
<1> QED
  BY <1>1, <1>2, <1>3 DEF Next, ProcessStep

LEMMA SafetyStutter ==
  ASSUME IInv, UNCHANGED vars
  PROVE  IInv'
<1> USE DEF vars, memory, kernel, local
<1>1. Shape'
  BY ShapeStutter DEF IInv
<1>2. \A t, p \in Task : Working(t, p)' <=> Working(t, p)
  BY DEF Working
<1>3. \A p \in Task : Clearing(p)' <=> Clearing(p)
  BY <1>2 DEF Clearing
<1>4. Heap'
  <2>1. \A p \in Task : KeepsHalf(p) /\ KeepsLife(p)
    BY <1>2, <1>3 DEF KeepsHalf, KeepsLife, Half
  <2> QED
    BY <2>1, HeapQuiet DEF IInv, Shape
<1>5. \A t \in Task : Seen(t)'
  BY SeenQuiet DEF IInv
<1>6. \A p \in Task, m \in Module : Counted(p, m)' <=> Counted(p, m)
  BY CountedStill DEF Attached
<1>7. Counts' /\ Pinned'
  BY <1>6, CountsSame DEF IInv, Shape
<1>8. Reachable'
  BY <1>3 DEF IInv, Reachable, Owned, DeadDetached, TargetsAlive, Setting
<1> QED
  BY <1>1, <1>4, <1>5, <1>7, <1>8 DEF IInv

LEMMA SafetyAlways ==
  ASSUME Undisturbed
  PROVE  Spec => []IInv
<1>1. IInv /\ [Next]_vars => IInv'
  BY SafetyStep, SafetyStutter
<1> QED
  BY <1>1, SafetyInit, PTL DEF Spec

(* As long as nobody disturbs a SET, a module stays loaded, and in the     *)
(* list, at every step at which its count includes a process: also when    *)
(* processes are killed and allocations fail.                              *)
THEOREM CountedLoadedAlways ==
  ASSUME Hazards \subseteq {"kill", "oom"}
  PROVE  Spec => []CountedLoaded
<1>1. IInv => CountedLoaded
  BY DEF IInv, Pinned, CountedLoaded
<1> QED
  BY <1>1, SafetyAlways, PTL DEF Undisturbed

(* Under the same conditions a hooked call runs in the module, and by the  *)
(* bitmap, that its process is attached to, from the time it enters the    *)
(* module until it leaves it.                                              *)
THEOREM CallConsistentAlways ==
  ASSUME Hazards \subseteq {"kill", "oom"}
  PROVE  Spec => []CallConsistent
<1>1. IInv => CallConsistent
  <2> SUFFICES ASSUME IInv, NEW t \in Task, pc[t] = "body"
               PROVE  /\ mstate[node[t]] = "live"
                      /\ Attached(t, node[t])
                      /\ req[t].call \in sv[sys_vector[t]]
    BY DEF CallConsistent
  <2>1. req[t].via = "call" /\ req[t].pid = t
    BY DEF IInv, Shape, Phase, CallPC
  <2>2. /\ sys_vector[t] \in used /\ node[t] = module_addr[sys_vector[t]]
        /\ req[t].call \in sv[sys_vector[t]]
    BY <2>1 DEF IInv, Seen, CallPC
  <2>3. \A u \in Task : ~Working(u, t)
    BY <2>1, NoWorker DEF IInv
  <2>4. node[t] \in Module
    BY <2>2, <2>3, Calling, RouterAssumption DEF IInv, Shape, TypeOK
  <2>5. Counted(t, node[t])
    BY <2>2, <2>3 DEF Counted, Attached
  <2> QED
    BY <2>2, <2>4, <2>5 DEF IInv, Pinned, Attached
<1> QED
  BY <1>1, SafetyAlways, PTL DEF Undisturbed

(* Unless an allocation fails (line 35 then stores through NULL), no       *)
(* access of the driver goes through a pointer that is NULL, uninitialised *)
(* or freed, or into a module that has been unloaded.                      *)
THEOREM NoOopsAlways ==
  ASSUME Hazards \subseteq {"kill"}
  PROVE  Spec => []NoOops
<1>0. Undisturbed /\ "oom" \notin Hazards
  BY DEF Undisturbed
<1>1. Init => NoOops
  BY DEF Init, NoOops
<1>2. IInv /\ NoOops /\ [Next]_vars => NoOops'
  <2> SUFFICES ASSUME IInv, NoOops, [Next]_vars
               PROVE  NoOops'
    OBVIOUS
  <2> USE DEF IInv
  <2>1. ASSUME NEW t \in Task, ProcessStep(t)
        PROVE  NoOops'
    <3>1. Moves(t) /\ TypeOK /\ Phase(t)
      BY <2>1, ProcessMoves DEF Shape
    <3>2. ~Oops(t)
      BY <1>0, OopsOnly DEF Oops
    <3>3. pc'[t] # "oops"
      <4>1. CASE HelperStep(t)
        BY <3>1, <4>1, HelperGoes DEF HelperPC
      <4>2. CASE Begin(t)
        BY <3>1, <4>2 DEF Begin, IoctlSet, Clone2, Fork, BeginCall, ExitGroup, Goto, TypeOK, Running
      <4>3. CASE AcquireLock(t) \/ CopyFails(t) \/ CallStep(t) \/ Unlock(t) \/ Die(t)
        BY <3>1, <4>3 DEF AcquireLock, CopyFails, Return, CallStep, Gate, ReadNode, EnterModule, LeaveModule,
           LeaveCall, Unlock, Die, Goto, TypeOK
      <4> QED
        BY <2>1, <3>2, <4>1, <4>2, <4>3 DEF ProcessStep, Progress
    <3> QED
      BY <3>1, <3>3 DEF NoOops, Moves
  <2>2. CASE Environment
    BY <1>0, <2>2, EnvironmentMoves DEF NoOops, Shape
  <2>3. CASE UNCHANGED vars
    BY <2>3 DEF vars, NoOops
  <2> QED
    BY <2>1, <2>2, <2>3 DEF Next, ProcessStep
<1> QED
  BY <1>0, <1>1, <1>2, SafetyAlways, PTL DEF Spec

(* With no hazard, the count of a module is exact at every single step of  *)
(* every SET, clone2, fork and exit.                                       *)
THEOREM RefExactAlways ==
  ASSUME Hazards = {}
  PROVE  Spec => []RefExact
<1>1. Undisturbed
  BY DEF Undisturbed
<1>2. IInv => RefExact
  BY DEF IInv, Counts, Count, Tally, RefExact
<1> QED
  BY <1>1, <1>2, SafetyAlways, PTL

(* With no hazard, what is allocated belongs to exactly one process, and   *)
(* no process points to what is not, except between kfree and the NULL     *)
(* store.                                                                  *)
THEOREM OneOwnerAlways ==
  ASSUME Hazards = {}
  PROVE  Spec => []OneOwner
<1>1. Undisturbed
  BY DEF Undisturbed
<1>2. IInv => OneOwner
  <2> SUFFICES ASSUME IInv
               PROVE  OneOwner
    OBVIOUS
  <2>1. \A p \in Task : sys_vector[p] \in used \cup {None} \/ Clearing(p)
    BY DEF IInv, Heap, HeapAt
  <2>2. ASSUME NEW a \in used
        PROVE  Cardinality({p \in Task : sys_vector[p] = a /\ ~Clearing(p)}) = 1
    <3>1. PICK p \in Task : sys_vector[p] = a /\ ~Clearing(p)
      BY DEF IInv, Reachable, Owned
    <3>2. a # None
      BY RouterAssumption DEF IInv, Shape, TypeOK
    <3>3. {q \in Task : sys_vector[q] = a /\ ~Clearing(q)} = {p}
      BY <3>1, <3>2, OtherMemory DEF IInv
    <3> QED
      BY <3>3, FS_Singleton
  <2> QED
    BY <2>1, <2>2 DEF OneOwner
<1> QED
  BY <1>1, <1>2, SafetyAlways, PTL

-----------------------------------------------------------------------------
(* The refinement.                                                         *)
(* Memory that is not allocated, or that line 34 has just allocated, holds *)
(* no bitmap.                                                              *)
Blank ==
  /\ \A a \in Addr \ used : sv[a] = None
  /\ \A t \in Task : pc[t] = "addr" /\ sys_vector[req[t].pid] \in Addr => sv[sys_vector[req[t].pid]] = None

(* What the registry shows for a process, by where its worker stands.      *)
LEMMA EntryMine ==
  ASSUME Shape, NEW t \in Task, NEW p \in Task, Working(t, p)
  PROVE  AttachedEntry(p) =
           IF \/ pc[t] \in {"free", "null", "addr"} \/ sys_vector[p] \notin used
              \/ (IF pc[t] = "sv" THEN req[t].vector ELSE sv[sys_vector[p]]) = None
           THEN None
           ELSE [module |-> module_addr[sys_vector[p]],
                 vector |-> IF pc[t] = "sv" THEN req[t].vector ELSE sv[sys_vector[p]]]
<1>1. \A u \in Task : Working(u, p) => u = t
  BY Sole
<1>2. {u \in Task : Working(u, p) /\ pc[u] \in {"sv"}} = IF pc[t] = "sv" THEN {t} ELSE {}
  BY <1>1
<1>3. {u \in Task : Working(u, p) /\ pc[u] \in {"free", "null", "addr"}}
        = IF pc[t] \in {"free", "null", "addr"} THEN {t} ELSE {}
  BY <1>1
<1>4. (CHOOSE u \in {t} : TRUE) = t
  OBVIOUS
<1> QED
  BY <1>2, <1>3, <1>4 DEF AttachedEntry

LEMMA EntryAlone ==
  ASSUME NEW p \in Task, \A u \in Task : Working(u, p) => pc[u] \in {"find", "peek"}
  PROVE  AttachedEntry(p) =
           IF sys_vector[p] \notin used \/ sv[sys_vector[p]] = None
           THEN None
           ELSE [module |-> module_addr[sys_vector[p]], vector |-> sv[sys_vector[p]]]
<1>1. {u \in Task : Working(u, p) /\ pc[u] \in {"sv"}} = {}
  OBVIOUS
<1>2. {u \in Task : Working(u, p) /\ pc[u] \in {"free", "null", "addr"}} = {}
  OBVIOUS
<1> QED
  BY <1>1, <1>2 DEF AttachedEntry

LEMMA EntryMineNext ==
  ASSUME Shape', NEW t \in Task, NEW p \in Task, Working(t, p)'
  PROVE  AttachedEntry(p)' =
           IF \/ pc'[t] \in {"free", "null", "addr"} \/ sys_vector'[p] \notin used'
              \/ (IF pc'[t] = "sv" THEN req'[t].vector ELSE sv'[sys_vector'[p]]) = None
           THEN None
           ELSE [module |-> module_addr'[sys_vector'[p]],
                 vector |-> IF pc'[t] = "sv" THEN req'[t].vector ELSE sv'[sys_vector'[p]]]
<1>1. \A u \in Task : Working(u, p)' => u = t
  BY SoleNext
<1>2. {u \in Task : Working(u, p)' /\ pc'[u] \in {"sv"}} = IF pc'[t] = "sv" THEN {t} ELSE {}
  BY <1>1
<1>3. {u \in Task : Working(u, p)' /\ pc'[u] \in {"free", "null", "addr"}}
        = IF pc'[t] \in {"free", "null", "addr"} THEN {t} ELSE {}
  BY <1>1
<1>4. (CHOOSE u \in {t} : TRUE) = t
  OBVIOUS
<1> QED
  BY <1>2, <1>3, <1>4 DEF AttachedEntry

LEMMA EntryAloneNext ==
  ASSUME NEW p \in Task, \A u \in Task : Working(u, p)' => pc'[u] \in {"find", "peek"}
  PROVE  AttachedEntry(p)' =
           IF sys_vector'[p] \notin used' \/ sv'[sys_vector'[p]] = None
           THEN None
           ELSE [module |-> module_addr'[sys_vector'[p]], vector |-> sv'[sys_vector'[p]]]
<1>1. {u \in Task : Working(u, p)' /\ pc'[u] \in {"sv"}} = {}
  OBVIOUS
<1>2. {u \in Task : Working(u, p)' /\ pc'[u] \in {"free", "null", "addr"}} = {}
  OBVIOUS
<1> QED
  BY <1>1, <1>2 DEF AttachedEntry

LEMMA EntrySame ==
  ASSUME NEW q, NEW p,
         \A u \in Task : Working(u, q) /\ pc[u] \in {"sv", "free", "null", "addr"} =>
           Working(u, q)' /\ pc'[u] = pc[u] /\ req'[u] = req[u],
         \A u \in Task : Working(u, q)' /\ pc'[u] \in {"sv", "free", "null", "addr"} => Working(u, q) /\ pc'[u] = pc[u],
         TypeOK, TypeOK', Heap, q \in Task, q # p, Elsewhere(p)
  PROVE  AttachedEntry(q)' = AttachedEntry(q)
<1>1. {u \in Task : Working(u, q)' /\ pc'[u] \in {"sv"}} = {u \in Task : Working(u, q) /\ pc[u] \in {"sv"}}
  OBVIOUS
<1>2. {u \in Task : Working(u, q)' /\ pc'[u] \in {"free", "null", "addr"}}
        = {u \in Task : Working(u, q) /\ pc[u] \in {"free", "null", "addr"}}
  OBVIOUS
<1>3. CASE Clearing(q)
  <2>1. {u \in Task : Working(u, q) /\ pc[u] \in {"free", "null", "addr"}} # {}
    BY <1>3 DEF Clearing
  <2> QED
    BY <1>2, <2>1 DEF AttachedEntry
<1>4. CASE ~Clearing(q) /\ sys_vector[q] \in used
  <2>1. /\ sys_vector'[q] = sys_vector[q] /\ sys_vector'[q] \in used'
        /\ module_addr'[sys_vector'[q]] = module_addr[sys_vector[q]]
        /\ sv'[sys_vector'[q]] = sv[sys_vector[q]]
    BY <1>4 DEF Elsewhere
  <2> DEFINE S == {u \in Task : Working(u, q) /\ pc[u] \in {"sv"}}
  <2>2. CASE S = {}
    BY <1>1, <1>2, <1>4, <2>1, <2>2 DEF AttachedEntry
  <2>3. CASE S # {}
    <3>1. PICK w \in S : w = CHOOSE u \in S : TRUE
      BY <2>3
    <3>2. req'[w] = req[w]
      BY <3>1
    <3> HIDE DEF S
    <3>3. {u \in Task : Working(u, q)' /\ pc'[u] \in {"sv"}} = S
      BY <1>1 DEF S
    <3>4. {u \in Task : Working(u, q) /\ pc[u] \in {"sv"}} = S
      BY DEF S
    <3> DEFINE K == {u \in Task : Working(u, q) /\ pc[u] \in {"free", "null", "addr"}}
    <3>5. AttachedEntry(q) = IF K # {} \/ sys_vector[q] \notin used \/ req[w].vector = None THEN None
                             ELSE [module |-> module_addr[sys_vector[q]], vector |-> req[w].vector]
      BY <2>3, <3>1, <3>4 DEF AttachedEntry
    <3>6. AttachedEntry(q)' = IF K' # {} \/ sys_vector'[q] \notin used' \/ req'[w].vector = None THEN None
                              ELSE [module |-> module_addr'[sys_vector'[q]], vector |-> req'[w].vector]
      BY <2>3, <3>1, <3>3 DEF AttachedEntry
    <3>7. K' = K
      BY <1>2
    <3> QED
      BY <1>4, <2>1, <3>2, <3>5, <3>6, <3>7
  <2> QED
    BY <2>2, <2>3
<1>5. CASE ~Clearing(q) /\ sys_vector[q] \notin used
  <2>1. sys_vector'[q] = None /\ sys_vector[q] = None /\ None \notin used'
    BY <1>5, RouterAssumption DEF Heap, HeapAt, Elsewhere, TypeOK
  <2> QED
    BY <1>5, <2>1 DEF AttachedEntry
<1> QED
  BY <1>3, <1>4, <1>5

LEMMA EntryElsewhere ==
  ASSUME Shape, Shape', Heap, NEW t \in Task, ProcessStep(t), NEW p, Elsewhere(p), NEW q \in Task \ {p},
         Working(t, q) => pc[t] \in {"find", "peek"},
         Working(t, q)' => pc'[t] \in {"find", "peek"}
  PROVE  AttachedEntry(q)' = AttachedEntry(q)
<1>1. Moves(t)
  BY ProcessMoves DEF Shape
<1>2. \A u \in Task \ {t} : Working(u, q)' = Working(u, q) /\ pc'[u] = pc[u] /\ req'[u] = req[u]
  BY <1>1 DEF Moves, Working
<1> QED
  BY <1>2, EntrySame DEF Shape

(* A step that changes no entry, or the entry of one process.              *)
Live == {p \in Task : life[p] = "live"}
LiveModules == {m \in Module : mstate[m] = "live"}

LEMMA MapsStutter ==
  ASSUME Live' = Live, LiveModules' = LiveModules,
         \A q \in Task : AttachedEntry(q)' = AttachedEntry(q)
  PROVE  UNCHANGED Promised!vars
<1>1. [q \in Task |-> AttachedEntry(q)]' = [q \in Task |-> AttachedEntry(q)]
  OBVIOUS
<1> QED
  BY <1>1 DEF Promised!vars, Live, LiveModules

LEMMA MapsDetach ==
  ASSUME Live' = Live, LiveModules' = LiveModules, NEW p \in Task, AttachedEntry(p)' = None,
         \A q \in Task \ {p} : AttachedEntry(q)' = AttachedEntry(q)
  PROVE  Promised!Next
<1>1. [q \in Task |-> AttachedEntry(q)]' = [[q \in Task |-> AttachedEntry(q)] EXCEPT ![p] = None]
  OBVIOUS
<1>2. Promised!Detach(p)
  BY <1>1 DEF Promised!Detach, Live, LiveModules
<1> QED
  BY <1>2 DEF Promised!Next

LEMMA MapsAttach ==
  ASSUME Live' = Live, LiveModules' = LiveModules, NEW p \in Live, NEW m \in LiveModules, NEW v \in Vector,
         AttachedEntry(p)' = [module |-> m, vector |-> v],
         \A q \in Task \ {p} : AttachedEntry(q)' = AttachedEntry(q)
  PROVE  Promised!Next
<1>0. p \in Task /\ m \in Module
  BY DEF Live, LiveModules
<1>1. [q \in Task |-> AttachedEntry(q)]' = [[q \in Task |-> AttachedEntry(q)] EXCEPT ![p] = [module |-> m, vector |-> v]]
  BY <1>0
<1>2. Promised!Attach(p, m, v)
  BY <1>1 DEF Promised!Attach, Live, LiveModules
<1> QED
  BY <1>0, <1>2 DEF Promised!Next

LEMMA EntryStep ==
  ASSUME Shape, Shape', NEW t \in Task, HelperStep(t), pc[t] \in HelperPC \ {"find"},
         NEW p, p = req[t].pid, NEW a, a = sys_vector'[p],
         NEW v, v = IF pc'[t] = "sv" THEN req[t].vector ELSE sv'[a]
  PROVE  AttachedEntry(p)' = IF pc'[t] \in {"free", "null", "addr"} \/ a \notin used' \/ v = None
                             THEN None
                             ELSE [module |-> module_addr'[a], vector |-> v]
<1>1. p \in Task /\ Working(t, p)
  BY AtWork
<1>2. CASE pc'[t] \in HelperPC \ {"find"} /\ req'[t] = req[t]
  <2>1. Working(t, p)'
    BY <1>2 DEF Working
  <2> QED
    BY <1>1, <1>2, <2>1, EntryMineNext
<1>3. CASE pc'[t] \in {"unlock", "user", "die"}
  <2>1. \A u \in Task : ~Working(u, p)'
    <3>1. Moves(t) /\ ~Working(t, p)'
      BY <1>3, HelperMovesAll DEF Shape, Working, HelperPC
    <3> QED
      BY <1>1, <3>1, Sole DEF Moves, Working
  <2> QED
    BY <1>1, <1>3, <2>1, EntryAloneNext
<1> QED
  BY <1>2, <1>3, HelperGoes DEF Shape

LEMMA EntryOthers ==
  ASSUME Shape, Shape', Heap, NEW t \in Task, Seen(t), HelperStep(t), NEW p \in Task, p = req[t].pid,
         NEW q \in Task \ {p}
  PROVE  AttachedEntry(q)' = AttachedEntry(q)
<1>1. Elsewhere(p)
  BY HeapHelper
<1>2. ~Working(t, q) /\ ProcessStep(t)
  BY DEF Working, ProcessStep, Progress
<1>3. ~Working(t, q)'
  BY HelperGoes, RouterAssumption DEF Shape, Working, HelperPC
<1> QED
  BY <1>1, <1>2, <1>3, EntryElsewhere

(* Every step maps to one of Registry, or to none.                         *)
MapsTo == Promised!Next \/ UNCHANGED Promised!vars

LEMMA MapsHelper ==
  ASSUME Hazards = {}, IInv, Shape', Blank, NEW t \in Task, HelperStep(t)
  PROVE  MapsTo
<1> USE DEF MapsTo
<1>0. /\ TypeOK /\ TypeOK' /\ Shape /\ Heap /\ Seen(t) /\ Phase(t) /\ Living(t) /\ Apart(t) /\ Undisturbed
      /\ None \notin used /\ None \notin used' /\ used \subseteq Addr
  BY RouterAssumption DEF IInv, Shape, TypeOK, Undisturbed
<1>1. Live' = Live /\ LiveModules' = LiveModules
  BY <1>0, HelperGoes DEF Live, LiveModules
<1>2. CASE Find(t)
  <2>1. UNCHANGED memory /\ pc[t] = "find" /\ ProcessStep(t) /\ pc'[t] \in {"peek", "unlock", "user", "die"}
    BY <1>0, <1>2 DEF Find, ProcessStep, Progress, Return, Goto, TypeOK
  <2>2. \A q \in Task : AttachedEntry(q)' = AttachedEntry(q)
    BY <1>0, <2>1, QuietElsewhere, EntryElsewhere, RouterAssumption DEF Working, HelperPC
  <2> QED
    BY <1>1, <2>2, MapsStutter
<1>3. CASE ~Find(t)
  <2>1. pc[t] \in HelperPC \ {"find"}
    BY <1>3 DEF HelperStep, HelperPC, At, Peek, ReadOld, DecrementTest, DecrementPut, FreeVector,
       ClearVector, AllocVector, FirstModule, Increment, SwitchModule, SetVector
  <2>2. PICK p \in Task : p = req[t].pid /\ Working(t, p) /\ TaskExists(p)
    BY <1>0, <2>1, AtWork
  <2>3. \A q \in Task \ {p} : AttachedEntry(q)' = AttachedEntry(q)
    BY <1>0, <2>2, EntryOthers
  <2>4. ASSUME UNCHANGED memory, {pc[t], pc'[t]} \cap {"free", "null", "addr", "sv"} = {}
        PROVE  MapsTo
    <3>1. PICK a : a = sys_vector[p]
      OBVIOUS
    <3>2. PICK v : v = sv[a]
      OBVIOUS
    <3>3. AttachedEntry(p) = IF a \notin used \/ v = None THEN None ELSE [module |-> module_addr[a], vector |-> v]
      <4>1. pc[t] \notin {"free", "null", "addr"} /\ pc[t] # "sv"
        BY <2>4
      <4> QED
        BY <1>0, <2>2, <3>1, <3>2, <4>1, EntryMine
    <3>4. a = sys_vector'[p] /\ v = IF pc'[t] = "sv" THEN req[t].vector ELSE sv'[a]
      BY <2>4, <3>1, <3>2 DEF memory
    <3>5. AttachedEntry(p)' = IF a \notin used' \/ v = None THEN None ELSE [module |-> module_addr'[a], vector |-> v]
      <4>1. pc'[t] \notin {"free", "null", "addr"}
        BY <2>4
      <4>2. AttachedEntry(p)' = IF pc'[t] \in {"free", "null", "addr"} \/ a \notin used' \/ v = None THEN None
                                ELSE [module |-> module_addr'[a], vector |-> v]
        BY <1>0, <2>1, <2>2, <3>4, EntryStep
      <4> QED
        BY <4>1, <4>2
    <3>6. AttachedEntry(p)' = AttachedEntry(p)
      BY <2>4, <3>3, <3>5 DEF memory
    <3> QED
      BY <1>1, <2>3, <3>6, MapsStutter
  <2>5. ASSUME pc'[t] \in {"free", "null", "addr"} \/ sys_vector'[p] = None
        PROVE  MapsTo
    <3>1. AttachedEntry(p)' = None
      BY <1>0, <2>1, <2>2, <2>5, EntryStep
    <3> QED
      BY <1>1, <2>3, <3>1, MapsDetach
  <2>6. CASE Peek(t)
    <3>1. UNCHANGED memory /\ pc[t] = "peek" /\ pc'[t] \in {"old", "alloc", "unlock", "user", "die"}
      BY <1>0, <2>6 DEF Peek, Return, Goto, At, TypeOK
    <3> QED
      BY <2>4, <3>1
  <2>7. CASE ReadOld(t) \/ Increment(t)
    <3>1. UNCHANGED memory /\ pc[t] \in {"old", "inc"} /\ pc'[t] \in {"test", "mod"}
      BY <1>0, <2>7 DEF ReadOld, Increment, Goto, At, TypeOK
    <3> QED
      BY <2>4, <3>1
  <2>8. CASE DecrementTest(t)
    <3>1. UNCHANGED memory /\ pc[t] = "test" /\ pc'[t] = "put"
      BY <1>0, <2>8, CountsTest DEF DecrementTest, At, IInv
    <3> QED
      BY <2>4, <3>1
  <2>9. CASE DecrementPut(t)
    <3>1. UNCHANGED memory /\ pc[t] = "put" /\ pc'[t] \in {"free", "inc"}
      BY <1>0, <2>9 DEF DecrementPut, AfterDecrement, Goto, At, TypeOK
    <3> QED
      BY <2>4, <2>5, <3>1
  <2>10. CASE FreeVector(t) \/ AllocVector(t)
    <3>1. pc'[t] \in {"null", "addr"}
      BY <1>0, <2>10 DEF FreeVector, AllocVector, Goto, TypeOK
    <3> QED
      BY <2>5, <3>1
  <2>11. CASE ClearVector(t)
    <3>1. sys_vector'[p] = None
      BY <1>0, <2>2, <2>11 DEF ClearVector, TypeOK
    <3> QED
      BY <2>5, <3>1
  <2>12. CASE FirstModule(t)
    <3>1. /\ sys_vector[p] \in used /\ UNCHANGED <<sys_vector, sv>> /\ pc[t] = "addr" /\ pc'[t] = "inc"
      BY <1>0, <2>2, <2>12 DEF FirstModule, At, Readable, Goto, TypeOK
    <3>2. sv'[sys_vector'[p]] = None
      BY <1>0, <2>2, <3>1 DEF Blank
    <3>3. AttachedEntry(p)' = None
      BY <1>0, <2>1, <2>2, <3>1, <3>2, EntryStep
    <3> QED
      BY <1>1, <2>3, <3>3, MapsDetach
  <2>13. CASE SwitchModule(t)
    <3>1. /\ sys_vector[p] \in used /\ UNCHANGED <<sys_vector, used>> /\ pc[t] = "mod" /\ pc'[t] = "sv"
          /\ module_addr' = [module_addr EXCEPT ![sys_vector[p]] = req[t].module]
      BY <1>0, <2>2, <2>13 DEF SwitchModule, SetModuleAddr, At, Readable, Goto, TypeOK
    <3>2. Setting(t) /\ req[t].vector # Zero
      BY <1>0, <3>1 DEF Phase, Setting, Attaching, Dropping, HelperPC
    <3>3. req[t].vector \in Vector /\ req[t].vector # None /\ req[t].module \in LiveModules
      BY <1>0, <2>1, <3>2, RouterAssumption DEF Phase, Apart, LiveModules
    <3>4. p \in Live
      BY <2>2, <3>2 DEF IInv, Reachable, TargetsAlive, TaskExists, Live
    <3>5. module_addr'[sys_vector'[p]] = req[t].module
      BY <1>0, <3>1 DEF TypeOK
    <3>6. AttachedEntry(p)' = [module |-> req[t].module, vector |-> req[t].vector]
      BY <1>0, <2>1, <2>2, <3>1, <3>3, <3>5, EntryStep
    <3> QED
      BY <1>1, <2>3, <3>3, <3>4, <3>6, MapsAttach
  <2>14. CASE SetVector(t)
    <3>1. /\ sys_vector[p] \in used /\ UNCHANGED <<sys_vector, used, module_addr>> /\ pc[t] = "sv"
          /\ pc'[t] \in {"unlock", "user", "die"}
          /\ sv' = [sv EXCEPT ![sys_vector[p]] = req[t].vector]
      BY <1>0, <2>2, <2>14 DEF SetVector, Return, At, Readable, Goto, TypeOK
    <3>2. sv'[sys_vector'[p]] = req[t].vector
      BY <1>0, <3>1 DEF TypeOK
    <3>3. AttachedEntry(p) = IF req[t].vector = None THEN None ELSE [module |-> module_addr[sys_vector[p]], vector |-> req[t].vector]
      BY <1>0, <2>2, <3>1, EntryMine
    <3>4. AttachedEntry(p)' = IF req[t].vector = None THEN None ELSE [module |-> module_addr[sys_vector[p]], vector |-> req[t].vector]
      BY <1>0, <2>1, <2>2, <3>1, <3>2, EntryStep
    <3> QED
      BY <1>1, <2>3, <3>3, <3>4, MapsStutter
  <2> QED
    BY <1>3, <2>6, <2>7, <2>8, <2>9, <2>10, <2>11, <2>12, <2>13, <2>14 DEF HelperStep
<1> QED
  BY <1>2, <1>3

(* The kernel outside the driver leaves memory and control alone when      *)
(* nobody is killed: the vector of a process that is reaped is gone.       *)
LEMMA EnvironmentStill ==
  ASSUME Hazards = {}, Shape, Reachable, Environment
  PROVE  UNCHANGED <<memory, pc, req>>
<1>1. ASSUME NEW t \in Task, Reap(t)
      PROVE  UNCHANGED <<memory, pc, req>>
  <2>1. sys_vector[t] = None
    BY <1>1 DEF Reap, Shape, Living, Reachable, DeadDetached
  <2> QED
    BY <1>1, <2>1 DEF Reap, Shape, TypeOK, memory, local
<1> QED
  BY <1>1 DEF Environment, Kill, LoadModule, BeginUnload, FinishUnload, local

(* Blank is kept.                                                          *)
LEMMA BlankElsewhere ==
  ASSUME Hazards = {}, Shape, Blank, NEW p, Elsewhere(p), NEW u \in Task, Seen(u),
         pc'[u] = pc[u], req'[u] = req[u], pc[u] = "addr", req[u].pid # p
  PROVE  sv'[sys_vector'[req'[u].pid]] = None
<1>1. PICK q \in Task \ {p} : q = req[u].pid /\ ~Clearing(q)
  BY AtWork DEF HelperPC
<1>2. sys_vector[q] \in used /\ sys_vector[q] \in Addr
  BY <1>1 DEF Seen, Shape, TypeOK
<1>3. sv[sys_vector[q]] = None
  BY <1>1, <1>2 DEF Blank
<1> QED
  BY <1>1, <1>2, <1>3 DEF Elsewhere

LEMMA BlankHelper ==
  ASSUME Hazards = {}, IInv, Shape', Blank, NEW t \in Task, HelperStep(t)
  PROVE  Blank'
<1>0. TypeOK /\ TypeOK' /\ Shape /\ Heap /\ Seen(t) /\ Phase(t) /\ Moves(t)
  BY HelperMovesAll DEF IInv, Shape
<1>1. ASSUME NEW a \in Addr \ used'
      PROVE  sv'[a] = None
  <2>1. CASE UNCHANGED <<used, sv>>
    BY <2>1 DEF Blank
  <2>2. CASE FreeVector(t)
    <3>1. CASE sys_vector[req[t].pid] = None
      BY <2>2, <3>1 DEF FreeVector, Blank
    <3>2. CASE sys_vector[req[t].pid] # None
      BY <1>0, <2>2, <3>2 DEF FreeVector, Kfree, Blank, TypeOK
    <3> QED
      BY <3>1, <3>2
  <2>3. CASE AllocVector(t)
    BY <1>0, <2>3 DEF AllocVector, Blank
  <2>4. CASE SetVector(t)
    <3>1. sys_vector[req[t].pid] \in used /\ UNCHANGED used /\ sv' = [sv EXCEPT ![sys_vector[req[t].pid]] = req[t].vector]
      BY <1>0, <2>4 DEF SetVector, At, Seen
    <3> QED
      BY <1>0, <3>1 DEF Blank, TypeOK
  <2> QED
    BY <2>1, <2>2, <2>3, <2>4 DEF HelperStep, Find, Peek, ReadOld, DecrementTest, DecrementPut, ClearVector,
       FirstModule, Increment, SwitchModule, memory
<1>2. ASSUME NEW u \in Task \ {t}, pc'[u] = "addr"
      PROVE  sv'[sys_vector'[req'[u].pid]] = None
  <2>1. pc'[u] = pc[u] /\ req'[u] = req[u] /\ Seen(u)
    BY <1>0 DEF Moves, IInv
  <2>2. CASE Find(t)
    <3>1. Elsewhere(None) /\ req[u].pid # None
      BY <1>0, <1>2, <2>1, <2>2, QuietElsewhere, AtWork, RouterAssumption DEF Find, HelperPC
    <3> QED
      BY <1>0, <1>2, <2>1, <3>1, BlankElsewhere
  <2>3. CASE ~Find(t)
    <3>1. pc[t] \in HelperPC \ {"find"}
      BY <2>3 DEF HelperStep, HelperPC, At, Peek, ReadOld, DecrementTest, DecrementPut, FreeVector,
         ClearVector, AllocVector, FirstModule, Increment, SwitchModule, SetVector
    <3>2. PICK p \in Task : p = req[t].pid /\ Working(t, p) /\ Elsewhere(p)
      BY <1>0, <3>1, AtWork, HeapHelper
    <3>3. req[u].pid # p
      BY <1>0, <1>2, <2>1, <3>2, Sole DEF Working, HelperPC
    <3> QED
      BY <1>0, <1>2, <2>1, <3>2, <3>3, BlankElsewhere
  <2> QED
    BY <2>2, <2>3
<1>3. ASSUME pc'[t] = "addr"
      PROVE  sv'[sys_vector'[req'[t].pid]] = None
  <2>1. AllocVector(t)
    BY <1>0, <1>3 DEF HelperStep, Find, Peek, ReadOld, DecrementTest, DecrementPut, AfterDecrement, FreeVector,
       ClearVector, AllocVector, FirstModule, Increment, SwitchModule, SetVector, Return, Goto, TypeOK
  <2>2. PICK p \in Task : p = req[t].pid
    BY <1>0, <2>1, AtWork DEF AllocVector, At, HelperPC
  <2>3. PICK b \in Addr \ used : sys_vector' = [sys_vector EXCEPT ![p] = b]
    BY <2>1, <2>2 DEF AllocVector
  <2> QED
    BY <1>0, <2>1, <2>2, <2>3 DEF AllocVector, Blank, TypeOK, local
<1> QED
  BY <1>1, <1>2, <1>3 DEF Blank

LEMMA BlankStep ==
  ASSUME Hazards = {}, IInv, IInv', Blank, Next
  PROVE  Blank'
<1>0. Shape /\ Shape' /\ TypeOK /\ TypeOK' /\ Heap /\ Undisturbed /\ \A u \in Task : Seen(u) /\ Phase(u)
  BY DEF IInv, Shape, Undisturbed
<1>1. ASSUME UNCHANGED memory, \A u \in Task : pc'[u] = "addr" => pc[u] = "addr" /\ req'[u] = req[u]
      PROVE  Blank'
  BY <1>1 DEF Blank, memory
<1>2. CASE Environment
  BY <1>0, <1>1, <1>2, EnvironmentStill DEF IInv
<1>3. ASSUME NEW t \in Task, ProcessStep(t), ~HelperStep(t)
      PROVE  Blank'
  <2>0. ~Oops(t) /\ Moves(t)
    BY <1>0, <1>3, OopsOnly, ProcessMoves DEF Oops, IInv
  <2>1. CASE UNCHANGED memory /\ pc'[t] \notin HelperPC \ {"find", "peek"}
    BY <1>1, <2>0, <2>1 DEF Moves, HelperPC
  <2>2. ASSUME NEW c \in Task, Spawn(t, c), Running(t), FreeToRun(t), pc'[t] \in {"user", "find"}
        PROVE  Blank'
    <3>1. CASE UNCHANGED memory
      BY <1>1, <2>0, <2>2, <3>1 DEF Moves
    <3>2. CASE Inherit(t, c)
      <4>1. PICK b \in Addr \ used : used' = used \cup {b} /\ sv' = [sv EXCEPT ![b] = sv[sys_vector[t]]]
        BY <3>2 DEF Inherit
      <4>2. \A a \in Addr \ used' : sv'[a] = None
        BY <1>0, <4>1 DEF Blank, TypeOK
      <4>3. ASSUME NEW u \in Task, pc'[u] = "addr"
            PROVE  sv'[sys_vector'[req'[u].pid]] = None
        <5>1. u # t
          BY <2>2, <4>3
        <5>2. pc'[u] = pc[u] /\ req'[u] = req[u]
          BY <2>0, <5>1 DEF Moves
        <5>3. req[u].pid # c
          BY <1>0, <2>2, <4>3, <5>2, AtWork DEF Spawn, TaskExists, HelperPC
        <5>4. Elsewhere(c)
          BY <1>0, <1>3, <2>2, HeapSpawn
        <5> QED
          BY <1>0, <4>3, <5>2, <5>3, <5>4, BlankElsewhere
      <4> QED
        BY <4>2, <4>3 DEF Blank
    <3> QED
      BY <2>2, <3>1, <3>2 DEF Spawn
  <2> QED
    BY <1>0, <1>3, <2>0, <2>1, <2>2, OutsideHelper
<1> QED
  BY <1>0, <1>2, <1>3, BlankHelper DEF Next, ProcessStep, IInv

LEMMA MapsSpawn ==
  ASSUME Hazards = {}, IInv, Shape', NEW t \in Task, NEW c \in Task, ProcessStep(t),
         Running(t), FreeToRun(t), Spawn(t, c), pc'[t] \in {"user", "find"}
  PROVE  MapsTo
<1>0. TypeOK /\ TypeOK' /\ Shape /\ Heap /\ Undisturbed /\ Moves(t) /\ None \notin used
  BY ProcessMoves, RouterAssumption DEF IInv, Shape, Undisturbed, TypeOK
<1>1. /\ c # t /\ life[c] = "none" /\ life'[c] = "live"
      /\ \A q \in Task : ~Working(t, q)
      /\ \A u \in Task : ~(Working(u, c) /\ pc[u] # "find") /\ ~(Working(u, c)' /\ pc'[u] # "find")
  BY <1>0, SpawnApart
<1>2. t \in Live /\ c \notin Live /\ Live' = Live \cup {c} /\ LiveModules' = LiveModules
  BY <1>0, <1>1 DEF Running, Spawn, Live, LiveModules, TypeOK
<1>3. ASSUME NEW q \in Task \ {c}
      PROVE  AttachedEntry(q)' = AttachedEntry(q)
  <2>1. Elsewhere(c)
    BY <1>0, HeapSpawn
  <2> QED
    BY <1>0, <1>1, <2>1, EntryElsewhere DEF Working, HelperPC
<1>4. sys_vector[c] = None
  BY <1>0, <1>1 DEF Heap, HeapAt
<1>5. AttachedEntry(c) = None
  BY <1>0, <1>1, <1>4, EntryAlone
<1>6. ASSUME AttachedEntry(c)' \in {None, AttachedEntry(t)}
      PROVE  MapsTo
  <2> DEFINE A == [q \in Task |-> AttachedEntry(q)]
             B == [q \in Task |-> AttachedEntry(q)']
  <2>1. B \in {A, [A EXCEPT ![c] = A[t]]}
    BY <1>3, <1>5, <1>6
  <2>2. A' = B /\ A[c] = None
    BY <1>5
  <2>3. Promised!Fork(t, c)
    BY <1>2, <2>1, <2>2 DEF Promised!Fork, Live, LiveModules
  <2> QED
    BY <2>3 DEF Promised!Next, MapsTo
<1>7. CASE UNCHANGED memory
  <2>1. AttachedEntry(c)' = None
    BY <1>0, <1>1, <1>4, <1>7, EntryAloneNext DEF memory
  <2> QED
    BY <1>6, <2>1
<1>8. CASE Inherit(t, c)
  <2>1. \A u \in Task : ~Working(u, t)
    BY <1>0, Unworked DEF Undisturbed, FreeToRun, Running, HelperPC
  <2>2. PICK b \in Addr \ used :
          /\ sys_vector[t] \in used
          /\ sys_vector' = [sys_vector EXCEPT ![c] = b]
          /\ used' = used \cup {b}
          /\ module_addr' = [module_addr EXCEPT ![b] = module_addr[sys_vector[t]]]
          /\ sv' = [sv EXCEPT ![b] = sv[sys_vector[t]]]
    BY <1>8 DEF Inherit
  <2>3. sys_vector'[c] = b /\ b \in used' /\ module_addr'[b] = module_addr[sys_vector[t]] /\ sv'[b] = sv[sys_vector[t]]
    BY <1>0, <2>2 DEF TypeOK
  <2>4. AttachedEntry(t) = IF sv[sys_vector[t]] = None THEN None
                           ELSE [module |-> module_addr[sys_vector[t]], vector |-> sv[sys_vector[t]]]
    BY <2>1, <2>2, EntryAlone
  <2>5. AttachedEntry(c)' = IF sv'[b] = None THEN None ELSE [module |-> module_addr'[b], vector |-> sv'[b]]
    BY <1>1, <2>3, EntryAloneNext
  <2> QED
    BY <1>6, <2>3, <2>4, <2>5
<1> QED
  BY <1>7, <1>8 DEF Spawn

LEMMA MapsProcess ==
  ASSUME Hazards = {}, IInv, Shape', Blank, NEW t \in Task, ProcessStep(t)
  PROVE  MapsTo
<1>0. TypeOK /\ TypeOK' /\ Shape /\ Heap /\ Undisturbed /\ Moves(t) /\ ~Oops(t) /\ Living(t)
  BY ProcessMoves, OopsOnly DEF IInv, Shape, Undisturbed, Oops
<1>1. CASE /\ UNCHANGED <<memory, refcnt, mstate>> /\ (Die(t) \/ UNCHANGED life)
           /\ pc[t] \notin HelperPC \ {"find"}
           /\ pc'[t] \notin HelperPC \ {"find", "peek"}
  <2>1. \A q \in Task : AttachedEntry(q)' = AttachedEntry(q)
    BY <1>0, <1>1, QuietElsewhere, EntryElsewhere, RouterAssumption DEF Working
  <2>2. LiveModules' = LiveModules
    BY <1>1 DEF LiveModules
  <2>3. CASE UNCHANGED life
    <3>1. Live' = Live
      BY <2>3 DEF Live
    <3> QED
      BY <2>1, <2>2, <3>1, MapsStutter DEF MapsTo
  <2>4. CASE Die(t)
    <3>1. t \in Live /\ Live' = Live \ {t} /\ pc[t] = "die"
      BY <1>0, <2>4 DEF Die, Living, Live, TypeOK
    <3>2. sys_vector[t] = None /\ None \notin used
      BY <1>0, <3>1, RouterAssumption DEF Heap, HeapAt, TypeOK
    <3>3. \A u \in Task : ~Working(u, t)
      BY <1>0, <3>1, NoWorker
    <3>4. AttachedEntry(t) = None
      BY <3>2, <3>3, EntryAlone
    <3>5. [q \in Task |-> AttachedEntry(q)]' = [q \in Task |-> AttachedEntry(q)]
      BY <2>1
    <3>6. Promised!Exit(t)
      BY <2>2, <3>1, <3>4, <3>5 DEF Promised!Exit, Live, LiveModules
    <3> QED
      BY <3>6 DEF Promised!Next, MapsTo
  <2> QED
    BY <1>1, <2>3, <2>4
<1> QED
  BY <1>0, <1>1, MapsHelper, MapsSpawn, OutsideHelper

LEMMA MapsEnvironment ==
  ASSUME Hazards = {}, IInv, Environment
  PROVE  MapsTo
<1>0. TypeOK /\ Shape /\ Heap /\ Counts /\ Reachable /\ UNCHANGED <<memory, pc, req>>
  BY EnvironmentStill DEF IInv, Shape
<1>1. \A q \in Task : AttachedEntry(q)' = AttachedEntry(q)
  BY <1>0 DEF AttachedEntry, Working, memory
<1>2. [q \in Task |-> AttachedEntry(q)]' = [q \in Task |-> AttachedEntry(q)]
  BY <1>1
<1>3. ASSUME NEW p \in Task, Reap(p)
      PROVE  MapsTo
  <2>1. Live' = Live /\ LiveModules' = LiveModules
    BY <1>0, <1>3 DEF Reap, Live, LiveModules, TypeOK
  <2> QED
    BY <1>1, <2>1, MapsStutter DEF MapsTo
<1>4. ASSUME NEW m \in Module, LoadModule(m)
      PROVE  MapsTo
  <2>1. Live' = Live /\ m \notin LiveModules /\ LiveModules' = LiveModules \cup {m}
    BY <1>0, <1>4 DEF LoadModule, Live, LiveModules, TypeOK
  <2>2. Promised!Load(m)
    BY <1>2, <2>1 DEF Promised!Load, Live, LiveModules
  <2> QED
    BY <2>2 DEF Promised!Next, MapsTo
<1>5. ASSUME NEW m \in Module, BeginUnload(m)
      PROVE  MapsTo
  <2>1. Live' = Live /\ m \in LiveModules /\ LiveModules' = LiveModules \ {m}
    BY <1>0, <1>5 DEF BeginUnload, Live, LiveModules, TypeOK
  <2>2. \A p \in Task : ~Counted(p, m)
    BY <1>0, <1>5, CountPositive DEF BeginUnload, Counts, TypeOK
  <2>3. ASSUME NEW p \in Task, AttachedEntry(p) # None, AttachedEntry(p).module = m
        PROVE  FALSE
    <3>1. \A u \in Task : Working(u, p) => pc[u] \notin {"alloc", "inc", "mod", "sv"} /\ pc[u] \notin {"free", "null", "addr"}
      <4>1. \A u \in Task : ~Setting(u)
        BY <1>5 DEF BeginUnload
      <4> QED
        BY <1>0, <2>3, <4>1 DEF Working, Shape, Phase, Setting, Attaching, Dropping, AttachedEntry
    <3>2. sys_vector[p] \in used /\ module_addr[sys_vector[p]] = m
      BY <2>3, <3>1 DEF AttachedEntry
    <3>3. Counted(p, m)
      BY <3>1, <3>2 DEF Counted, Attached
    <3> QED
      BY <2>2, <3>3
  <2>4. Promised!Unload(m)
    <3>1. \A p \in Task : ~Promised!Names(p, m)
      BY <2>3 DEF Promised!Names
    <3> QED
      BY <1>2, <2>1, <3>1 DEF Promised!Unload, Live, LiveModules
  <2> QED
    BY <2>4 DEF Promised!Next, MapsTo
<1>6. ASSUME NEW m \in Module, FinishUnload(m)
      PROVE  MapsTo
  <2>1. Live' = Live /\ LiveModules' = LiveModules
    BY <1>0, <1>6 DEF FinishUnload, Live, LiveModules, TypeOK
  <2> QED
    BY <1>1, <2>1, MapsStutter DEF MapsTo
<1> QED
  BY <1>3, <1>4, <1>5, <1>6 DEF Environment, Kill

(* As long as none of the hazards occurs, the driver implements Registry:  *)
(* its half-done updates of a vector, its frees and its reallocations are  *)
(* visible to nobody, an entry changes in one step, a dead process has     *)
(* none and a module that an entry names is not unloaded.                  *)
THEOREM ImplementsRegistryHolds ==
  ASSUME Hazards = {}
  PROVE  Spec => ImplementsRegistry
<1>0. Undisturbed
  BY DEF Undisturbed
<1>1. Init => Promised!Init /\ Blank
  <2> SUFFICES ASSUME Init PROVE Promised!Init /\ Blank
    OBVIOUS
  <2>1. \A p \in Task : AttachedEntry(p) = None
    <3>1. \A p \in Task, u \in Task : ~Working(u, p)
      BY DEF Init, Working, HelperPC
    <3>2. \A p \in Task : sys_vector[p] \notin used
      BY DEF Init
    <3> QED
      BY <3>1, <3>2, EntryAlone
  <2>2. LiveModules = {}
    BY DEF Init, LiveModules
  <2> QED
    BY <2>1, <2>2 DEF Init, Promised!Init, Blank, LiveModules
<1>2. IInv /\ IInv' /\ Blank /\ [Next]_vars => Blank'
  <2>1. ASSUME UNCHANGED vars, Blank
        PROVE  Blank'
    BY <2>1 DEF vars, memory, local, Blank
  <2> QED
    BY <2>1, BlankStep
<1>3. IInv /\ IInv' /\ Blank /\ [Next]_vars => [Promised!Next]_(Promised!vars)
  <2>1. ASSUME IInv, IInv', Blank, Next
        PROVE  MapsTo
    BY <2>1, MapsProcess, MapsEnvironment DEF Next, ProcessStep, IInv
  <2>2. ASSUME UNCHANGED vars
        PROVE  UNCHANGED Promised!vars
    <3>1. \A q \in Task : AttachedEntry(q)' = AttachedEntry(q)
      BY <2>2 DEF vars, memory, local, AttachedEntry, Working
    <3> QED
      BY <2>2, <3>1, MapsStutter DEF vars, kernel, Live, LiveModules
  <2> QED
    BY <2>1, <2>2 DEF MapsTo
<1>4. Spec => []IInv
  BY <1>0, SafetyAlways
<1> QED
  BY <1>1, <1>2, <1>3, <1>4, PTL DEF Spec, ImplementsRegistry, Promised!Spec

(* What RegistryProofs proves of the table, of the table that the driver   *)
(* implements.                                                             *)
Served == INSTANCE RegistryProofs WITH
  alive  <- {p \in Task : life[p] = "live"},
  loaded <- {m \in Module : mstate[m] = "live"},
  attach <- [p \in Task |-> AttachedEntry(p)]

(* The driver keeps the registry's promise: without a hazard no entry ever *)
(* outlives its process, and rmmod takes away no module that serves one.   *)
THEOREM EntriesServedAlways ==
  ASSUME Hazards = {}, None \notin Promised!Entry
  PROVE  Spec => []Promised!EntriesServed
<1>1. Spec => Promised!Spec
  BY ImplementsRegistryHolds DEF ImplementsRegistry
<1>2. None \notin Served!Entry
  BY DEF Promised!Entry, Served!Entry
<1>3. Served!Spec => []Served!EntriesServed
  BY <1>2, Served!AlwaysServed
<1>4. Promised!Spec => Served!Spec
  <2>1. Promised!Init => Served!Init
    BY DEF Promised!Init, Served!Init
  <2>2. [Promised!Next]_(Promised!vars) => [Served!Next]_(Served!vars)
    <3>1. ASSUME NEW p \in Task
          PROVE  /\ Promised!Detach(p) => Served!Detach(p)
                 /\ Promised!Exit(p) => Served!Exit(p)
      BY DEF Promised!Detach, Served!Detach, Promised!Exit, Served!Exit
    <3>2. ASSUME NEW p \in Task, NEW m \in Module, NEW v \in Vector, Promised!Attach(p, m, v)
          PROVE  Served!Attach(p, m, v)
      BY <3>2 DEF Promised!Attach, Served!Attach
    <3>3. ASSUME NEW p \in Task, NEW c \in Task, Promised!Fork(p, c)
          PROVE  Served!Fork(p, c)
      BY <3>3 DEF Promised!Fork, Served!Fork
    <3>4. ASSUME NEW m \in Module
          PROVE  /\ Promised!Load(m) => Served!Load(m)
                 /\ Promised!Unload(m) => Served!Unload(m)
      BY DEF Promised!Load, Served!Load, Promised!Unload, Served!Unload, Promised!Names, Served!Names
    <3>5. Promised!Next => Served!Next
      BY <3>1, <3>2, <3>3, <3>4 DEF Promised!Next, Served!Next
    <3> QED
      BY <3>5 DEF Promised!vars, Served!vars
  <2> QED
    BY <2>1, <2>2, PTL DEF Promised!Spec, Served!Spec
<1>5. Served!EntriesServed => Promised!EntriesServed
  BY DEF Promised!EntriesServed, Served!EntriesServed
<1> QED
  BY <1>1, <1>3, <1>4, <1>5, PTL
=============================================================================
