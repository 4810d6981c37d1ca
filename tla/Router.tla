------------------------------- MODULE Router -------------------------------
(***************************************************************************)
(* The driver module hw3: which process is attached to which loadable      *)
(* module, and the reference counts that keep those modules loaded.        *)
(*                                                                         *)
(* A process is attached when task->sys_vector points to a heap structure  *)
(* {module_addr, sv}.  Four code paths work on it, each a sequence of      *)
(* separate memory accesses in the source and of separate actions here:    *)
(*   - ioctl_funcs / get_ioctl_helper (IOCTL_SET), under the mutex Lock;   *)
(*   - sys_clone2, which calls get_ioctl_helper WITHOUT Lock;              *)
(*   - new_exit_group, the hooked exit, WITHOUT Lock;                      *)
(*   - the other hooked calls, which read it WITHOUT Lock.                 *)
(* One action is one access to shared memory, with the local tests that    *)
(* follow it.  The patched kernel (fork, pid lookup, insmod, rmmod, death  *)
(* by a signal) is external: it is modelled from how this code uses it.    *)
(***************************************************************************)
EXTENDS Integers, FiniteSets

CONSTANTS
  Task,        \* processes (pids are never reused)
  Setter,      \* the processes alive at start; they alone issue IOCTL_SET
  Module,      \* the loadable modules (trace, protect, antivirus)
  Call,        \* the hooked system calls that consult the vector
  Vector,      \* the bitmaps IOCTL_SET and clone2 are given, as sets of calls
  Addr,        \* heap addresses of struct new_sys_vector
  Hazards,     \* the overlaps and failures the environment may produce
  None         \* NULL, and the content of uninitialised memory

(* "target": a process runs, forks, exits or is reaped while a SET aimed   *)
(*           at it is in progress (without it, it sleeps, as in README);   *)
(* "clone":  an IOCTL_SET and sys_clone2 work on the same child;           *)
(* "admin":  rmmod starts while a SET is in progress, or conversely;       *)
(* "kill":   a process dies without going through exit_group;              *)
(* "oom":    kmalloc returns NULL.                                         *)
HazardKind == {"target", "clone", "admin", "kill", "oom"}

(* The vector argument 0, which detaches.                                  *)
Zero == {}

ASSUME RouterAssumption ==
  /\ IsFiniteSet(Task)
  /\ Setter \subseteq Task
  /\ Vector \subseteq SUBSET Call
  /\ Hazards \subseteq HazardKind
  /\ None \notin Task /\ None \notin Module /\ None \notin Addr
  /\ None \notin Call /\ None \notin Vector /\ None # Zero

VARIABLES
  life,         \* life[t]: has the process a task_struct, and does it run
  sys_vector,   \* task->sys_vector
  used,         \* addresses kmalloc'd and not yet kfree'd
  module_addr,  \* the two fields of the structure at an address
  sv,
  mstate,       \* module: "out", "live" (in the list), "going" (rmmod began)
  refcnt,       \* module_refcount
  Lock,         \* the mutex: its holder, or None
  pc,           \* where each process is in the driver
  req,          \* the arguments of the operation a process is in
  node          \* the local struct module_reg pointer of that operation

memory == <<sys_vector, used, module_addr, sv>>
kernel == <<life, mstate, refcnt>>
local  == <<req, node>>
vars   == <<memory, kernel, Lock, pc, local>>

(***************************************************************************)
(* Control points.  Lines are those of ioctl_device.c unless noted.        *)
(***************************************************************************)
HelperPC == {"find", "peek", "old", "test", "put", "free", "null",
             "alloc", "addr", "inc", "mod", "sv"}
CallPC   == {"gate", "node", "enter", "body"}
Label    == {"user", "lock", "unlock", "die", "dead", "oops"} \cup HelperPC \cup CallPC

Idle == [via |-> "none", pid |-> None, module |-> None, vector |-> None, call |-> None]
Request ==
  [via    : {"none", "ioctl", "clone2", "exit", "call"},
   pid    : Task \cup {None},
   module : Module \cup {None},
   vector : Vector \cup {Zero, None},
   call   : Call \cup {None}]

Goto(t, l) == pc' = [pc EXCEPT ![t] = l]
Running(t) == life[t] = "live" /\ pc[t] = "user"

(* t is inside IOCTL_SET or sys_clone2, working (or about to) on req[t].pid *)
Setting(t)  == req[t].via \in {"ioctl", "clone2"}
Targeted(p) == \E t \in Task \ {p} : Setting(t) /\ req[t].pid = p
(* p is reading or dropping its own vector in a hooked call                *)
UsesVector(p) == req[p].via \in {"call", "exit"} \/ pc[p] = "die"

(***************************************************************************)
(* Which memory the access at pc[t] needs.  TaskExists: the task_struct    *)
(* has not been freed.  An access that fails this test is an oops; what C  *)
(* does after it is not modelled, the process dies where it stands.        *)
(***************************************************************************)
TaskExists(p) == life[p] \in {"live", "zombie"}

Readable(t) ==
  LET p == req[t].pid
  IN /\ pc[t] \in {"peek", "old", "free", "null", "alloc", "addr", "mod", "sv"} => TaskExists(p)
     /\ pc[t] \in {"old", "addr", "mod", "sv"} => sys_vector[p] \in used
     /\ pc[t] \in {"gate", "node"} => sys_vector[t] \in used
     /\ pc[t] = "free" => sys_vector[p] \in used \cup {None}
     /\ pc[t] \in {"put", "enter", "body"} => node[t] # None /\ mstate[node[t]] # "out"

At(t, l) == pc[t] = l /\ Readable(t)

(***************************************************************************)
(* Entering the driver.                                                    *)
(***************************************************************************)
(* A SET aimed at p does not disturb, or get disturbed by, p itself.       *)
TargetQuiet(t, p) ==
  "target" \in Hazards \/ (p # t => ~UsesVector(p) /\ life[p] # "zombie")
(* No other SET on p that the mutex does not serialise with this one.      *)
CloneQuiet(p, vias) ==
  "clone" \in Hazards \/ ~\E t \in Task : req[t].via \in vias /\ req[t].pid = p
AdminQuiet == "admin" \in Hazards \/ \A m \in Module : mstate[m] # "going"
FreeToRun(p) == "target" \in Hazards \/ ~Targeted(p)

(* A user program issues IOCTL_SET (user -s pid vector module).            *)
IoctlSet(t, p, m, v) ==
  /\ Running(t) /\ t \in Setter
  /\ TargetQuiet(t, p) /\ CloneQuiet(p, {"clone2"}) /\ AdminQuiet
  /\ req' = [req EXCEPT ![t] = [Idle EXCEPT !.via = "ioctl", !.pid = p, !.module = m, !.vector = v]]
  /\ Goto(t, "lock")
  /\ UNCHANGED <<memory, kernel, Lock, node>>

(* Bad form of AcquireLock: the mutex does not block.                      *)
AcquireLock_NoWait(t) ==
  /\ pc[t] = "lock"
  /\ Lock' = t
  /\ Goto(t, "find")
  /\ UNCHANGED <<memory, kernel, local>>

(* mutex_lock(&Lock), line 57.                                             *)
AcquireLock(t) ==
  /\ pc[t] = "lock" /\ Lock = None
  /\ Lock' = t
  /\ Goto(t, "find")
  /\ UNCHANGED <<memory, kernel, local>>

(* The helper returns to its caller.                                       *)
Return(t) ==
  /\ \/ req[t].via = "ioctl"  /\ Goto(t, "unlock")
     \/ req[t].via = "clone2" /\ Goto(t, "user")
     \/ req[t].via = "exit"   /\ Goto(t, "die")
  /\ req' = [req EXCEPT ![t] = Idle]
  /\ node' = [node EXCEPT ![t] = None]

(* Bad form of CopyFails: the error path returns with the mutex held.      *)
CopyFails_Locked(t) ==
  /\ pc[t] = "find" /\ req[t].via = "ioctl"
  /\ Goto(t, "user")
  /\ req' = [req EXCEPT ![t] = Idle]
  /\ UNCHANGED <<memory, kernel, Lock, node>>

(* kmalloc of msg, or copy_from_user, fails: lines 61-70.                  *)
CopyFails(t) ==
  /\ pc[t] = "find" /\ req[t].via = "ioctl"
  /\ Return(t)
  /\ UNCHANGED <<memory, kernel, Lock>>

(* mutex_unlock(&Lock), line 94.                                           *)
Unlock(t) ==
  /\ pc[t] = "unlock"
  /\ Lock' = None
  /\ Goto(t, "user")
  /\ UNCHANGED <<memory, kernel, local>>

(***************************************************************************)
(* get_ioctl_helper, with t executing and p == req[t].pid the target.      *)
(***************************************************************************)
(* Lines 10-22: pid_task, then for a non-zero vector get_module.           *)
Find(t) ==
  LET r == req[t]
      found == r.pid # None /\ TaskExists(r.pid)
  IN /\ pc[t] = "find"
     /\ IF found /\ (r.vector # Zero => mstate[r.module] # "out")
        THEN Goto(t, "peek") /\ UNCHANGED local
        ELSE Return(t)
     /\ UNCHANGED <<memory, kernel, Lock>>

(* The NULL tests of task->sys_vector, lines 14 and 30, and line 50 of     *)
(* syscall_new.c.                                                          *)
Peek(t) ==
  LET attached == sys_vector[req[t].pid] # None
  IN /\ At(t, "peek")
     /\ \/ attached /\ Goto(t, "old") /\ UNCHANGED local
        \/ ~attached /\ req[t].vector # Zero /\ Goto(t, "alloc") /\ UNCHANGED local
        \/ ~attached /\ req[t].vector = Zero /\ Return(t)
     /\ UNCHANGED <<memory, kernel, Lock>>

(* Lines 16, 37-38 and syscall_new.c:51: the module attached so far is     *)
(* read; a SET that keeps the module goes straight to line 42.             *)
ReadOld(t) ==
  LET m == module_addr[sys_vector[req[t].pid]]
  IN /\ At(t, "old")
     /\ IF req[t].vector # Zero /\ m = req[t].module
        THEN Goto(t, "mod") /\ UNCHANGED node
        ELSE Goto(t, "test") /\ node' = [node EXCEPT ![t] = m]
     /\ UNCHANGED <<memory, kernel, Lock, req>>

AfterDecrement(t) == IF req[t].vector = Zero THEN "free" ELSE "inc"

(* decrement_module_rc, bitmap.c:176-187: find the list node, test the     *)
(* count ...                                                               *)
DecrementTest(t) ==
  LET m == node[t]
  IN /\ At(t, "test")
     /\ Goto(t, IF m # None /\ mstate[m] # "out" /\ refcnt[m] > 0
                THEN "put" ELSE AfterDecrement(t))
     /\ UNCHANGED <<memory, kernel, Lock, local>>

(* ... and, in a second access, module_put: bitmap.c:189.                  *)
DecrementPut(t) ==
  /\ At(t, "put")
  /\ refcnt' = [refcnt EXCEPT ![node[t]] = @ - 1]
  /\ Goto(t, AfterDecrement(t))
  /\ UNCHANGED <<memory, life, mstate, Lock, local>>

Kfree(a) ==
  /\ used' = used \ {a}
  /\ module_addr' = [module_addr EXCEPT ![a] = None]
  /\ sv' = [sv EXCEPT ![a] = None]

(* Bad form of FreeVector: the structure is not freed.                     *)
FreeVector_Leaks(t) ==
  /\ At(t, "free")
  /\ Goto(t, "null")
  /\ UNCHANGED <<memory, kernel, Lock, local>>

(* kfree(task->sys_vector): line 17, syscall_new.c:53.                     *)
FreeVector(t) ==
  LET a == sys_vector[req[t].pid]
  IN /\ At(t, "free")
     /\ IF a = None THEN UNCHANGED <<used, module_addr, sv>> ELSE Kfree(a)
     /\ Goto(t, "null")
     /\ UNCHANGED <<sys_vector, kernel, Lock, local>>

(* Bad form of ClearVector: the pointer is left behind.                    *)
ClearVector_Keeps(t) ==
  /\ At(t, "null")
  /\ Return(t)
  /\ UNCHANGED <<memory, kernel, Lock>>

(* task->sys_vector = NULL: line 18, syscall_new.c:54.                     *)
ClearVector(t) ==
  /\ At(t, "null")
  /\ sys_vector' = [sys_vector EXCEPT ![req[t].pid] = None]
  /\ Return(t)
  /\ UNCHANGED <<used, module_addr, sv, kernel, Lock>>

(* Lines 31-34: the structure is published before it is filled in.         *)
AllocVector(t) ==
  /\ At(t, "alloc")
  /\ \/ \E a \in Addr \ used :
          /\ sys_vector' = [sys_vector EXCEPT ![req[t].pid] = a]
          /\ used' = used \cup {a}
     \/ /\ "oom" \in Hazards
        /\ sys_vector' = [sys_vector EXCEPT ![req[t].pid] = None]
        /\ UNCHANGED used
  /\ Goto(t, "addr")
  /\ UNCHANGED <<module_addr, sv, kernel, Lock, local>>

SetModuleAddr(t) ==
  module_addr' = [module_addr EXCEPT ![sys_vector[req[t].pid]] = req[t].module]

(* Line 35.                                                                *)
FirstModule(t) ==
  /\ At(t, "addr")
  /\ SetModuleAddr(t)
  /\ Goto(t, "inc")
  /\ UNCHANGED <<sys_vector, used, sv, kernel, Lock, local>>

(* Bad form of Increment: the module is not pinned.                        *)
Increment_Skipped(t) ==
  /\ At(t, "inc")
  /\ Goto(t, "mod")
  /\ UNCHANGED <<memory, kernel, Lock, local>>

(* increment_module_rc, lines 36 and 39, bitmap.c:158-170: __module_get of *)
(* a module that is still in the list, whether rmmod has begun or not.     *)
Increment(t) ==
  LET m == req[t].module
  IN /\ At(t, "inc")
     /\ refcnt' = IF mstate[m] # "out" THEN [refcnt EXCEPT ![m] = @ + 1] ELSE refcnt
     /\ Goto(t, "mod")
     /\ UNCHANGED <<memory, life, mstate, Lock, local>>

(* Line 42.                                                                *)
SwitchModule(t) ==
  /\ At(t, "mod")
  /\ SetModuleAddr(t)
  /\ Goto(t, "sv")
  /\ UNCHANGED <<sys_vector, used, sv, kernel, Lock, local>>

(* Bad form of SetVector: the wrong argument is stored.                    *)
SetVector_StoresType(t) ==
  /\ At(t, "sv")
  /\ sv' = [sv EXCEPT ![sys_vector[req[t].pid]] = req[t].module]
  /\ Return(t)
  /\ UNCHANGED <<sys_vector, used, module_addr, kernel, Lock>>

(* Line 43: the bitmap follows the module, in an access of its own.        *)
SetVector(t) ==
  /\ At(t, "sv")
  /\ sv' = [sv EXCEPT ![sys_vector[req[t].pid]] = req[t].vector]
  /\ Return(t)
  /\ UNCHANGED <<sys_vector, used, module_addr, kernel, Lock>>

(***************************************************************************)
(* new_exit_group (syscall_new.c:47-58): the same accesses as a SET with   *)
(* vector 0 aimed at the process itself, then the original exit_group.     *)
(***************************************************************************)
ExitGroup(t) ==
  /\ Running(t) /\ FreeToRun(t)
  /\ req' = [req EXCEPT ![t] = [Idle EXCEPT !.via = "exit", !.pid = t, !.vector = Zero]]
  /\ Goto(t, "peek")
  /\ UNCHANGED <<memory, kernel, Lock, node>>

Die(t) ==
  /\ pc[t] = "die"
  /\ life' = [life EXCEPT ![t] = "zombie"]
  /\ Goto(t, "dead")
  /\ UNCHANGED <<memory, mstate, refcnt, Lock, local>>

(***************************************************************************)
(* A hooked call of an attached process, e.g. new_close                    *)
(* (syscall_new.c:27-45).  An unattached process goes to the original call *)
(* without touching any state of the driver.                               *)
(***************************************************************************)
BeginCall(t, c) ==
  /\ Running(t) /\ FreeToRun(t)
  /\ sys_vector[t] # None
  /\ req' = [req EXCEPT ![t] = [Idle EXCEPT !.via = "call", !.pid = t, !.call = c]]
  /\ Goto(t, "gate")
  /\ UNCHANGED <<memory, kernel, Lock, node>>

LeaveCall(t) ==
  /\ Goto(t, "user")
  /\ req' = [req EXCEPT ![t] = Idle]
  /\ node' = [node EXCEPT ![t] = None]

(* Bad form of Gate: op_allowed always says yes.                           *)
Gate_Open(t) ==
  /\ At(t, "gate")
  /\ Goto(t, "node")
  /\ UNCHANGED <<memory, kernel, Lock, local>>

(* op_allowed, lines 18-25 and 33-36; an sv nobody wrote yet is arbitrary. *)
Gate(t) ==
  LET allowed  == sv[sys_vector[t]]
      verdicts == IF allowed = None THEN BOOLEAN ELSE {req[t].call \in allowed}
  IN /\ At(t, "gate")
     /\ \E ok \in verdicts :
          IF ok THEN Goto(t, "node") /\ UNCHANGED local ELSE LeaveCall(t)
     /\ UNCHANGED <<memory, kernel, Lock>>

(* new_node = current->sys_vector->module_addr: line 38.                   *)
ReadNode(t) ==
  /\ At(t, "node")
  /\ node' = [node EXCEPT ![t] = module_addr[sys_vector[t]]]
  /\ Goto(t, "enter")
  /\ UNCHANGED <<memory, kernel, Lock, req>>

(* new_node->sys_op(...): line 39, into the code of the module ...         *)
EnterModule(t) ==
  /\ At(t, "enter")
  /\ Goto(t, "body")
  /\ UNCHANGED <<memory, kernel, Lock, local>>

(* ... and out of it, to the original call or back with its error.         *)
LeaveModule(t) ==
  /\ At(t, "body")
  /\ LeaveCall(t)
  /\ UNCHANGED <<memory, kernel, Lock>>

(***************************************************************************)
(* sys_clone2.c:63-68: fork, then the helper on the child, without Lock.   *)
(***************************************************************************)
(* What the patched kernel/fork.c does, as README.HW3 describes it: the    *)
(* child has its parent's vector and the module's count goes up, unless    *)
(* the default vector (NULL) is asked for with CLONE_SYSCALLS.             *)
Inherit(p, c) ==
  LET a == sys_vector[p]
      m == module_addr[a]
  IN /\ a \in used
     /\ refcnt' = IF m \in Module THEN [refcnt EXCEPT ![m] = @ + 1] ELSE refcnt
     /\ \E b \in Addr \ used :
          /\ sys_vector' = [sys_vector EXCEPT ![c] = b]
          /\ used' = used \cup {b}
          /\ module_addr' = [module_addr EXCEPT ![b] = m]
          /\ sv' = [sv EXCEPT ![b] = sv[a]]

Spawn(p, c) ==
  /\ life[c] = "none"
  /\ life' = [life EXCEPT ![c] = "live"]
  /\ \/ Inherit(p, c)
     \/ UNCHANGED <<memory, refcnt>>
  /\ UNCHANGED mstate

Fork(p, c) ==
  /\ Running(p) /\ FreeToRun(p)
  /\ Spawn(p, c)
  /\ UNCHANGED <<Lock, pc, local>>

Clone2(t, c, m, v) ==
  /\ Running(t) /\ FreeToRun(t)
  /\ AdminQuiet /\ CloneQuiet(c, {"ioctl", "clone2"})
  /\ \E pid \in {c, None} :        \* None: _do_fork failed
       /\ IF pid = None THEN UNCHANGED <<memory, kernel>> ELSE Spawn(t, c)
       /\ req' = [req EXCEPT ![t] =
                    [Idle EXCEPT !.via = "clone2", !.pid = pid, !.module = m, !.vector = v]]
  /\ Goto(t, "find")
  /\ UNCHANGED <<Lock, node>>

(***************************************************************************)
(* The rest of the kernel: death by a signal, reaping, insmod and rmmod.   *)
(***************************************************************************)
Kill(t) ==
  /\ "kill" \in Hazards
  /\ Running(t) /\ FreeToRun(t)
  /\ life' = [life EXCEPT ![t] = "zombie"]
  /\ Goto(t, "dead")
  /\ UNCHANGED <<memory, mstate, refcnt, Lock, local>>

(* The task_struct is freed, and the pointer in it with it.                *)
Reap(p) ==
  /\ life[p] = "zombie" /\ FreeToRun(p)
  /\ life' = [life EXCEPT ![p] = "reaped"]
  /\ sys_vector' = [sys_vector EXCEPT ![p] = None]
  /\ UNCHANGED <<used, module_addr, sv, mstate, refcnt, Lock, pc, local>>

(* insmod: the module's init calls module_register, main.c:6-12.           *)
LoadModule(m) ==
  /\ mstate[m] = "out"
  /\ mstate' = [mstate EXCEPT ![m] = "live"]
  /\ refcnt' = [refcnt EXCEPT ![m] = 0]
  /\ UNCHANGED <<memory, life, Lock, pc, local>>

(* rmmod: the kernel lets a module go whose count is 0.                    *)
BeginUnload(m) ==
  /\ mstate[m] = "live" /\ refcnt[m] = 0
  /\ "admin" \in Hazards \/ \A t \in Task : ~Setting(t)
  /\ mstate' = [mstate EXCEPT ![m] = "going"]
  /\ UNCHANGED <<memory, life, refcnt, Lock, pc, local>>

(* The module's exit calls module_deregister (main.c:15-22), after which   *)
(* its memory is freed.                                                    *)
FinishUnload(m) ==
  /\ mstate[m] = "going"
  /\ mstate' = [mstate EXCEPT ![m] = "out"]
  /\ UNCHANGED <<memory, life, refcnt, Lock, pc, local>>

(* A bad access kills the thread where it stands: it keeps Lock if it has  *)
(* it, and never reaches exit_group.                                       *)
Oops(t) ==
  /\ pc[t] \in HelperPC \cup CallPC /\ ~Readable(t)
  /\ life' = [life EXCEPT ![t] = "zombie"]
  /\ Goto(t, "oops")
  /\ req' = [req EXCEPT ![t] = Idle]
  /\ node' = [node EXCEPT ![t] = None]
  /\ UNCHANGED <<memory, mstate, refcnt, Lock>>

-----------------------------------------------------------------------------
Init ==
  /\ life = [t \in Task |-> IF t \in Setter THEN "live" ELSE "none"]
  /\ sys_vector = [t \in Task |-> None]
  /\ used = {}
  /\ module_addr = [a \in Addr |-> None]
  /\ sv = [a \in Addr |-> None]
  /\ mstate = [m \in Module |-> "out"]
  /\ refcnt = [m \in Module |-> 0]
  /\ Lock = None
  /\ pc = [t \in Task |-> "user"]
  /\ req = [t \in Task |-> Idle]
  /\ node = [t \in Task |-> None]

HelperStep(t) ==
  \/ Find(t) \/ Peek(t) \/ ReadOld(t) \/ DecrementTest(t) \/ DecrementPut(t)
  \/ FreeVector(t) \/ ClearVector(t) \/ AllocVector(t) \/ FirstModule(t)
  \/ Increment(t) \/ SwitchModule(t) \/ SetVector(t)

CallStep(t) == Gate(t) \/ ReadNode(t) \/ EnterModule(t) \/ LeaveModule(t)

(* What a process does once it is in the driver, and what brings it there. *)
Progress(t) == HelperStep(t) \/ CallStep(t) \/ Unlock(t) \/ Die(t)
Begin(t) ==
  \/ \E p \in Task, m \in Module, v \in Vector : IoctlSet(t, p, m, v)
  \/ \E c \in Task, m \in Module, v \in Vector : Clone2(t, c, m, v)
  \/ \E c \in Task : Fork(t, c)
  \/ \E c \in Call : BeginCall(t, c)
  \/ ExitGroup(t)
Environment ==
  \/ \E t \in Task : Kill(t) \/ Reap(t)
  \/ \E m \in Module : LoadModule(m) \/ BeginUnload(m) \/ FinishUnload(m)

Next ==
  \/ \E t \in Task : Begin(t) \/ AcquireLock(t) \/ CopyFails(t) \/ Progress(t) \/ Oops(t)
  \/ Environment

Spec == Init /\ [][Next]_vars

(* The scheduler runs every process that can run, and a Linux mutex hands  *)
(* itself to waiters in order, so that no waiter is overtaken for ever.    *)
FairSpec ==
  /\ Spec
  /\ \A t \in Task : WF_vars(Progress(t) \/ Oops(t)) /\ SF_vars(AcquireLock(t))

-----------------------------------------------------------------------------
(* Type invariant: what each variable of the driver, of its heap and of    *)
(* its threads of control can hold.                                        *)
TypeOK ==
  /\ life \in [Task -> {"none", "live", "zombie", "reaped"}]
  /\ sys_vector \in [Task -> Addr \cup {None}]
  /\ used \in SUBSET Addr
  /\ module_addr \in [Addr -> Module \cup {None}]
  /\ sv \in [Addr -> Vector \cup {Zero, None}]
  /\ mstate \in [Module -> {"out", "live", "going"}]
  /\ refcnt \in [Module -> Int]
  /\ Lock \in Task \cup {None}
  /\ pc \in [Task -> Label]
  /\ req \in [Task -> Request]
  /\ node \in [Task -> Module \cup {None}]

(* t is between mutex_lock and mutex_unlock of ioctl_funcs.                *)
Locked(t) == pc[t] = "unlock" \/ (pc[t] \in HelperPC /\ req[t].via = "ioctl")

(* Two IOCTL_SETs never overlap: of two processes inside ioctl_funcs past  *)
(* line 57, at most one has not passed line 94.  Whatever the hazards.     *)
IoctlExclusive == \A t, u \in Task : Locked(t) /\ Locked(u) => t = u

(* No access through a NULL, uninitialised, freed or unloaded pointer.     *)
NoOops == \A t \in Task : pc[t] # "oops"

Attached(p, m) == sys_vector[p] \in used /\ module_addr[sys_vector[p]] = m

(* t has begun to work on the vector of p.                                 *)
Working(t, p) == req[t].pid = p /\ pc[t] \in HelperPC

(* Does the count of m include p?  A detach has given it up once it is     *)
(* past module_put; a fresh attach has it once it is past __module_get; a  *)
(* switch has neither module's count in between.                           *)
Counted(p, m) ==
  /\ ~\E t \in Task : Working(t, p) /\ pc[t] \in {"free", "null", "alloc", "addr", "inc"}
  /\ IF \E t \in Task : Working(t, p) /\ pc[t] = "mod"
     THEN \E t \in Task : Working(t, p) /\ pc[t] = "mod" /\ req[t].module = m
     ELSE Attached(p, m)

(* The count of a module is exact at every step of every SET, clone2, fork *)
(* and exit in progress, not only when they are over.                      *)
RefExact ==
  \A m \in Module : refcnt[m] = Cardinality({p \in Task : Counted(p, m)})

(* At rest, lsmod shows the number of processes that use the module.       *)
AtRest == \A t \in Task : pc[t] \in {"user", "dead"}
Users(m) == {p \in Task : life[p] = "live" /\ Attached(p, m)}
LsmodCount == AtRest => \A m \in Module : mstate[m] # "out" => refcnt[m] = Cardinality(Users(m))

(* As long as its count includes a process, a module stays loaded and in   *)
(* the list: rmmod is held off at every step of the SETs and exits that    *)
(* move that process from one module to another or away.                   *)
CountedLoaded ==
  \A p \in Task, m \in Module : life[p] = "live" /\ Counted(p, m) => mstate[m] = "live"

(* At rest, the module a process points to is one of those in the list.    *)
PointsIntoList ==
  AtRest => \A p \in Task, m \in Module :
              life[p] = "live" /\ Attached(p, m) => mstate[m] # "out"

(* Every structure that is allocated belongs to exactly one process, and a *)
(* process points to none that is freed: the one exception is a pointer    *)
(* between kfree and the NULL store, whose structure may even have been    *)
(* allocated again, for another process.                                   *)
Clearing(p) == \E t \in Task : Working(t, p) /\ pc[t] = "null"
OneOwner ==
  /\ \A a \in used : Cardinality({p \in Task : sys_vector[p] = a /\ ~Clearing(p)}) = 1
  /\ \A p \in Task : sys_vector[p] \in used \cup {None} \/ Clearing(p)

(* A call that entered module code did so under a vector that permits it   *)
(* and names that module, and finds module and vector unchanged until it   *)
(* leaves.                                                                 *)
CallConsistent ==
  \A t \in Task : pc[t] = "body" =>
    /\ mstate[node[t]] = "live"
    /\ Attached(t, node[t])
    /\ req[t].call \in sv[sys_vector[t]]

(* A call that has tested its vector can follow it: nobody has freed the   *)
(* structure meanwhile, and the module is filled in and loaded.            *)
CallsLand == \A t \in Task : pc[t] \in CallPC => Readable(t)

(***************************************************************************)
(* The driver implements Registry.  A SET takes effect when line 42 stores *)
(* the module (the bitmap that line 43 is about to store counts already);  *)
(* a structure being filled in for the first time is not an entry yet; a   *)
(* detach takes effect when the module's count has been given up.          *)
(***************************************************************************)
AttachedEntry(p) ==
  LET a       == sys_vector[p]
      at(ls)  == {t \in Task : Working(t, p) /\ pc[t] \in ls}
      vector  == IF at({"sv"}) # {} THEN req[CHOOSE t \in at({"sv"}) : TRUE].vector ELSE sv[a]
  IN IF at({"free", "null", "addr"}) # {} \/ a \notin used \/ vector = None
     THEN None
     ELSE [module |-> module_addr[a], vector |-> vector]

Promised == INSTANCE Registry WITH
  alive  <- {p \in Task : life[p] = "live"},
  loaded <- {m \in Module : mstate[m] = "live"},
  attach <- [p \in Task |-> AttachedEntry(p)]

(* Every run of the driver is a run of the registry: its half-done updates *)
(* are visible to nobody, as long as none of the hazards occurs.           *)
ImplementsRegistry == Promised!Spec

(* A process that asks for the mutex gets back to user mode, whichever of  *)
(* the error paths it takes, unless a process has crashed with the mutex.  *)
SetReturns ==
  \A t \in Task : (pc[t] = "lock") ~> (pc[t] = "user" \/ \E u \in Task : Lock = u /\ pc[u] = "oops")

(* A process that calls exit_group dies, with its vector given up.         *)
ExitEnds == \A t \in Task : (req[t].via = "exit") ~> (pc[t] = "dead" /\ sys_vector[t] = None)
=============================================================================
