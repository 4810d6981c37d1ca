----------------------------- MODULE GetVector -----------------------------
(***************************************************************************)
(* IOCTL_GET: under the mutex Lock, get_vector walks the module list and,  *)
(* for each module, all processes, and appends what it finds to one page   *)
(* of text: the module's reference count, and a line (pid, vector) for     *)
(* each process attached to it.  The process that issues it, Getter, runs  *)
(* among the processes of Router, of which only the IOCTL_SETs take Lock.  *)
(*                                                                         *)
(* Cells of the list and task_structs are passed in any order; those that  *)
(* are added during the walk come after the others, at the tail.           *)
(***************************************************************************)
EXTENDS Router

CONSTANTS
  Getter,   \* the process that issues IOCTL_GET; user programs are not hooked
  Room,     \* how many lines of text a page has room for
  Stale     \* how many lines an uninitialised page may seem to hold

ASSUME GetAssumption ==
  /\ Getter \notin Task \cup {None}
  /\ Room \in Nat /\ Stale \subseteq Nat
  /\ IsFiniteSet(Module)

VARIABLES
  getpc,        \* where Getter is
  iterator,     \* the module whose cell the walk is at ...
  ioctl_task,   \* ... and the process
  passed,       \* the modules and ...
  walked,       \* ... the processes, of this module, that it has come to
  reply,        \* the text: where it begins, the counts and the lines
  since         \* history of this GET: "unsettled" if a vector was half made
                \* when it began, "changed" if one not under Lock has changed

getVars == <<getpc, iterator, ioctl_task, passed, walked, reply, since>>
getLocal == <<iterator, ioctl_task, passed, walked, reply>>
allVars == <<vars, getVars>>

NoReply == [start |-> 0, counts |-> {}, lines |-> {}]
TextLines(r) == r.start + 2 * Cardinality(r.counts) + Cardinality(r.lines)

(* What get_vector tells of: the modules of the list, and the processes    *)
(* attached to one of them; and how much text that is.                     *)
Listed == {m \in Module : mstate[m] # "out"}
Shown  == {p \in Task : TaskExists(p) /\ \E m \in Listed : Attached(p, m)}
Needed == 2 * Cardinality(Listed) + Cardinality(Shown)

(* The access at getpc finds the memory it needs, and what it appends is   *)
(* still within the page: the code never asks.                             *)
GetReadable ==
  LET a == sys_vector[ioctl_task]
  IN /\ getpc \in {"module", "count", "type"} /\ iterator # None => mstate[iterator] # "out"
     /\ getpc \in {"process", "peek", "type", "line"} /\ ioctl_task # None => TaskExists(ioctl_task)
     /\ getpc \in {"type", "line"} => a \in used
     /\ getpc = "type" => module_addr[a] # None /\ mstate[module_addr[a]] # "out"
     /\ getpc = "count" => TextLines(reply) + 2 <= Room
     /\ getpc = "line" => TextLines(reply) + 1 <= Room

GetAt(l) == getpc = l /\ GetReadable

(* Every vector that a process points to is whole, its module in memory.   *)
Settled ==
  \A p \in Task : TaskExists(p) /\ sys_vector[p] # None =>
    LET a == sys_vector[p]
    IN a \in used /\ module_addr[a] # None /\ mstate[module_addr[a]] # "out"

(* Bad form of GetLock: the mutex is not waited for.                       *)
GetLock_NoWait ==
  /\ getpc = "user"
  /\ Lock' = Getter
  /\ getpc' = "page"
  /\ since' = IF Settled THEN {} ELSE {"unsettled"}
  /\ UNCHANGED <<memory, kernel, pc, local, getLocal>>

(* ioctl_device.c:57.                                                      *)
GetLock ==
  /\ getpc = "user" /\ Lock = None
  /\ Lock' = Getter
  /\ getpc' = "page"
  /\ since' = IF Settled THEN {} ELSE {"unsettled"}
  /\ UNCHANGED <<memory, kernel, pc, local, getLocal>>

(* Lines 76-80 and bitmap.c:13-20.  The page is not cleared; if there is   *)
(* memory for neither buffer, or for this one only, no text is made.       *)
GetPage ==
  /\ getpc = "page"
  /\ \/ \E n \in Stale : reply' = [NoReply EXCEPT !.start = n] /\ getpc' = "module"
     \/ "oom" \in Hazards /\ getpc' = "unlock" /\ UNCHANGED reply
  /\ UNCHANGED <<vars, iterator, ioctl_task, passed, walked, since>>

(* bitmap.c:22 and 63.                                                     *)
NextModule ==
  LET rest == {m \in Module \ passed : mstate[m] # "out"}
  IN /\ GetAt("module")
     /\ \/ /\ rest = {} /\ getpc' = "copy" /\ iterator' = None
           /\ UNCHANGED passed
        \/ \E m \in rest :
             getpc' = "count" /\ iterator' = m /\ passed' = passed \cup {m}
     /\ UNCHANGED <<vars, ioctl_task, walked, reply, since>>

(* Lines 24-34.                                                            *)
WriteCount ==
  /\ GetAt("count")
  /\ reply' = [reply EXCEPT !.counts = @ \cup {<<iterator, refcnt[iterator]>>}]
  /\ getpc' = "process"
  /\ UNCHANGED <<vars, iterator, ioctl_task, passed, walked, since>>

(* for_each_process, line 37.                                              *)
NextProcess ==
  LET rest == {p \in Task \ walked : TaskExists(p)}
  IN /\ GetAt("process")
     /\ \/ /\ rest = {} /\ getpc' = "module"
           /\ ioctl_task' = None /\ walked' = {}
        \/ \E p \in rest :
             getpc' = "peek" /\ ioctl_task' = p /\ walked' = walked \cup {p}
     /\ UNCHANGED <<vars, iterator, passed, reply, since>>

(* Bad form of PeekVector: no test.                                        *)
PeekVector_NoTest ==
  /\ GetAt("peek")
  /\ getpc' = "type"
  /\ UNCHANGED <<vars, getLocal, since>>

(* Line 40.                                                                *)
PeekVector ==
  /\ GetAt("peek")
  /\ getpc' = IF sys_vector[ioctl_task] # None THEN "type" ELSE "process"
  /\ UNCHANGED <<vars, getLocal, since>>

(* Bad form of CompareType: every attached process is listed everywhere.   *)
CompareType_Any ==
  /\ GetAt("type")
  /\ getpc' = "line"
  /\ UNCHANGED <<vars, getLocal, since>>

(* Lines 42-44: is the module of the process the one of this cell?         *)
CompareType ==
  /\ GetAt("type")
  /\ getpc' = IF module_addr[sys_vector[ioctl_task]] = iterator THEN "line" ELSE "process"
  /\ UNCHANGED <<vars, getLocal, since>>

(* Bad form of WriteLine: the wrong field of the structure is printed.     *)
WriteLine_PrintsModule ==
  /\ GetAt("line")
  /\ reply' = [reply EXCEPT !.lines = @ \cup {<<iterator, ioctl_task, module_addr[sys_vector[ioctl_task]]>>}]
  /\ getpc' = "process"
  /\ UNCHANGED <<vars, iterator, ioctl_task, passed, walked, since>>

(* Lines 46-58.                                                            *)
WriteLine ==
  /\ GetAt("line")
  /\ reply' = [reply EXCEPT !.lines = @ \cup {<<iterator, ioctl_task, sv[sys_vector[ioctl_task]]>>}]
  /\ getpc' = "process"
  /\ UNCHANGED <<vars, iterator, ioctl_task, passed, walked, since>>

(* ioctl_device.c:82-100: copy_to_user, mutex_unlock and kfree.            *)
GetUnlock ==
  /\ getpc \in {"copy", "unlock"}
  /\ Lock' = None
  /\ getpc' = "user" /\ passed' = {} /\ reply' = NoReply /\ since' = {}
  /\ UNCHANGED <<memory, kernel, pc, local, iterator, ioctl_task, walked>>

(* A bad access or an overrun of the page: Getter dies, holding Lock.      *)
GetOops ==
  /\ ~GetReadable
  /\ getpc' = "oops"
  /\ iterator' = None /\ ioctl_task' = None /\ passed' = {} /\ walked' = {} /\ reply' = NoReply
  /\ UNCHANGED <<vars, since>>

(* The others.  A module that leaves the list may come again, at its end.  *)
Getting == getpc \notin {"user", "oops"}
BySet   == \E t \in Task : Locked(t) /\ pc'[t] # pc[t]
OtherStep ==
  /\ Next
  /\ passed' = {m \in passed : mstate'[m] # "out"}
  /\ since' = IF Getting /\ <<memory, kernel>>' # <<memory, kernel>> /\ ~BySet
              THEN since \cup {"changed"} ELSE since
  /\ UNCHANGED <<getpc, iterator, ioctl_task, walked, reply>>

-----------------------------------------------------------------------------
GetInit ==
  /\ Init
  /\ getpc = "user" /\ iterator = None /\ ioctl_task = None
  /\ passed = {} /\ walked = {} /\ reply = NoReply /\ since = {}

GetStep ==
  \/ GetLock \/ GetPage \/ NextModule \/ WriteCount \/ NextProcess \/ PeekVector
  \/ CompareType \/ WriteLine \/ GetUnlock \/ GetOops
GetNext == OtherStep \/ GetStep

GetSpec == GetInit /\ [][GetNext]_allVars

-----------------------------------------------------------------------------
(* Type invariant: of the walk and of the mutex, which Getter also takes.  *)
GetTypeOK ==
  /\ Lock \in Task \cup {None, Getter}
  /\ getpc \in {"user", "page", "module", "count", "process", "peek", "type", "line",
                "copy", "unlock", "oops"}
  /\ iterator \in Module \cup {None} /\ ioctl_task \in Task \cup {None}
  /\ passed \in SUBSET Module /\ walked \in SUBSET Task
  /\ reply.start \in {0} \cup Stale
  /\ reply.counts \in SUBSET (Module \X Int)
  /\ reply.lines \in SUBSET (Module \X Task \X (Vector \cup {Zero, None}))
  /\ since \in SUBSET {"unsettled", "changed"}

(* README.HW3:564: the reply names every module with its count, and every  *)
(* process under the module it is attached to and no other, as they are    *)
(* when it is given: IOCTL_SETs, many accesses each, happen before or      *)
(* after it.  The calls that take no mutex must not overlap it.            *)
GetExact ==
  getpc = "copy" /\ "changed" \notin since =>
    /\ reply.counts = {<<m, refcnt[m]>> : m \in Listed}
    /\ reply.lines = {<<module_addr[sys_vector[p]], p, sv[sys_vector[p]]>> : p \in Shown}

(* A GET whose text fits follows no bad pointer and stays in its page, as  *)
(* long as the page happened to begin empty, the vectors were whole when   *)
(* it began, and none of the calls that take no mutex has overlapped it.   *)
(* Nothing in bitmap.c:24-58 bounds the text: what has to fit is what is   *)
(* listed now, which the code leaves to chance.                            *)
GetSafe == Getting /\ since = {} /\ Stale = {0} /\ Needed <= Room => GetReadable

(* The same of any amount of text.                                         *)
RoomForAll == Getting /\ since = {} /\ Stale = {0} => GetReadable

(* Only a process inside ioctl_funcs has the mutex, or one that crashed    *)
(* there; no error path of SET or GET takes it along to user mode.         *)
LockInside ==
  /\ Lock = Getter <=> getpc # "user"
  /\ \A t \in Task : Lock = t => Locked(t) \/ pc[t] = "oops"

(* A GET survives whatever goes on around it.                              *)
NoGetOops == getpc # "oops"

(* README.HW3:564: the reply is the text described there, and no more.     *)
CleanReply == getpc = "copy" => reply.start = 0
=============================================================================
