-------------------------- MODULE GetVectorProofs --------------------------
(***************************************************************************)
(* Theorems about GetVector, for any number of processes, modules, vectors *)
(* and addresses, any page and under every hazard: IOCTL_GET among all     *)
(* that RouterProofs says of Router.                                       *)
(***************************************************************************)
EXTENDS GetVector, RouterProofs

Passing == {"process", "peek", "type", "line"}
Walk    == {"module", "count", "copy"} \cup Passing

Line(p) == <<module_addr[sys_vector[p]], p, sv[sys_vector[p]]>>

(***************************************************************************)
(* The inductive invariant, part by part.                                  *)
(***************************************************************************)
(* The text is a record, so that its fields can be updated.                *)
Text == [start : {0} \cup Stale,
         counts : SUBSET (Module \X Int),
         lines : SUBSET (Module \X Task \X (Vector \cup {Zero, None}))]

(* Where Getter is and what its variables hold go together.                *)
Located ==
  /\ getpc \in {"user", "page", "unlock", "oops"} => passed = {} /\ reply = NoReply
  /\ getpc \in {"user", "page", "unlock", "copy", "oops"} => iterator = None
  /\ getpc \notin Passing => ioctl_task = None /\ walked = {}
  /\ getpc \in Passing \cup {"count"} => iterator # None
  /\ getpc \in {"peek", "type", "line"} => ioctl_task # None

(* The modules whose count is in the text, and whether p has been compared *)
(* with m.                                                                 *)
Numbered == IF getpc = "count" THEN passed \ {iterator} ELSE passed
Compared(m, p) ==
  /\ m \in passed
  /\ m = iterator => \/ getpc = "module"
                     \/ getpc = "process" /\ p \in walked
                     \/ getpc \in Passing /\ p \in walked \ {ioctl_task}
Finished == {p \in Task : TaskExists(p) /\ \E m \in Listed : Attached(p, m) /\ Compared(m, p)}

(* Unless something has changed, the walk is where it says it is in the    *)
(* list and among the processes, and the text so far is what holds now.    *)
Place ==
  /\ passed \subseteq Listed
  /\ getpc = "copy" => passed = Listed
  /\ iterator # None => iterator \in passed
  /\ ioctl_task # None => ioctl_task \in walked /\ TaskExists(ioctl_task)
  /\ getpc \in {"type", "line"} => sys_vector[ioctl_task] # None
  /\ getpc = "line" => Attached(ioctl_task, iterator)
Told ==
  /\ reply.counts = {<<m, refcnt[m]>> : m \in Numbered}
  /\ reply.lines = {Line(p) : p \in Finished}
Truthful == getpc \in Walk /\ "changed" \notin since => Place /\ Told

(* What was whole at the beginning still is.                               *)
Whole == Getting /\ since = {} => Settled

(* A process that waits for the mutex is in ioctl_funcs.                   *)
Asking == \A t \in Task : pc[t] = "lock" => req[t].via = "ioctl"

Types == Typed /\ GetTypeOK /\ reply \in Text /\ Located
GInv  == Types /\ Asking /\ HolderLocked /\ LockInside /\ Truthful /\ Whole
-----------------------------------------------------------------------------
(***************************************************************************)
(* The mutex.                                                              *)
(***************************************************************************)
(* Between lines 57 and 94 Getter touches nothing that others can see.     *)
LEMMA GetterQuiet ==
  ASSUME GetPage \/ NextModule \/ WriteCount \/ NextProcess \/ PeekVector \/ CompareType \/ WriteLine
         \/ GetOops
  PROVE  UNCHANGED vars /\ since' = since
BY DEF GetPage, NextModule, WriteCount, NextProcess, PeekVector, CompareType, WriteLine, GetOops

LEMMA GetterStays ==
  ASSUME GetPage \/ NextModule \/ WriteCount \/ NextProcess \/ PeekVector \/ CompareType \/ WriteLine
  PROVE  getpc # "user" /\ getpc' # "user" /\ getpc' # "oops"
BY DEF GetPage, NextModule, WriteCount, NextProcess, PeekVector, CompareType, WriteLine, GetAt

(* A process past mutex_lock gets to line 94, or crashes.                  *)
LEMMA StaysLocked ==
  ASSUME Typed, Next, NEW t \in Task, Locked(t), ~Locked(t)'
  PROVE  Unlock(t) \/ pc'[t] = "oops"
<1> USE DEF Typed, Locked, HelperPC, CallPC, memory, kernel, local, At, Goto
<1>1. ASSUME NEW u \in Task, Begin(u)
      PROVE  FALSE
  <2>1. pc[u] = "user"
    BY <1>1 DEF Begin, IoctlSet, Clone2, Fork, BeginCall, ExitGroup, Running
  <2>2. \A v \in Task \ {u} : pc'[v] = pc[v] /\ req'[v] = req[v]
    BY <1>1, ZenonT(40) DEF Begin, IoctlSet, Clone2, Fork, BeginCall, ExitGroup
  <2> QED
    BY <2>1, <2>2
<1>2. ASSUME NEW u \in Task, AcquireLock(u) \/ CallStep(u) \/ Die(u)
      PROVE  FALSE
  BY <1>2 DEF AcquireLock, CallStep, Gate, ReadNode, EnterModule, LeaveModule, LeaveCall, Die
<1>3. ASSUME NEW u \in Task, Oops(u)
      PROVE  pc'[t] = "oops"
  BY <1>3 DEF Oops
<1>4. ASSUME NEW u \in Task, Unlock(u)
      PROVE  u = t
  BY <1>4 DEF Unlock
<1>5. ASSUME NEW u \in Task, CopyFails(u) \/ HelperStep(u)
      PROVE  FALSE
  BY <1>5, HelperMoves, HolderReturn DEF CopyFails
<1>6. CASE Environment
  BY <1>6 DEF Environment, Kill, Running, Reap, LoadModule, BeginUnload, FinishUnload
<1> QED
  BY <1>1, <1>2, <1>3, <1>4, <1>5, <1>6 DEF Next, Progress
LEMMA CrashStays ==
  ASSUME Typed, Next, NEW t \in Task, pc[t] = "oops"
  PROVE  pc'[t] = "oops"
<1> USE DEF Typed, Goto, At, HelperPC, CallPC
<1>1. ASSUME NEW u \in Task, Begin(u)
      PROVE  pc'[t] = "oops"
  BY <1>1 DEF Begin, IoctlSet, Clone2, Fork, BeginCall, ExitGroup, Running
<1>2. ASSUME NEW u \in Task, AcquireLock(u) \/ Unlock(u) \/ CallStep(u) \/ Die(u) \/ Oops(u)
      PROVE  pc'[t] = "oops"
  BY <1>2 DEF AcquireLock, Unlock, CallStep, Gate, ReadNode, EnterModule, LeaveModule, LeaveCall, Die, Oops
<1>3. ASSUME NEW u \in Task, CopyFails(u) \/ HelperStep(u)
      PROVE  pc'[t] = "oops"
  BY <1>3, HelperMoves, HolderReturn DEF CopyFails
<1>4. CASE Environment
  BY <1>4 DEF Environment, Kill, Running, Reap, LoadModule, BeginUnload, FinishUnload
<1> QED
  BY <1>1, <1>2, <1>3, <1>4 DEF Next, Progress

LEMMA ReturnLeads ==
  ASSUME Typed, NEW t \in Task, Return(t)
  PROVE  pc'[t] \in {"unlock", "user", "die"}
BY DEF Typed, Return, Goto

LEMMA HelperLeads ==
  ASSUME Typed, NEW t \in Task, HelperStep(t)
  PROVE  pc'[t] \in HelperPC \cup {"unlock", "user", "die"}
<1> USE DEF Typed, Goto, HelperPC
<1>1. CASE Find(t) \/ Peek(t) \/ ReadOld(t) \/ DecrementTest(t) \/ DecrementPut(t)
  BY <1>1, ReturnLeads DEF Find, Peek, ReadOld, DecrementTest, DecrementPut, AfterDecrement
<1>2. CASE FreeVector(t) \/ ClearVector(t) \/ AllocVector(t) \/ FirstModule(t)
  BY <1>2, ReturnLeads DEF FreeVector, ClearVector, AllocVector, FirstModule
<1>3. CASE Increment(t) \/ SwitchModule(t) \/ SetVector(t)
  BY <1>3, ReturnLeads DEF Increment, SwitchModule, SetVector
<1> QED
  BY <1>1, <1>2, <1>3 DEF HelperStep

LEMMA AskingStep ==
  ASSUME Typed, Asking, Next
  PROVE  Asking'
<1> USE DEF Typed, Asking, Goto, At, HelperPC, CallPC, local
<1>1. ASSUME NEW u \in Task, Begin(u)
      PROVE  Asking'
  <2>1. \A v \in Task \ {u} : pc'[v] = pc[v] /\ req'[v] = req[v]
    BY <1>1, ZenonT(40) DEF Begin, IoctlSet, Clone2, Fork, BeginCall, ExitGroup
  <2>2. ASSUME NEW p \in Task, NEW m \in Module, NEW v \in Vector, IoctlSet(u, p, m, v)
        PROVE  req'[u].via = "ioctl"
    BY <2>2 DEF IoctlSet, Idle
  <2>3. \/ pc'[u] # "lock"
        \/ \E p \in Task, m \in Module, v \in Vector : IoctlSet(u, p, m, v)
    BY <1>1 DEF Begin, Clone2, Fork, BeginCall, ExitGroup, Running
  <2> QED
    BY <2>1, <2>2, <2>3
<1>2. ASSUME NEW u \in Task, AcquireLock(u) \/ Unlock(u) \/ CallStep(u) \/ Die(u) \/ Oops(u)
      PROVE  Asking'
  BY <1>2 DEF AcquireLock, Unlock, CallStep, Gate, ReadNode, EnterModule, LeaveModule, LeaveCall, Die, Oops
<1>3. ASSUME NEW u \in Task, CopyFails(u) \/ HelperStep(u)
      PROVE  Asking'
  <2>1. \A v \in Task \ {u} : pc'[v] = pc[v] /\ req'[v] = req[v]
    BY <1>3, HelperMoves, HolderReturn DEF CopyFails
  <2>2. pc'[u] # "lock"
    BY <1>3, HelperLeads, ReturnLeads DEF CopyFails
  <2> QED
    BY <2>1, <2>2
<1>4. CASE Environment
  BY <1>4 DEF Environment, Kill, Running, Reap, LoadModule, BeginUnload, FinishUnload
<1> QED
  BY <1>1, <1>2, <1>3, <1>4 DEF Next, Progress

(* Getter holds the mutex from line 57 to line 94, and nobody else has it  *)
(* outside ioctl_funcs.                                                    *)
LEMMA MutexOther ==
  ASSUME Typed, Asking, HolderLocked, LockInside, OtherStep
  PROVE  HolderLocked' /\ LockInside'
<1>1. Next /\ getpc' = getpc
  BY DEF OtherStep
<1>2. HolderLocked'
  BY <1>1, HolderStep
<1>3. CASE UNCHANGED Lock
  <2>1. ASSUME NEW t \in Task, Lock' = t
        PROVE  Locked(t)' \/ pc'[t] = "oops"
    <3>1. Lock = t
      BY <1>3, <2>1
    <3>2. CASE Locked(t)
      <4>1. ~Unlock(t)
        BY <3>1, <1>3, RouterAssumption DEF Unlock
      <4> QED
        BY <1>1, <3>2, <4>1, StaysLocked
    <3>3. CASE pc[t] = "oops"
      BY <1>1, <3>3, CrashStays
    <3> QED
      BY <3>1, <3>2, <3>3 DEF LockInside
  <2> QED
    BY <1>1, <1>2, <1>3, <2>1 DEF LockInside
<1>4. ASSUME NEW t \in Task, AcquireLock(t), Lock' = t
      PROVE  LockInside'
  <2>1. Lock = None /\ getpc = "user"
    BY <1>4, GetAssumption DEF AcquireLock, LockInside
  <2>2. Locked(t)'
    BY <1>4 DEF AcquireLock, Goto, Typed, Asking, Locked, HelperPC, local
  <2> QED
    BY <1>1, <1>4, <2>1, <2>2, GetAssumption DEF LockInside
<1>5. ASSUME NEW t \in Task, Unlock(t), Lock' = None
      PROVE  LockInside'
  <2>1. Lock = t
    BY <1>5 DEF Unlock, HolderLocked, Locked
  <2> QED
    BY <1>1, <1>5, <2>1, RouterAssumption, GetAssumption DEF LockInside
<1> QED
  BY <1>1, <1>2, <1>3, <1>4, <1>5, LockStep

LEMMA MutexGetter ==
  ASSUME HolderLocked, LockInside, GetStep
  PROVE  HolderLocked' /\ LockInside'
<1>1. CASE GetLock
  BY <1>1, RouterAssumption, GetAssumption
     DEF GetLock, local, HolderLocked, LockInside, Locked
<1>2. CASE GetUnlock
  <2>1. Lock = Getter /\ Lock' = None /\ getpc' = "user" /\ UNCHANGED <<pc, req>>
    BY <1>2 DEF GetUnlock, local, LockInside
  <2> QED
    BY <2>1, RouterAssumption, GetAssumption DEF HolderLocked, LockInside, Locked
<1>3. ASSUME UNCHANGED vars, getpc # "user", getpc' # "user"
      PROVE  HolderLocked' /\ LockInside'
  BY <1>3 DEF vars, local, HolderLocked, LockInside, Locked
<1>4. CASE GetOops
  <2>1. getpc # "user"
    BY <1>4 DEF GetOops, GetReadable
  <2> QED
    BY <1>3, <1>4, <2>1 DEF GetOops
<1> QED
  BY <1>1, <1>2, <1>3, <1>4, GetterQuiet, GetterStays DEF GetStep
-----------------------------------------------------------------------------
(***************************************************************************)
(* Types and control.                                                      *)
(***************************************************************************)
LEMMA EmptyText == NoReply \in Text
BY DEF NoReply, Text

LEMMA TextType ==
  ASSUME NEW r \in Text
  PROVE  /\ r.start \in {0} \cup Stale
         /\ r.counts \in SUBSET (Module \X Int)
         /\ r.lines \in SUBSET (Module \X Task \X (Vector \cup {Zero, None}))
BY DEF Text

LEMMA CountWritten ==
  ASSUME NEW r \in Text, NEW e \in Module \X Int
  PROVE  /\ [r EXCEPT !.counts = @ \cup {e}] \in Text
         /\ [r EXCEPT !.counts = @ \cup {e}].counts = r.counts \cup {e}
         /\ [r EXCEPT !.counts = @ \cup {e}].lines = r.lines
BY DEF Text

LEMMA LineWritten ==
  ASSUME NEW r \in Text, NEW e \in Module \X Task \X (Vector \cup {Zero, None})
  PROVE  /\ [r EXCEPT !.lines = @ \cup {e}] \in Text
         /\ [r EXCEPT !.lines = @ \cup {e}].lines = r.lines \cup {e}
         /\ [r EXCEPT !.lines = @ \cup {e}].counts = r.counts
BY DEF Text

LEMMA TypesFrom ==
  ASSUME Lock' \in Task \cup {None, Getter},
         getpc' \in {"user", "page", "module", "count", "process", "peek", "type", "line",
                     "copy", "unlock", "oops"},
         iterator' \in Module \cup {None}, ioctl_task' \in Task \cup {None},
         passed' \in SUBSET Module, walked' \in SUBSET Task,
         reply' \in Text, since' \in SUBSET {"unsettled", "changed"}
  PROVE  GetTypeOK'
<1>1. /\ reply'.start \in {0} \cup Stale
      /\ reply'.counts \in SUBSET (Module \X Int)
      /\ reply'.lines \in SUBSET (Module \X Task \X (Vector \cup {Zero, None}))
  BY TextType
<1> QED
  BY <1>1 DEF GetTypeOK

LEMMA TypesOther ==
  ASSUME Types, OtherStep
  PROVE  Types'
<1>1. Typed' /\ Lock' \in Task \cup {None, Getter}
  BY TypedStep, LockStep DEF Types, GetTypeOK, OtherStep
<1>2. UNCHANGED <<getpc, iterator, ioctl_task, walked, reply>> /\ passed' \subseteq passed
  BY DEF OtherStep
<1>3. since' \in SUBSET {"unsettled", "changed"}
  BY DEF OtherStep, Types, GetTypeOK
<1>4. GetTypeOK'
  BY <1>1, <1>2, <1>3, TypesFrom DEF Types, GetTypeOK
<1>5. Located'
  BY <1>2 DEF Types, Located
<1> QED
  BY <1>1, <1>2, <1>4, <1>5 DEF Types

LEMMA TypesGetter ==
  ASSUME Types, GetStep
  PROVE  Types'
<1> USE GetAssumption, RouterAssumption DEF Types, Located, Passing, GetAt
<1>1. CASE GetLock
  <2>1. Typed'
    BY <1>1 DEF GetLock, Typed, memory, kernel, local
  <2>2. GetTypeOK'
    BY <1>1, TypesFrom DEF GetLock, GetTypeOK, getLocal
  <2> QED
    BY <1>1, <2>1, <2>2 DEF GetLock, getLocal
<1>2. CASE GetUnlock
  <2>1. Typed'
    BY <1>2 DEF GetUnlock, Typed, memory, kernel, local
  <2>2. GetTypeOK'
    BY <1>2, TypesFrom, EmptyText DEF GetUnlock, GetTypeOK
  <2> QED
    BY <1>2, <2>1, <2>2, EmptyText DEF GetUnlock
<1>3. ASSUME UNCHANGED vars
      PROVE  Typed' /\ Lock' = Lock
  BY <1>3 DEF vars, memory, kernel, local, Typed
<1>4. CASE GetPage
  <2>1. \A n \in Stale : [NoReply EXCEPT !.start = n] \in Text
    BY DEF NoReply, Text
  <2>2. reply' \in Text /\ getpc' \in {"module", "unlock"}
    BY <1>4, <2>1 DEF GetPage
  <2>3. GetTypeOK'
    BY <1>3, <1>4, <2>2, TypesFrom DEF GetPage, GetTypeOK
  <2>4. Located'
    BY <1>4 DEF GetPage
  <2> QED
    BY <1>3, <1>4, <2>2, <2>3, <2>4 DEF GetPage
<1>5. CASE NextModule
  <2>1. /\ getpc' \in {"copy", "count"} /\ iterator' \in Module \cup {None}
        /\ getpc' = "copy" <=> iterator' = None
        /\ passed' \in SUBSET Module
        /\ UNCHANGED <<vars, ioctl_task, walked, reply, since>> /\ getpc = "module"
    BY <1>5 DEF NextModule, GetTypeOK
  <2>2. GetTypeOK'
    BY <1>3, <2>1, TypesFrom DEF GetTypeOK
  <2> QED
    BY <1>3, <2>1, <2>2
<1>6. CASE WriteCount
  <2>1. <<iterator, refcnt[iterator]>> \in Module \X Int
    BY <1>6 DEF WriteCount, GetTypeOK, Typed
  <2>2. reply' \in Text
    BY <1>6, <2>1, CountWritten DEF WriteCount
  <2>3. GetTypeOK'
    BY <1>3, <1>6, <2>2, TypesFrom DEF WriteCount, GetTypeOK
  <2> QED
    BY <1>3, <1>6, <2>2, <2>3 DEF WriteCount
<1>7. CASE NextProcess
  <2>1. /\ getpc' \in {"module", "peek"} /\ ioctl_task' \in Task \cup {None} /\ walked' \in SUBSET Task
        /\ getpc' = "module" => ioctl_task' = None /\ walked' = {}
        /\ getpc' = "peek" => ioctl_task' # None
        /\ UNCHANGED <<vars, iterator, passed, reply, since>> /\ getpc = "process"
    BY <1>7 DEF NextProcess, GetTypeOK
  <2>2. GetTypeOK'
    BY <1>3, <2>1, TypesFrom DEF GetTypeOK
  <2> QED
    BY <1>3, <2>1, <2>2
<1>8. CASE PeekVector \/ CompareType
  <2>1. /\ getpc' \in {"process", "type", "line"} /\ getpc \in {"peek", "type"}
        /\ UNCHANGED <<vars, getLocal, since>>
    BY <1>8 DEF PeekVector, CompareType
  <2>2. GetTypeOK'
    BY <1>3, <2>1, TypesFrom DEF GetTypeOK, getLocal
  <2> QED
    BY <1>3, <2>1, <2>2 DEF getLocal
<1>9. CASE WriteLine
  <2>1. sys_vector[ioctl_task] \in Addr
    BY <1>9 DEF WriteLine, GetReadable, Typed
  <2>2. <<iterator, ioctl_task, sv[sys_vector[ioctl_task]]>> \in Module \X Task \X (Vector \cup {Zero, None})
    BY <1>9, <2>1 DEF WriteLine, GetTypeOK, Typed
  <2>3. reply' \in Text
    BY <1>9, <2>2, LineWritten DEF WriteLine
  <2>4. GetTypeOK'
    BY <1>3, <1>9, <2>3, TypesFrom DEF WriteLine, GetTypeOK
  <2> QED
    BY <1>3, <1>9, <2>3, <2>4 DEF WriteLine
<1>10. CASE GetOops
  <2>1. GetTypeOK'
    BY <1>3, <1>10, TypesFrom, EmptyText DEF GetOops, GetTypeOK
  <2> QED
    BY <1>3, <1>10, <2>1, EmptyText DEF GetOops
<1> QED
  BY <1>1, <1>2, <1>4, <1>5, <1>6, <1>7, <1>8, <1>9, <1>10 DEF GetStep
-----------------------------------------------------------------------------
(***************************************************************************)
(* The text.                                                               *)
(***************************************************************************)
(* Under the mutex, what changes and is not noted in since does not change *)
(* at all.                                                                 *)
LEMMA OtherNoted ==
  ASSUME HolderLocked, LockInside, OtherStep, Getting, "changed" \notin since'
  PROVE  "changed" \notin since /\ since' = since /\ UNCHANGED <<memory, kernel>>
<1>1. Lock = Getter
  BY DEF Getting, LockInside
<1>2. \A t \in Task : ~Locked(t)
  BY <1>1, GetAssumption DEF HolderLocked
<1>3. ~BySet
  BY <1>2 DEF BySet
<1> QED
  BY <1>3 DEF OtherStep

LEMMA TrueOther ==
  ASSUME Types, HolderLocked, LockInside, Truthful, Whole, OtherStep
  PROVE  Truthful' /\ Whole'
<1>1. UNCHANGED <<getpc, iterator, ioctl_task, walked, reply>>
      /\ passed' = {m \in passed : mstate'[m] # "out"}
  BY DEF OtherStep
<1>2. ASSUME getpc \in Walk, "changed" \notin since'
      PROVE  (Place /\ Told)'
  <2>1. "changed" \notin since /\ UNCHANGED <<memory, kernel>>
    BY <1>2, OtherNoted DEF Walk, Passing, Getting
  <2>2. Place /\ Told
    BY <1>2, <2>1 DEF Truthful
  <2>3. UNCHANGED <<sys_vector, used, module_addr, sv, life, mstate, refcnt>>
    BY <2>1 DEF memory, kernel
  <2>4. passed' = passed
    BY <1>1, <2>2, <2>3 DEF Place, Listed
  <2>5. Place'
    BY <1>1, <2>2, <2>3, <2>4 DEF Place, Listed, TaskExists, Attached
  <2>6. Numbered' = Numbered /\ \A p \in Task : Line(p)' = Line(p)
    BY <1>1, <2>3, <2>4 DEF Numbered, Line
  <2>7. Finished' = Finished
    BY <1>1, <2>3, <2>4 DEF Finished, Listed, TaskExists, Attached, Compared
  <2>8. Finished \subseteq Task
    BY DEF Finished
  <2>9. Told'
    BY <1>1, <2>2, <2>3, <2>6, <2>7, <2>8 DEF Told
  <2> QED
    BY <2>5, <2>9
<1>3. ASSUME Getting, since' = {}
      PROVE  Settled'
  <2>1. since = {} /\ UNCHANGED <<memory, kernel>>
    BY <1>3, OtherNoted
  <2> QED
    BY <1>3, <2>1 DEF Whole, Settled, TaskExists, memory, kernel
<1> QED
  BY <1>1, <1>2, <1>3 DEF Truthful, Whole, Getting

(* The first page, and the pages that no text is made of.                  *)
LEMMA TrueEnds ==
  ASSUME Types, Whole, GetLock \/ GetPage \/ GetUnlock \/ GetOops
  PROVE  Truthful' /\ Whole'
<1>1. CASE GetLock
  <2>1. Settled' = Settled
    BY <1>1 DEF GetLock, Settled, TaskExists, memory, kernel
  <2> QED
    BY <1>1, <2>1 DEF GetLock, Truthful, Whole, Walk, Passing
<1>2. CASE GetUnlock \/ GetOops
  BY <1>2 DEF GetUnlock, GetOops, Truthful, Whole, Walk, Passing, Getting
<1>3. CASE GetPage
  <2>1. UNCHANGED <<vars, iterator, ioctl_task, passed, walked, since>> /\ getpc = "page"
    BY <1>3 DEF GetPage
  <2>2. Whole'
    BY <1>3, <2>1 DEF Whole, Getting, Settled, TaskExists, vars, memory, kernel
  <2>3. CASE getpc' = "unlock"
    BY <2>2, <2>3 DEF Truthful, Walk, Passing
  <2>4. ASSUME NEW n \in Stale, reply' = [NoReply EXCEPT !.start = n], getpc' = "module"
        PROVE  Truthful'
    <3>1. reply'.counts = {} /\ reply'.lines = {}
      BY <2>4 DEF NoReply
    <3>2. passed' = {} /\ iterator' = None /\ ioctl_task' = None
      BY <2>1 DEF Types, Located, Passing
    <3>3. Numbered' = {} /\ Finished' = {}
      BY <2>4, <3>2 DEF Numbered, Finished, Compared
    <3> QED
      BY <2>4, <3>1, <3>2, <3>3 DEF Truthful, Place, Told
  <2> QED
    BY <1>3, <2>2, <2>3, <2>4 DEF GetPage
<1> QED
  BY <1>1, <1>2, <1>3

(* The steps of the walk change nothing that the text is about.            *)
LEMMA WalkQuiet ==
  ASSUME Types, UNCHANGED vars
  PROVE  /\ Listed' = Listed
         /\ \A p \in Task : /\ TaskExists(p)' = TaskExists(p) /\ Line(p)' = Line(p)
                            /\ sys_vector'[p] = sys_vector[p]
                            /\ \A m : Attached(p, m)' = Attached(p, m)
         /\ refcnt' = refcnt
         /\ Settled' = Settled
BY DEF vars, memory, kernel, Listed, TaskExists, Line, Attached, Settled
LEMMA WholeWalk ==
  ASSUME Types, Whole, UNCHANGED vars, since' = since, Getting
  PROVE  Whole'
BY WalkQuiet DEF Whole

(* The next module: nothing of it is in the text; or all of the others are. *)
LEMMA TrueModule ==
  ASSUME Types, Truthful, NextModule
  PROVE  Truthful'
<1> SUFFICES ASSUME "changed" \notin since'
             PROVE  (Place /\ Told)'
  BY DEF Truthful
<1>1. UNCHANGED <<vars, ioctl_task, walked, reply, since>> /\ getpc = "module"
  BY DEF NextModule, GetAt
<1>2. Place /\ Told
  BY <1>1 DEF Truthful, Walk
<1>3. ioctl_task = None /\ walked = {} /\ Numbered = passed
  BY <1>1 DEF Types, Located, Passing, Numbered
<1>4. CASE getpc' = "copy"
  <2>1. iterator' = None /\ passed' = passed /\ Listed \ passed = {}
    BY <1>4 DEF NextModule, Listed
  <2>2. Place'
    BY <1>1, <1>2, <1>3, <1>4, <2>1, WalkQuiet DEF Place
  <2>3. Numbered' = Numbered
    BY <1>3, <1>4, <2>1 DEF Numbered
  <2>4. ASSUME NEW m \in Module, NEW p \in Task
        PROVE  Compared(m, p)' <=> Compared(m, p)
    BY <1>1, <1>4, <2>1, RouterAssumption DEF Compared
  <2>5. Finished' = Finished /\ Finished \subseteq Task
    BY <1>1, <2>4, WalkQuiet DEF Finished, Listed
  <2> QED
    BY <1>1, <1>2, <2>2, <2>3, <2>5, WalkQuiet DEF Told
<1>5. ASSUME NEW n \in Module \ passed, mstate[n] # "out",
             getpc' = "count", iterator' = n, passed' = passed \cup {n}
      PROVE  (Place /\ Told)'
  <2>1. n \in Listed
    BY <1>5 DEF Listed
  <2>2. Place'
    BY <1>1, <1>2, <1>3, <1>5, <2>1, WalkQuiet DEF Place
  <2>3. Numbered' = Numbered
    BY <1>3, <1>5 DEF Numbered
  <2>4. ASSUME NEW m \in Module, NEW p \in Task
        PROVE  Compared(m, p)' <=> Compared(m, p)
    BY <1>1, <1>5 DEF Compared, Passing
  <2>5. Finished' = Finished /\ Finished \subseteq Task
    BY <1>1, <2>4, WalkQuiet DEF Finished, Listed
  <2> QED
    BY <1>1, <1>2, <2>2, <2>3, <2>5, WalkQuiet DEF Told
<1> QED
  BY <1>4, <1>5 DEF NextModule

LEMMA TrueCount ==
  ASSUME Types, Truthful, WriteCount
  PROVE  Truthful'
<1> SUFFICES ASSUME "changed" \notin since'
             PROVE  (Place /\ Told)'
  BY DEF Truthful
<1>1. /\ UNCHANGED <<vars, iterator, ioctl_task, passed, walked, since>>
      /\ getpc = "count" /\ getpc' = "process"
      /\ reply' = [reply EXCEPT !.counts = @ \cup {<<iterator, refcnt[iterator]>>}]
  BY DEF WriteCount, GetAt
<1>2. Place /\ Told
  BY <1>1 DEF Truthful, Walk
<1>3. iterator \in passed /\ iterator \in Module
  BY <1>1, <1>2 DEF Types, Located, Place, GetTypeOK
<1>4. Place'
  BY <1>1, <1>2, WalkQuiet DEF Place, Types, Located, Passing
<1>5. /\ reply'.counts = reply.counts \cup {<<iterator, refcnt[iterator]>>}
      /\ reply'.lines = reply.lines
  BY <1>1, <1>3, CountWritten DEF Types, Typed
<1>6. Numbered' = Numbered \cup {iterator}
  BY <1>1, <1>3 DEF Numbered
<1>7. ASSUME NEW m \in Module, NEW p \in Task
      PROVE  Compared(m, p)' <=> Compared(m, p)
  BY <1>1 DEF Compared, Types, Located, Passing
<1>8. Finished' = Finished /\ Finished \subseteq Task
  BY <1>1, <1>7, WalkQuiet DEF Finished, Listed
<1> QED
  BY <1>1, <1>2, <1>4, <1>5, <1>6, <1>8, WalkQuiet DEF Told

(* The next process: this one is finished, or all are, with this module.   *)
LEMMA TrueProcess ==
  ASSUME Types, Truthful, NextProcess
  PROVE  Truthful'
<1> SUFFICES ASSUME "changed" \notin since'
             PROVE  (Place /\ Told)'
  BY DEF Truthful
<1>1. UNCHANGED <<vars, iterator, passed, reply, since>> /\ getpc = "process"
  BY DEF NextProcess, GetAt
<1>2. Place /\ Told
  BY <1>1 DEF Truthful, Walk, Passing
<1>3. ASSUME getpc' = "module", ioctl_task' = None, \A p \in Task \ walked : ~TaskExists(p)
      PROVE  (Place /\ Told)'
  <2>1. Place'
    BY <1>1, <1>2, <1>3, WalkQuiet DEF Place
  <2>2. Numbered' = Numbered
    BY <1>1, <1>3 DEF Numbered
  <2>3. ASSUME NEW m \in Module, NEW p \in Task, TaskExists(p)
        PROVE  Compared(m, p)' <=> Compared(m, p)
    BY <1>1, <1>3, <2>3 DEF Compared
  <2>4. Finished' = Finished /\ Finished \subseteq Task
    BY <1>1, <2>3, WalkQuiet DEF Finished, Listed
  <2> QED
    BY <1>1, <1>2, <2>1, <2>2, <2>4, WalkQuiet DEF Told
<1>4. ASSUME NEW q \in Task \ walked, TaskExists(q),
             getpc' = "peek", ioctl_task' = q, walked' = walked \cup {q}
      PROVE  (Place /\ Told)'
  <2>1. Place'
    BY <1>1, <1>2, <1>4, WalkQuiet DEF Place
  <2>2. Numbered' = Numbered
    BY <1>1, <1>4 DEF Numbered
  <2>3. ASSUME NEW m \in Module, NEW p \in Task
        PROVE  Compared(m, p)' <=> Compared(m, p)
    BY <1>1, <1>4 DEF Compared, Passing
  <2>4. Finished' = Finished /\ Finished \subseteq Task
    BY <1>1, <2>3, WalkQuiet DEF Finished, Listed
  <2> QED
    BY <1>1, <1>2, <2>1, <2>2, <2>4, WalkQuiet DEF Told
<1> QED
  BY <1>3, <1>4 DEF NextProcess

(* A process that is not attached to this module needs no line.            *)
LEMMA TrueTests ==
  ASSUME Types, Truthful, PeekVector \/ CompareType
  PROVE  Truthful'
<1> SUFFICES ASSUME "changed" \notin since'
             PROVE  (Place /\ Told)'
  BY DEF Truthful
<1>1. /\ UNCHANGED vars /\ UNCHANGED <<iterator, ioctl_task, passed, walked, reply, since>>
      /\ getpc \in {"peek", "type"} /\ getpc' \in {"process", "type", "line"}
  BY DEF PeekVector, CompareType, GetAt, getLocal
<1>2. Place /\ Told
  BY <1>1 DEF Truthful, Walk, Passing
<1>3. ioctl_task \in walked /\ ioctl_task \in Task /\ iterator \in passed
  BY <1>1, <1>2 DEF Types, Located, Place, GetTypeOK, Passing
<1>4. sys_vector[ioctl_task] \in Addr \cup {None} /\ None \notin used
  BY <1>3, RouterAssumption DEF Types, Typed
<1>5. Place'
  <2>1. getpc' = "type" => sys_vector[ioctl_task] # None
    BY <1>1 DEF PeekVector, CompareType
  <2>2. getpc' = "line" => Attached(ioctl_task, iterator) /\ sys_vector[ioctl_task] # None
    BY <1>1, <1>4 DEF PeekVector, CompareType, GetAt, GetReadable, Attached
  <2> QED
    BY <1>1, <1>2, <1>3, <2>1, <2>2, WalkQuiet DEF Place
<1>6. Numbered' = Numbered
  BY <1>1 DEF Numbered
<1>7. getpc' = "process" => ~Attached(ioctl_task, iterator)
  BY <1>4 DEF PeekVector, CompareType, Attached
<1>8. ASSUME NEW m \in Module, NEW p \in Task, p # ioctl_task \/ m # iterator \/ getpc' # "process"
      PROVE  Compared(m, p)' <=> Compared(m, p)
  BY <1>1, <1>8 DEF Compared, Passing
<1>9. ASSUME NEW m \in Module, NEW p \in Task
      PROVE  Attached(p, m) /\ Compared(m, p)' <=> Attached(p, m) /\ Compared(m, p)
  BY <1>7, <1>8
<1>10. Finished' = Finished /\ Finished \subseteq Task
  BY <1>1, <1>9, WalkQuiet DEF Finished, Listed
<1> QED
  BY <1>1, <1>2, <1>5, <1>6, <1>10, WalkQuiet DEF Told

(* One that is has its line now.                                           *)
LEMMA TrueLine ==
  ASSUME Types, Truthful, WriteLine
  PROVE  Truthful'
<1> SUFFICES ASSUME "changed" \notin since'
             PROVE  (Place /\ Told)'
  BY DEF Truthful
<1> DEFINE q == ioctl_task
           e == <<iterator, q, sv[sys_vector[q]]>>
<1>1. /\ UNCHANGED <<vars, iterator, ioctl_task, passed, walked, since>>
      /\ getpc = "line" /\ getpc' = "process"
      /\ reply' = [reply EXCEPT !.lines = @ \cup {e}]
  BY DEF WriteLine, GetAt
<1>2. Place /\ Told
  BY <1>1 DEF Truthful, Walk, Passing
<1>3. /\ q \in walked /\ q \in Task /\ TaskExists(q)
      /\ iterator \in passed /\ iterator \in Listed /\ iterator \in Module
      /\ Attached(q, iterator)
  BY <1>1, <1>2 DEF Types, Located, Place, GetTypeOK, Passing
<1>4. Place'
  BY <1>1, <1>2, <1>3, WalkQuiet DEF Place
<1>5. e \in Module \X Task \X (Vector \cup {Zero, None}) /\ Line(q) = e
  <2>1. sys_vector[q] \in Addr
    BY <1>3 DEF Attached, Types, Typed
  <2> QED
    BY <1>3, <2>1 DEF Attached, Types, Typed, Line
<1>6. /\ reply'.lines = reply.lines \cup {e}
      /\ reply'.counts = reply.counts
  BY <1>1, <1>5, LineWritten DEF Types
<1>7. Numbered' = Numbered
  BY <1>1 DEF Numbered
<1>8. ASSUME NEW m \in Module, NEW p \in Task, p # q \/ m # iterator
      PROVE  Compared(m, p)' <=> Compared(m, p)
  BY <1>1, <1>8 DEF Compared, Passing
<1>9. Compared(iterator, q)'
  BY <1>1, <1>3 DEF Compared
<1>10. Finished' = Finished \cup {q}
  <2>1. q \in Finished'
    BY <1>1, <1>3, <1>9, WalkQuiet DEF Finished
  <2>2. ASSUME NEW p \in Task, p # q
        PROVE  p \in Finished' <=> p \in Finished
    BY <1>1, <1>8, <2>2, WalkQuiet DEF Finished, Listed
  <2> QED
    BY <1>3, <2>1, <2>2 DEF Finished
<1>11. Finished \subseteq Task /\ Finished' \subseteq Task
  BY <1>3, <1>10 DEF Finished
<1> QED
  BY <1>1, <1>2, <1>3, <1>4, <1>5, <1>6, <1>7, <1>10, <1>11, WalkQuiet DEF Told
-----------------------------------------------------------------------------
(***************************************************************************)
(* No bad access.                                                          *)
(***************************************************************************)
LEMMA CountsFit ==
  ASSUME Types, Told
  PROVE  /\ Cardinality(reply.counts) \in Nat /\ Cardinality(reply.lines) \in Nat
         /\ Cardinality(reply.counts) <= Cardinality(Numbered)
         /\ Cardinality(reply.lines) <= Cardinality(Finished)
<1>1. IsFiniteSet(Numbered)
  BY GetAssumption, FS_Subset DEF Numbered, Types, GetTypeOK
<1>2. IsFiniteSet(Finished)
  BY RouterAssumption, FS_Subset DEF Finished
<1>3. /\ IsFiniteSet({<<m, refcnt[m]>> : m \in Numbered})
      /\ Cardinality({<<m, refcnt[m]>> : m \in Numbered}) <= Cardinality(Numbered)
  <2> DEFINE f == [m \in Numbered |-> <<m, refcnt[m]>>]
             T == {<<m, refcnt[m]>> : m \in Numbered}
  <2>1. f \in Surjection(Numbered, T)
    BY DEF Surjection
  <2> HIDE DEF f, T
  <2>2. IsFiniteSet(T) /\ Cardinality(T) <= Cardinality(Numbered)
    BY <1>1, <2>1, FS_Surjection
  <2> QED
    BY <2>2 DEF T
<1>4. /\ IsFiniteSet({Line(p) : p \in Finished})
      /\ Cardinality({Line(p) : p \in Finished}) <= Cardinality(Finished)
  <2> DEFINE f == [p \in Finished |-> Line(p)]
             T == {Line(p) : p \in Finished}
  <2>1. f \in Surjection(Finished, T)
    BY DEF Surjection
  <2> HIDE DEF f, T
  <2>2. IsFiniteSet(T) /\ Cardinality(T) <= Cardinality(Finished)
    BY <1>2, <2>1, FS_Surjection
  <2> QED
    BY <2>2 DEF T
<1> QED
  BY <1>3, <1>4, FS_CardinalityType DEF Told

(* Where the whole text fits, a page that begins empty has room for what   *)
(* is written next.                                                        *)
LEMMA RoomLeft ==
  ASSUME Types, Place, Told, Stale = {0}, Needed <= Room
  PROVE  /\ getpc = "count" => TextLines(reply) + 2 <= Room
         /\ getpc = "line" => TextLines(reply) + 1 <= Room
<1> DEFINE c == Cardinality(reply.counts)
           l == Cardinality(reply.lines)
           M == Cardinality(Listed)
           T == Cardinality(Shown)
<1>1. /\ reply.start = 0 /\ c \in Nat /\ l \in Nat
      /\ c <= Cardinality(Numbered) /\ l <= Cardinality(Finished)
  BY CountsFit DEF Types, GetTypeOK
<1>2. IsFiniteSet(Listed) /\ IsFiniteSet(Shown)
  BY GetAssumption, RouterAssumption, FS_Subset DEF Listed, Shown
<1>3. M \in Nat /\ T \in Nat /\ Room \in Nat /\ 2 * M + T <= Room
  BY <1>2, GetAssumption, FS_CardinalityType DEF Needed
<1>4. Numbered \subseteq Listed /\ Finished \subseteq Shown
  BY DEF Place, Numbered, Finished, Shown
<1>5. /\ Cardinality(Numbered) \in Nat /\ Cardinality(Numbered) <= M
      /\ Cardinality(Finished) \in Nat /\ Cardinality(Finished) <= T
  BY <1>2, <1>4, FS_Subset, FS_CardinalityType
<1>6. CASE getpc = "count"
  <2>1. iterator \in Listed /\ Numbered \subseteq Listed \ {iterator}
    BY <1>4, <1>6 DEF Types, Located, Place, Numbered
  <2>2. Cardinality(Listed \ {iterator}) = M - 1 /\ IsFiniteSet(Listed \ {iterator})
    BY <1>2, <2>1, FS_RemoveElement
  <2>3. Cardinality(Numbered) <= M - 1
    BY <2>1, <2>2, FS_Subset
  <2> QED
    BY <1>1, <1>3, <1>5, <1>6, <2>3 DEF TextLines
<1>7. CASE getpc = "line"
  <2>1. ioctl_task \in Task /\ TaskExists(ioctl_task) /\ Attached(ioctl_task, iterator) /\ iterator \in Listed
    BY <1>7 DEF Types, Located, GetTypeOK, Place, Passing
  <2>2. ioctl_task \in Shown /\ \A m : Attached(ioctl_task, m) => m = iterator
    BY <2>1 DEF Attached, Shown
  <2>3. ioctl_task \notin Finished
    BY <1>7, <2>2 DEF Finished, Compared, Passing
  <2>4. Finished \subseteq Shown \ {ioctl_task}
    BY <1>4, <2>3
  <2>5. Cardinality(Shown \ {ioctl_task}) = T - 1 /\ IsFiniteSet(Shown \ {ioctl_task})
    BY <1>2, <2>2, FS_RemoveElement
  <2>6. Cardinality(Finished) <= T - 1
    BY <2>4, <2>5, FS_Subset
  <2> QED
    BY <1>1, <1>3, <1>5, <1>7, <2>6 DEF TextLines
<1> QED
  BY <1>6, <1>7

LEMMA NoBadAccess ==
  ASSUME Types, Truthful, Whole, Getting, since = {}, Stale = {0}, Needed <= Room
  PROVE  GetReadable
<1>1. CASE getpc \in Walk
  <2>1. Place /\ Told /\ Settled
    BY <1>1 DEF Truthful, Whole
  <2>2. iterator # None => mstate[iterator] # "out"
    BY <2>1 DEF Place, Listed
  <2>3. ioctl_task # None => ioctl_task \in Task /\ TaskExists(ioctl_task)
    BY <2>1 DEF Place, Types, GetTypeOK
  <2>4. getpc \in {"type", "line"} =>
          LET a == sys_vector[ioctl_task]
          IN a \in used /\ module_addr[a] # None /\ mstate[module_addr[a]] # "out"
    BY <2>1, <2>3 DEF Settled, Place, Types, Located
  <2> QED
    BY <2>1, <2>2, <2>3, <2>4, RoomLeft DEF GetReadable
<1>2. CASE getpc \notin Walk
  BY <1>2 DEF GetReadable, Walk, Passing
<1> QED
  BY <1>1, <1>2

-----------------------------------------------------------------------------
(***************************************************************************)
(* The theorems.                                                           *)
(***************************************************************************)
LEMMA TypesInit ==
  ASSUME GetInit, Typed
  PROVE  Types
<1>1. Lock = None /\ getpc = "user" /\ iterator = None /\ ioctl_task = None
      /\ passed = {} /\ walked = {} /\ reply = NoReply /\ since = {}
  BY DEF GetInit, Init
<1>2. Located
  BY <1>1 DEF Located, Passing
<1>3. GetTypeOK
  BY <1>1, EmptyText, TextType DEF GetTypeOK
<1> QED
  BY <1>1, <1>2, <1>3, EmptyText DEF Types

LEMMA StutterQuiet ==
  ASSUME UNCHANGED <<vars, getpc, iterator, ioctl_task, passed, walked, reply, since>>
  PROVE  Place' = Place /\ Told' = Told /\ Settled' = Settled
<1>1. UNCHANGED <<sys_vector, used, module_addr, sv, life, mstate, refcnt>>
  BY DEF vars, memory, kernel
<1> QED
  BY <1>1 DEF Place, Told, Settled, Listed, TaskExists, Attached, Numbered, Finished, Compared, Line

LEMMA GInvInit == GetInit => GInv
<1> SUFFICES ASSUME GetInit PROVE GInv
  OBVIOUS
<1>1. TypeOK /\ HolderLocked /\ Typed
  BY TypeInit, HolderInit, TypedIs DEF GetInit
<1>2. Types
  BY <1>1, TypesInit
<1>3. Asking /\ LockInside
  BY GetAssumption, RouterAssumption DEF GetInit, Init, Asking, LockInside
<1>4. Truthful /\ Whole
  BY DEF GetInit, Truthful, Whole, Walk, Passing, Getting
<1> QED
  BY <1>1, <1>2, <1>3, <1>4 DEF GInv

LEMMA GInvStep == GInv /\ [GetNext]_allVars => GInv'
<1> SUFFICES ASSUME GInv, [GetNext]_allVars PROVE GInv'
  OBVIOUS
<1> USE DEF GInv
<1>1. CASE OtherStep
  <2>1. Next
    BY <1>1 DEF OtherStep
  <2> QED
    BY <1>1, <2>1, TypesOther, AskingStep, MutexOther, TrueOther DEF Types
<1>2. CASE GetStep
  <2>1. Asking'
    BY <1>2, GetterQuiet DEF GetStep, GetLock, GetUnlock, Asking, vars, local
  <2>2. Truthful' /\ Whole'
    <3>1. CASE GetLock \/ GetPage \/ GetUnlock \/ GetOops
      BY <3>1, TrueEnds
    <3>2. CASE NextModule \/ WriteCount \/ NextProcess \/ PeekVector \/ CompareType \/ WriteLine
      <4>1. UNCHANGED vars /\ since' = since /\ Getting
        BY <3>2, GetterQuiet DEF NextModule, WriteCount, NextProcess, PeekVector, CompareType, WriteLine, GetAt, Getting
      <4> QED
        BY <3>2, <4>1, WholeWalk, TrueModule, TrueCount, TrueProcess, TrueTests, TrueLine
    <3> QED
      BY <1>2, <3>1, <3>2 DEF GetStep
  <2> QED
    BY <1>2, <2>1, <2>2, TypesGetter, MutexGetter
<1>3. CASE UNCHANGED allVars
  <2>1. UNCHANGED <<vars, getpc, iterator, ioctl_task, passed, walked, reply, since>>
    BY <1>3 DEF allVars, getVars
  <2>2. Typed' /\ Asking' /\ HolderLocked' /\ LockInside'
    BY <2>1 DEF vars, memory, kernel, local, Types, Typed, Asking, HolderLocked, LockInside, Locked
  <2>3. Types'
    BY <2>1, <2>2 DEF Types, GetTypeOK, Located, vars
  <2>4. Truthful' /\ Whole'
    BY <2>1, StutterQuiet DEF Truthful, Whole, Getting
  <2> QED
    BY <2>2, <2>3, <2>4
<1> QED
  BY <1>1, <1>2, <1>3 DEF GetNext

LEMMA GetInvariant == GetSpec => []GInv
BY GInvInit, GInvStep, PTL DEF GetSpec

(* The walk, its text and the mutex keep their types: whatever the SETs,   *)
(* exits, clones and unloads around an IOCTL_GET do.                       *)
THEOREM GetTypeCorrect == GetSpec => []GetTypeOK
<1>1. GInv => GetTypeOK
  BY DEF GInv, Types
<1> QED
  BY <1>1, GetInvariant, PTL

(* The mutex is with a process between lines 57 and 94 of ioctl_funcs, or  *)
(* with one that crashed there: no error path of a SET or a GET takes it   *)
(* along to user mode, under any hazard.                                   *)
THEOREM LockInsideAlways == GetSpec => []LockInside
<1>1. GInv => LockInside
  BY DEF GInv
<1> QED
  BY <1>1, GetInvariant, PTL

(* SETs exclude each other also where GETs compete for the mutex.          *)
THEOREM GetExclusion == GetSpec => []IoctlExclusive
<1>1. GInv => IoctlExclusive
  BY HolderImplies DEF GInv
<1> QED
  BY <1>1, GetInvariant, PTL

(* A GET whose text fits follows no bad pointer and stays in its page, as  *)
(* long as the page happened to begin empty, the vectors were whole when   *)
(* it began and none of the calls that take no mutex has overlapped it:    *)
(* for any number of modules and processes and any page.  That the text    *)
(* fits is a condition on the state, which nothing in the code ensures.    *)
THEOREM GetSafeAlways == GetSpec => []GetSafe
<1>1. GInv => GetSafe
  BY NoBadAccess DEF GInv, GetSafe
<1> QED
  BY <1>1, GetInvariant, PTL

(* README.HW3:564: if no call that takes no mutex overlaps a GET, its      *)
(* reply names every module with its count and every process under the     *)
(* module it is attached to, as they are when it is given.                 *)
THEOREM GetExactAlways == GetSpec => []GetExact
<1>1. GInv => GetExact
  <2> SUFFICES ASSUME GInv, getpc = "copy", "changed" \notin since
               PROVE  /\ reply.counts = {<<m, refcnt[m]>> : m \in Listed}
                      /\ reply.lines = {Line(p) : p \in Shown}
    BY DEF GetExact, Line
  <2>1. Place /\ Told
    BY DEF GInv, Truthful, Walk
  <2>2. passed = Listed /\ iterator = None
    BY <2>1 DEF Place, GInv, Types, Located
  <2>3. Numbered = Listed
    BY <2>2 DEF Numbered
  <2>4. \A m \in Listed, p \in Task : Compared(m, p)
    BY <2>2, RouterAssumption DEF Compared, Listed
  <2>5. Finished = Shown
    BY <2>4 DEF Finished, Shown
  <2> QED
    BY <2>1, <2>3, <2>5 DEF Told
<1> QED
  BY <1>1, GetInvariant, PTL
=============================================================================
