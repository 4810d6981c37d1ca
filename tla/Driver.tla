------------------------------- MODULE Driver -------------------------------
(***************************************************************************)
(* Loading and unloading the driver module hw3 (main.c, ioctl_device.c,    *)
(* syscall_intercept.c, the end of syscall_new.c), one step per resource   *)
(* acquired or released and per entry of the system call table, while      *)
(* other processes make system calls through the table and open the        *)
(* device.  init ignores most failures, so that exit runs after any        *)
(* combination of them.                                                    *)
(***************************************************************************)
EXTENDS Naturals, Sequences, SequencesExt

CONSTANTS
  Proc,      \* processes making system calls and using the device
  Failures   \* what may fail while the driver loads

FailureKind == {"region", "class", "devices", "cdev", "node", "kzalloc", "version",
                "alloc", "open", "absent"}

ASSUME DriverAssumption == Failures \subseteq FailureKind

(* Bad form of SaveOrder: one of the originals is not saved.               *)
SaveOrder_NoClose ==
  <<"write", "open", "rmdir", "link", "unlink", "symlink", "rename", "mkdir", "exit_group">>

(* The order in which set_systems_calls saves, syscall_new.c:239-248, ...  *)
SaveOrder ==
  <<"write", "open", "rmdir", "link", "unlink", "symlink", "rename", "mkdir", "exit_group", "close">>

(* ... hooks, lines 250-259, ...                                           *)
HookOrder ==
  <<"open", "write", "rmdir", "link", "unlink", "symlink", "rename", "mkdir", "exit_group", "close">>

(* Bad form of UnhookOrder: one entry is forgotten.                        *)
UnhookOrder_NoMkdir ==
  <<"open", "write", "rmdir", "link", "unlink", "symlink", "rename", "exit_group", "close">>

(* ... and in which destory_new_system_calls unhooks, lines 267-276.       *)
UnhookOrder ==
  <<"open", "write", "rmdir", "link", "unlink", "symlink", "rename", "mkdir", "exit_group", "close">>

Call == ToSet(HookOrder) \cup {"read"}

VARIABLES
  hw3,        \* the module: "out", "init", "live", "exit", "oops"
  at,         \* the next step of init or exit
  ret,        \* what router_init will return
  i,          \* how many table entries the current loop has done
  region,     \* the chrdev region is ours
  ioctl_class, ioctl_devices,   \* the statics: "null", "ok", "err"
  cdev, devnode,                \* the character device and its /dev node
  syscall_table,                \* found or NULL
  table,      \* each entry of the table: "orig" or "hook"
  original,   \* the original_* pointers: "null" or "orig"
  Lock,       \* the mutex: "zero" or "init"
  proc,       \* where each process is: "user", "ioctl" or in the wrapper of a call
  fds,        \* the processes that hold the device open
  failed,     \* history: what has failed in this load
  wrong       \* history: what its exit released without holding it

device == <<region, ioctl_class, ioctl_devices, cdev, devnode>>
hooks  == <<syscall_table, table, original>>
procs  == <<proc, fds>>
script == <<hw3, at, ret, i>>
vars == <<script, device, hooks, Lock, procs, failed, wrong>>

Works == UNCHANGED failed
Fails(kind) == kind \in Failures /\ failed' = failed \cup {kind}
Then(l) == at' = l
Step(l) == at = l

(***************************************************************************)
(* router_init, main.c:25-35.                                              *)
(***************************************************************************)
(* insmod.  The module's data is fresh: every static is zero.  What comes  *)
(* after an init that failed and left its device behind is not modelled.   *)
Insmod ==
  /\ hw3 = "out" /\ ~region /\ ~cdev /\ proc = [p \in Proc |-> "user"]
  /\ hw3' = "init" /\ at' = "region" /\ ret' = "ok" /\ i' = 0
  /\ ioctl_class' = "null" /\ ioctl_devices' = "null"
  /\ syscall_table' = "null" /\ original' = [c \in Call |-> "null"] /\ Lock' = "zero"
  /\ failed' = {} /\ wrong' = {}
  /\ UNCHANGED <<region, cdev, devnode, table, procs>>

(* setup_ioctl_dev, ioctl_device.c:145-182.  Each failure ends it; what it *)
(* returns is overwritten at main.c:31.                                    *)
AllocRegion ==
  /\ Step("region")
  /\ \/ Works /\ region' = TRUE /\ Then("class")
     \/ Fails("region") /\ region' = region /\ Then("version")
  /\ UNCHANGED <<hw3, ret, i, ioctl_class, ioctl_devices, cdev, devnode, hooks, Lock, procs, wrong>>

(* Bad form of CreateClass: its failure does not end setup_ioctl_dev.      *)
CreateClass_GoesOn ==
  /\ Step("class")
  /\ \/ Works /\ ioctl_class' = "ok"
     \/ Fails("class") /\ ioctl_class' = "err"
  /\ Then("devices")
  /\ UNCHANGED <<hw3, ret, i, region, ioctl_devices, cdev, devnode, hooks, Lock, procs, wrong>>

CreateClass ==
  /\ Step("class")
  /\ \/ Works /\ ioctl_class' = "ok" /\ Then("devices")
     \/ Fails("class") /\ ioctl_class' = "err" /\ Then("version")
  /\ UNCHANGED <<hw3, ret, i, region, ioctl_devices, cdev, devnode, hooks, Lock, procs, wrong>>

AllocDevices ==
  /\ Step("devices")
  /\ \/ Works /\ ioctl_devices' = "ok" /\ Then("cdev")
     \/ Fails("devices") /\ ioctl_devices' = "null" /\ Then("version")
  /\ UNCHANGED <<hw3, ret, i, region, ioctl_class, cdev, devnode, hooks, Lock, procs, wrong>>

(* Bad form of AddCdev: the device is created but never added.             *)
AddCdev_Omitted ==
  /\ Step("cdev")
  /\ Then("node")
  /\ UNCHANGED <<hw3, ret, i, region, ioctl_class, ioctl_devices, cdev, devnode, hooks, Lock, procs, failed, wrong>>

(* ioctl_construct_device, ioctl_device.c:107-143.                         *)
AddCdev ==
  /\ Step("cdev")
  /\ \/ Works /\ cdev' = TRUE /\ Then("node")
     \/ Fails("cdev") /\ cdev' = cdev /\ Then("version")
  /\ UNCHANGED <<hw3, ret, i, region, ioctl_class, ioctl_devices, devnode, hooks, Lock, procs, wrong>>

CreateNode ==
  /\ Step("node")
  /\ \/ Works /\ devnode' = TRUE /\ cdev' = cdev
     \/ Fails("node") /\ cdev' = FALSE /\ devnode' = devnode
  /\ Then("version")
  /\ UNCHANGED <<hw3, ret, i, region, ioctl_class, ioctl_devices, hooks, Lock, procs, wrong>>

(* setup_system_call, syscall_intercept.c:116-125: a failing kzalloc is    *)
(* the only error it returns.  acquire_kernel_version returns NULL when    *)
(* /proc/version does not open, and line 36 takes its strlen.              *)
KernelVersion ==
  /\ Step("version")
  /\ \/ Works /\ Then("map") /\ UNCHANGED <<hw3, ret>>
     \/ Fails("kzalloc") /\ ret' = "ENOMEM" /\ Then("mutex") /\ UNCHANGED hw3
     \/ Fails("version") /\ hw3' = "oops" /\ Then("none") /\ UNCHANGED ret
  /\ UNCHANGED <<i, device, hooks, Lock, procs, wrong>>

(* find_sys_call_table, syscall_intercept.c:30-114.  An allocation that    *)
(* fails, like a map without the symbol, leaves the table alone and is no  *)
(* error; a map that does not open is closed as an error pointer (line     *)
(* 103).                                                                   *)
FindTable ==
  /\ Step("map")
  /\ \/ Works /\ syscall_table' = "found" /\ Then("save") /\ UNCHANGED hw3
     \/ /\ Fails("alloc") \/ Fails("absent")
        /\ Then("mutex") /\ UNCHANGED <<hw3, syscall_table>>
     \/ Fails("open") /\ hw3' = "oops" /\ Then("none") /\ UNCHANGED syscall_table
  /\ UNCHANGED <<ret, i, device, table, original, Lock, procs, wrong>>

(* The next entry of a loop over the table, then l.                        *)
Advance(order, l) ==
  IF i + 1 < Len(order) THEN i' = i + 1 /\ UNCHANGED at ELSE i' = 0 /\ Then(l)

SaveOriginal ==
  LET c == SaveOrder[i + 1]
  IN /\ Step("save")
     /\ original' = [original EXCEPT ![c] = table[c]]
     /\ Advance(SaveOrder, "hook")
     /\ UNCHANGED <<hw3, ret, device, syscall_table, table, Lock, procs, failed, wrong>>

(* Bad form of Hook: the last call is not hooked.                          *)
Hook_NotClose ==
  LET c == HookOrder[i + 1]
  IN /\ Step("hook")
     /\ table' = IF c = "close" THEN table ELSE [table EXCEPT ![c] = "hook"]
     /\ Advance(HookOrder, "mutex")
     /\ UNCHANGED <<hw3, ret, device, syscall_table, original, Lock, procs, failed, wrong>>

Hook ==
  LET c == HookOrder[i + 1]
  IN /\ Step("hook")
     /\ table' = [table EXCEPT ![c] = "hook"]
     /\ Advance(HookOrder, "mutex")
     /\ UNCHANGED <<hw3, ret, device, syscall_table, original, Lock, procs, failed, wrong>>

(* main.c:32-34.  A module whose init returns an error is freed without    *)
(* its exit being run.                                                     *)
InitMutex ==
  /\ Step("mutex")
  /\ Lock' = "init"
  /\ hw3' = IF ret = "ok" THEN "live" ELSE "out"
  /\ Then("none")
  /\ UNCHANGED <<ret, i, device, hooks, procs, failed, wrong>>

(***************************************************************************)
(* router_exit, main.c:37-42.                                              *)
(***************************************************************************)
(* rmmod: an open file of the device keeps the module; a process in the    *)
(* middle of a wrapper does not.                                           *)
Rmmod ==
  /\ hw3 = "live" /\ fds = {}
  /\ hw3' = "exit" /\ i' = 0
  /\ Then(IF syscall_table = "found" THEN "unhook" ELSE "destroy")
  /\ UNCHANGED <<ret, device, hooks, Lock, procs, failed, wrong>>

Unhook ==
  LET c == UnhookOrder[i + 1]
  IN /\ Step("unhook")
     /\ table' = [table EXCEPT ![c] = original[c]]
     /\ Advance(UnhookOrder, "destroy")
     /\ UNCHANGED <<hw3, ret, device, syscall_table, original, Lock, procs, failed, wrong>>

Releases(resource, held) == IF held THEN wrong ELSE wrong \cup {resource}

(* ioctl_cleanup, ioctl_device.c:194-209: the device ...                   *)
DestroyDevice ==
  /\ Step("destroy")
  /\ IF ioctl_devices = "ok"
     THEN /\ wrong' = Releases("cdev", cdev)
          /\ cdev' = FALSE /\ devnode' = FALSE /\ ioctl_devices' = "freed"
     ELSE UNCHANGED <<cdev, devnode, ioctl_devices, wrong>>
  /\ Then("release")
  /\ UNCHANGED <<hw3, ret, i, region, ioctl_class, hooks, Lock, procs, failed>>

(* ... the class (the kernel ignores an error pointer) and the region;     *)
(* then the driver's code is freed, whoever is executing it.               *)
ReleaseRest ==
  /\ Step("release")
  /\ ioctl_class' = "null"
  /\ wrong' = Releases("region", region)
  /\ region' = FALSE
  /\ hw3' = "out" /\ Then("none")
  /\ UNCHANGED <<ret, i, ioctl_devices, cdev, devnode, hooks, Lock, procs, failed>>

(***************************************************************************)
(* The other processes.                                                    *)
(***************************************************************************)
(* A system call is dispatched through the table into a wrapper ...        *)
EnterWrapper(p, c) ==
  /\ proc[p] = "user" /\ table[c] = "hook"
  /\ proc' = [proc EXCEPT ![p] = c]
  /\ UNCHANGED <<script, device, hooks, Lock, fds, failed, wrong>>

(* ... which ends in the call of the original.                             *)
CallOriginal(p) ==
  /\ proc[p] \in Call
  /\ hw3 # "out" /\ original[proc[p]] = "orig"
  /\ proc' = [proc EXCEPT ![p] = "user"]
  /\ UNCHANGED <<script, device, hooks, Lock, fds, failed, wrong>>

(* The device can be opened as soon as its node is there, while init is    *)
(* still running.                                                          *)
OpenDevice(p) ==
  /\ devnode /\ cdev /\ p \notin fds
  /\ hw3 \in {"init", "live"}
  /\ fds' = fds \cup {p}
  /\ UNCHANGED <<script, device, hooks, Lock, proc, failed, wrong>>

(* ioctl_funcs takes Lock, ioctl_device.c:57.                              *)
EnterIoctl(p) ==
  /\ p \in fds /\ hw3 # "out" /\ proc[p] = "user"
  /\ proc' = [proc EXCEPT ![p] = "ioctl"]
  /\ UNCHANGED <<script, device, hooks, Lock, fds, failed, wrong>>

LeaveIoctl(p) ==
  /\ proc[p] = "ioctl"
  /\ proc' = [proc EXCEPT ![p] = "user"]
  /\ UNCHANGED <<script, device, hooks, Lock, fds, failed, wrong>>

CloseDevice(p) ==
  /\ p \in fds /\ proc[p] = "user"
  /\ fds' = fds \ {p}
  /\ UNCHANGED <<script, device, hooks, Lock, proc, failed, wrong>>

-----------------------------------------------------------------------------
Init ==
  /\ hw3 = "out" /\ at = "none" /\ ret = "ok" /\ i = 0
  /\ region = FALSE /\ ioctl_class = "null" /\ ioctl_devices = "null"
  /\ cdev = FALSE /\ devnode = FALSE
  /\ syscall_table = "null"
  /\ table = [c \in Call |-> "orig"] /\ original = [c \in Call |-> "null"]
  /\ Lock = "zero"
  /\ proc = [p \in Proc |-> "user"] /\ fds = {}
  /\ failed = {} /\ wrong = {}

Load ==
  \/ Insmod \/ AllocRegion \/ CreateClass \/ AllocDevices \/ AddCdev \/ CreateNode
  \/ KernelVersion \/ FindTable \/ SaveOriginal \/ Hook \/ InitMutex
Unload == Rmmod \/ Unhook \/ DestroyDevice \/ ReleaseRest
Use(p) ==
  \/ \E c \in Call : EnterWrapper(p, c)
  \/ CallOriginal(p) \/ OpenDevice(p) \/ EnterIoctl(p) \/ LeaveIoctl(p) \/ CloseDevice(p)

Next == Load \/ Unload \/ \E p \in Proc : Use(p)

Spec == Init /\ [][Next]_vars

-----------------------------------------------------------------------------
(* Type invariant: what the driver's statics, the table and the processes  *)
(* can hold; an original is never a hook of an earlier load.               *)
TypeOK ==
  /\ hw3 \in {"out", "init", "live", "exit", "oops"}
  /\ at \in {"none", "region", "class", "devices", "cdev", "node", "version", "map",
             "save", "hook", "mutex", "unhook", "destroy", "release"}
  /\ ret \in {"ok", "ENOMEM"}
  /\ i \in 0..9
  /\ {region, cdev, devnode} \subseteq BOOLEAN
  /\ ioctl_class \in {"null", "ok", "err"}
  /\ ioctl_devices \in {"null", "ok", "freed"}
  /\ syscall_table \in {"null", "found"}
  /\ table \in [Call -> {"orig", "hook"}]
  /\ original \in [Call -> {"null", "orig"}]
  /\ Lock \in {"zero", "init"}
  /\ proc \in [Proc -> Call \cup {"user", "ioctl"}]
  /\ fds \in SUBSET Proc
  /\ failed \in SUBSET FailureKind
  /\ wrong \in SUBSET {"cdev", "region"}

(* At every step of init and exit, an entry of the table that is hooked    *)
(* leads to a wrapper that is loaded and that knows the original.          *)
WrappersReach == \A c \in Call : table[c] = "hook" => hw3 # "out" /\ original[c] = "orig"

(* A loaded driver has hooked all the calls it hooks, or none of them: the *)
(* latter exactly if the search for the table failed, which is no error.   *)
AllOrNothing ==
  hw3 = "live" =>
    {c \in Call : table[c] = "hook"} =
      IF failed \cap {"alloc", "absent"} = {} THEN ToSet(HookOrder) ELSE {}

(* The BUG_ON of ioctl_destroy_device (line 187) never strikes, and the    *)
(* class that device_destroy is given is a real one.                       *)
DestroysWithClass == at = "destroy" /\ ioctl_devices # "null" => ioctl_class = "ok"

(* A driver that is gone has left nothing behind: no hooked or lost entry  *)
(* of the table, and none of the kernel's resources, whichever of them it  *)
(* failed to get.  Only an init that returns an error leaves its device.   *)
NothingLeft ==
  hw3 = "out" /\ "kzalloc" \notin failed =>
    /\ table = [c \in Call |-> "orig"]
    /\ ~region /\ ~cdev /\ ~devnode

(* exit releases only what init got, unless it was the region, the cdev or *)
(* the node that init did not get.                                         *)
ReleasesHeld == failed \cap {"region", "cdev", "node"} = {} => wrong = {}

(* main.c:32: nobody is inside ioctl_funcs before the mutex that it takes  *)
(* has been initialised.                                                   *)
IoctlMutex == \A p \in Proc : proc[p] = "ioctl" => Lock = "init"

(* The comment at ioctl_device.c:205: ioctl_cleanup is never called if     *)
(* alloc_chrdev_region has failed.                                         *)
CleanupAfterRegion == at \in {"destroy", "release"} => region

(* The comment at ioctl_device.c:196: exit gets rid of character devices   *)
(* if any exist.                                                           *)
DestroysExisting == at = "destroy" /\ ioctl_devices # "null" => cdev

(* A failure that init looks for and reports does not crash it.            *)
NoOops == hw3 # "oops"
=============================================================================
