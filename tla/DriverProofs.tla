---------------------------- MODULE DriverProofs ----------------------------
(***************************************************************************)
(* Theorems about Driver, for any processes and whatever may fail.  One    *)
(* inductive invariant carries all of them: it says, for each step of init *)
(* and exit, what has been acquired, saved and hooked when the script is   *)
(* there, and which failures have led to it.                               *)
(***************************************************************************)
EXTENDS Driver, TLAPS

Hooked      == ToSet(HookOrder)
HookedNow   == {c \in Call : table[c] = "hook"}
Done(order) == {order[k] : k \in 1 .. i}
AllSaved    == \A c \in Hooked : original[c] = "orig"

Device    == {"region", "class", "devices", "cdev", "node"}
Search    == {"version", "map"}
Looping   == {"save", "hook", "unhook"}
Loading   == Device \cup Search \cup {"save", "hook", "mutex"}
Unloading == {"unhook", "destroy", "release"}

(* Where the script is and what the module is doing go together.           *)
Stage ==
  /\ at \in Loading <=> hw3 = "init"
  /\ at \in Unloading <=> hw3 = "exit"
  /\ at \notin Looping => i = 0
  /\ hw3 \in {"init", "live"} => wrong = {}

(* What is hooked, and that its original is known.                         *)
Entries ==
  /\ at \in Device \cup Search => syscall_table = "null"
  /\ at \in Looping => syscall_table = "found"
  /\ at \in Device \cup Search \cup {"save", "destroy", "release"} => HookedNow = {}
  /\ hw3 \in {"out", "oops"} => HookedNow = {}
  /\ at = "save" => \A c \in Done(SaveOrder) : original[c] = "orig"
  /\ at \in {"hook", "unhook"} => AllSaved
  /\ at = "hook" => HookedNow = Done(HookOrder)
  /\ at = "unhook" => HookedNow = Hooked \ Done(UnhookOrder)
  /\ at = "mutex" \/ hw3 = "live" =>
       IF syscall_table = "found" THEN HookedNow = Hooked /\ AllSaved ELSE HookedNow = {}

(* Which failures have led here: without the table, one that is no error   *)
(* or the one that is.                                                     *)
Causes ==
  /\ ret = "ENOMEM" => "kzalloc" \in failed
  /\ hw3 = "live" => ret = "ok"
  /\ at = "mutex" /\ ret # "ok" => syscall_table = "null"
  /\ at \in Device \cup Search \cup {"save", "hook"} =>
       failed \cap {"alloc", "absent"} = {} /\ ret = "ok"
  /\ (at = "mutex" /\ ret = "ok") \/ hw3 = "live" =>
       (syscall_table = "found" <=> failed \cap {"alloc", "absent"} = {})

(* Which of the kernel's resources are held at each step.                  *)
Resources ==
  /\ devnode => cdev
  /\ at \in Device => ~devnode
  /\ at \in {"region", "class", "devices", "cdev"} => ~cdev
  /\ at \in {"region", "class", "devices"} => ioctl_devices = "null"
  /\ at \in {"cdev", "node"} => ioctl_devices = "ok"
  /\ at = "devices" => ioctl_class = "ok"
  /\ at = "region" => ~region
  /\ at \in Device \ {"region"} => region
  /\ at \in Device => failed = {}
  /\ at = "node" => cdev
  /\ cdev => ioctl_devices = "ok"
  /\ hw3 \in {"init", "live", "exit"} =>
       /\ ioctl_devices # "null" => ioctl_class = "ok"
       /\ at # "region" /\ "region" \notin failed => region
       /\ at # "cdev" /\ ioctl_devices = "ok" /\ failed \cap {"cdev", "node"} = {} => cdev
  /\ at = "release" => ~cdev
  /\ hw3 = "out" /\ "kzalloc" \notin failed => ~region /\ ~cdev

IInv == TypeOK /\ Stage /\ Entries /\ Causes /\ Resources /\ ReleasesHeld

-----------------------------------------------------------------------------
(* The three lists name the same ten calls, whatever their order.          *)
LEMMA OrderLength ==
  Len(SaveOrder) = 10 /\ Len(HookOrder) = 10 /\ Len(UnhookOrder) = 10
BY DEF SaveOrder, HookOrder, UnhookOrder

LEMMA OrderSet ==
  /\ Hooked = {SaveOrder[k] : k \in 1 .. 10}
  /\ Hooked = {HookOrder[k] : k \in 1 .. 10}
  /\ Hooked = {UnhookOrder[k] : k \in 1 .. 10}
  /\ Hooked \subseteq Call
BY OrderLength DEF Hooked, Call, ToSet, SaveOrder, HookOrder, UnhookOrder

(* One turn of a loop over a list adds one entry to what is done; the last *)
(* one completes it.                                                       *)
LEMMA DoneNext ==
  ASSUME NEW order, i \in 0 .. 9
  PROVE  /\ {order[k] : k \in 1 .. i + 1} = Done(order) \cup {order[i + 1]}
         /\ i = 0 => Done(order) = {}
         /\ i = 9 => {order[k] : k \in 1 .. 10} = Done(order) \cup {order[i + 1]}
BY DEF Done

LEMMA InvInit == Init => IInv
<1> SUFFICES ASSUME Init PROVE IInv
  OBVIOUS
<1> USE DEF Init
<1>1. TypeOK
  <2>1. table \in [Call -> {"orig", "hook"}] /\ original \in [Call -> {"null", "orig"}]
    OBVIOUS
  <2>2. {region, cdev, devnode} \subseteq BOOLEAN
    OBVIOUS
  <2> QED
    BY <2>1, <2>2 DEF TypeOK
<1>2. Stage /\ Causes /\ Resources /\ ReleasesHeld
  BY DEF Stage, Causes, Resources, ReleasesHeld, Loading, Unloading, Looping, Device, Search
<1>3. Entries
  BY DEF Entries, HookedNow, Device, Search, Looping
<1> QED
  BY <1>1, <1>2, <1>3 DEF IInv

(* Every step of init and exit keeps the types ...                         *)
LEMMA TypeStep ==
  ASSUME IInv, Load \/ Unload
  PROVE  TypeOK'
<1> USE DEF IInv, TypeOK, Step, Then, Works, Fails, FailureKind, Releases, device, hooks, procs
<1>1. CASE Insmod
  BY <1>1 DEF Insmod
<1>2. CASE AllocRegion
  BY <1>2, ZenonT(40) DEF AllocRegion
<1>3. CASE CreateClass
  BY <1>3 DEF CreateClass
<1>4. CASE AllocDevices
  BY <1>4 DEF AllocDevices
<1>5. CASE AddCdev
  BY <1>5, ZenonT(40) DEF AddCdev
<1>6. CASE CreateNode
  BY <1>6, ZenonT(40) DEF CreateNode
<1>7. CASE KernelVersion
  BY <1>7, ZenonT(40) DEF KernelVersion
<1>8. CASE FindTable
  BY <1>8, ZenonT(40) DEF FindTable
<1>9. CASE SaveOriginal
  <2>1. i' \in 0 .. 9 /\ at' \in {at, "hook"}
    BY <1>9, OrderLength DEF SaveOriginal, Advance
  <2>2. \A c \in Call : table[c] = "orig"
    BY <1>9 DEF SaveOriginal, Entries, HookedNow
  <2> QED
    BY <1>9, <2>1, <2>2, ZenonT(40) DEF SaveOriginal
<1>10. CASE Hook
  <2>1. i' \in 0 .. 9 /\ at' \in {at, "mutex"}
    BY <1>10, OrderLength DEF TypeOK, Hook, Advance
  <2> QED
    BY <1>10, <2>1, ZenonT(40) DEF Hook
<1>11. CASE InitMutex
  BY <1>11 DEF InitMutex
<1>12. CASE Rmmod
  BY <1>12 DEF Rmmod
<1>13. CASE Unhook
  <2>1. i' \in 0 .. 9 /\ at' \in {at, "destroy"}
    BY <1>13, OrderLength DEF TypeOK, Unhook, Advance
  <2>2. UnhookOrder[i + 1] \in Hooked /\ AllSaved
    BY <1>13, OrderSet DEF TypeOK, Unhook, Entries
  <2> QED
    BY <1>13, <2>1, <2>2, ZenonT(40) DEF Unhook, AllSaved
<1>14. CASE DestroyDevice
  BY <1>14 DEF DestroyDevice
<1>15. CASE ReleaseRest
  BY <1>15 DEF ReleaseRest
<1> QED
  BY <1>1, <1>2, <1>3, <1>4, <1>5, <1>6, <1>7, <1>8, <1>9, <1>10, <1>11, <1>12, <1>13, <1>14, <1>15 DEF Load, Unload

(* ... the order of the steps, ...                                          *)
LEMMA StageStep ==
  ASSUME IInv, Load \/ Unload
  PROVE  Stage'
<1> USE DEF IInv, Stage, Loading, Unloading, Looping, Device, Search, Step, Then
<1>1. CASE Insmod
  BY <1>1 DEF Insmod
<1>2. CASE AllocRegion
  BY <1>2 DEF AllocRegion
<1>3. CASE CreateClass
  BY <1>3 DEF CreateClass
<1>4. CASE AllocDevices
  BY <1>4 DEF AllocDevices
<1>5. CASE AddCdev
  BY <1>5 DEF AddCdev
<1>6. CASE CreateNode
  BY <1>6 DEF CreateNode
<1>7. CASE KernelVersion
  BY <1>7 DEF KernelVersion
<1>8. CASE FindTable
  BY <1>8 DEF FindTable
<1>9. CASE SaveOriginal
  BY <1>9, OrderLength DEF TypeOK, SaveOriginal, Advance
<1>10. CASE Hook
  BY <1>10, OrderLength DEF TypeOK, Hook, Advance
<1>11. CASE InitMutex
  BY <1>11 DEF InitMutex
<1>12. CASE Rmmod
  BY <1>12 DEF Rmmod
<1>13. CASE Unhook
  BY <1>13, OrderLength DEF TypeOK, Unhook, Advance
<1>14. CASE DestroyDevice
  BY <1>14 DEF DestroyDevice
<1>15. CASE ReleaseRest
  BY <1>15 DEF ReleaseRest
<1> QED
  BY <1>1, <1>2, <1>3, <1>4, <1>5, <1>6, <1>7, <1>8, <1>9, <1>10, <1>11, <1>12, <1>13, <1>14, <1>15 DEF Load, Unload

(* ... what has failed, ...                                               *)
LEMMA CausesStep ==
  ASSUME IInv, Load \/ Unload
  PROVE  Causes'
<1> USE DEF IInv, Stage, Causes, Entries, Loading, Unloading, Looping, Device, Search, Step, Then, Works, Fails, hooks
<1>1. CASE Insmod
  BY <1>1 DEF Insmod
<1>2. CASE AllocRegion
  BY <1>2 DEF AllocRegion
<1>3. CASE CreateClass
  BY <1>3 DEF CreateClass
<1>4. CASE AllocDevices
  BY <1>4 DEF AllocDevices
<1>5. CASE AddCdev
  BY <1>5 DEF AddCdev
<1>6. CASE CreateNode
  BY <1>6 DEF CreateNode
<1>7. CASE KernelVersion
  BY <1>7 DEF KernelVersion
<1>8. CASE FindTable
  BY <1>8 DEF FindTable
<1>9. CASE SaveOriginal
  BY <1>9, OrderLength DEF TypeOK, SaveOriginal, Advance
<1>10. CASE Hook
  BY <1>10, OrderLength DEF TypeOK, Hook, Advance
<1>11. CASE InitMutex
  BY <1>11 DEF InitMutex
<1>12. CASE Rmmod
  BY <1>12 DEF Rmmod
<1>13. CASE Unhook
  BY <1>13, OrderLength DEF TypeOK, Unhook, Advance
<1>14. CASE DestroyDevice
  BY <1>14 DEF DestroyDevice
<1>15. CASE ReleaseRest
  BY <1>15 DEF ReleaseRest
<1> QED
  BY <1>1, <1>2, <1>3, <1>4, <1>5, <1>6, <1>7, <1>8, <1>9, <1>10, <1>11, <1>12, <1>13, <1>14, <1>15 DEF Load, Unload

(* ... and what is held and given back.                                   *)
LEMMA ResourcesStep ==
  ASSUME IInv, Load \/ Unload
  PROVE  (Resources /\ ReleasesHeld)'
<1> USE DEF IInv, TypeOK, Stage, Causes, Resources, ReleasesHeld, Releases, Loading, Unloading, Looping, Device, Search, Step, Then, Works, Fails, device
<1>1. CASE Insmod
  BY <1>1 DEF Insmod
<1>2. CASE AllocRegion
  BY <1>2 DEF AllocRegion
<1>3. CASE CreateClass
  BY <1>3 DEF CreateClass
<1>4. CASE AllocDevices
  BY <1>4 DEF AllocDevices
<1>5. CASE AddCdev
  BY <1>5 DEF AddCdev
<1>6. CASE CreateNode
  <2>1. at = "node" /\ at' = "version" /\ cdev /\ ~devnode /\ failed = {} /\ wrong = {}
    BY <1>6 DEF CreateNode
  <2>2. UNCHANGED <<hw3, region, ioctl_class, ioctl_devices, wrong>>
    BY <1>6 DEF CreateNode
  <2>3. CASE failed' = {} /\ devnode' = TRUE /\ cdev' = cdev
    BY <2>1, <2>2, <2>3
  <2>4. CASE "node" \in failed' /\ cdev' = FALSE /\ devnode' = devnode
    BY <2>1, <2>2, <2>4
  <2> QED
    BY <1>6, <2>1, <2>3, <2>4 DEF CreateNode
<1>7. CASE KernelVersion
  BY <1>7 DEF KernelVersion
<1>8. CASE FindTable
  BY <1>8 DEF FindTable
<1>9. CASE SaveOriginal
  BY <1>9 DEF SaveOriginal, Advance
<1>10. CASE Hook
  BY <1>10 DEF Hook, Advance
<1>11. CASE InitMutex
  BY <1>11 DEF InitMutex
<1>12. CASE Rmmod
  BY <1>12 DEF Rmmod
<1>13. CASE Unhook
  BY <1>13 DEF Unhook, Advance
<1>14. CASE DestroyDevice
  BY <1>14 DEF DestroyDevice
<1>15. CASE ReleaseRest
  BY <1>15 DEF ReleaseRest
<1> QED
  BY <1>1, <1>2, <1>3, <1>4, <1>5, <1>6, <1>7, <1>8, <1>9, <1>10, <1>11, <1>12, <1>13, <1>14, <1>15 DEF Load, Unload
(* The table, entry by entry.                                              *)
LEMMA EntriesStep ==
  ASSUME IInv, Load \/ Unload
  PROVE  Entries'
<1> USE DEF IInv, Stage, Entries, Loading, Unloading, Looping, Device, Search, Step, Then, Works, Fails, hooks
<1>1. CASE Insmod
  <2>1. UNCHANGED HookedNow
    BY <1>1 DEF Insmod, HookedNow, AllSaved
  <2> QED
    BY <1>1, <2>1 DEF Insmod
<1>2. CASE AllocRegion
  <2>1. UNCHANGED <<HookedNow, AllSaved>>
    BY <1>2 DEF AllocRegion, HookedNow, AllSaved
  <2> QED
    BY <1>2, <2>1 DEF AllocRegion
<1>3. CASE CreateClass
  <2>1. UNCHANGED <<HookedNow, AllSaved>>
    BY <1>3 DEF CreateClass, HookedNow, AllSaved
  <2> QED
    BY <1>3, <2>1 DEF CreateClass
<1>4. CASE AllocDevices
  <2>1. UNCHANGED <<HookedNow, AllSaved>>
    BY <1>4 DEF AllocDevices, HookedNow, AllSaved
  <2> QED
    BY <1>4, <2>1 DEF AllocDevices
<1>5. CASE AddCdev
  <2>1. UNCHANGED <<HookedNow, AllSaved>>
    BY <1>5 DEF AddCdev, HookedNow, AllSaved
  <2> QED
    BY <1>5, <2>1 DEF AddCdev
<1>6. CASE CreateNode
  <2>1. UNCHANGED <<HookedNow, AllSaved>>
    BY <1>6 DEF CreateNode, HookedNow, AllSaved
  <2> QED
    BY <1>6, <2>1 DEF CreateNode
<1>7. CASE KernelVersion
  <2>1. UNCHANGED <<HookedNow, AllSaved>>
    BY <1>7 DEF KernelVersion, HookedNow, AllSaved
  <2> QED
    BY <1>7, <2>1 DEF KernelVersion
<1>8. CASE FindTable
  <2>1. UNCHANGED <<HookedNow, AllSaved>> /\ (i' = 0 => Done(SaveOrder)' = {})
    BY <1>8 DEF FindTable, HookedNow, AllSaved, Done
  <2> QED
    BY <1>8, <2>1 DEF FindTable
<1>9. CASE SaveOriginal
  <2> DEFINE c == SaveOrder[i + 1]
  <2>1. i \in 0 .. 9 /\ c \in Hooked /\ c \in Call
    BY OrderSet DEF TypeOK
  <2>2. \/ i' = i + 1 /\ at' = "save" /\ i # 9
        \/ i' = 0 /\ at' = "hook" /\ i = 9
    BY <1>9, <2>1, OrderLength DEF SaveOriginal, Advance
  <2>3. /\ at' = "save" => Done(SaveOrder)' = Done(SaveOrder) \cup {c}
        /\ at' = "hook" => Hooked = Done(SaveOrder) \cup {c} /\ i' = 0
    BY <2>1, <2>2, DoneNext, OrderSet DEF Done
  <2>4. HookedNow' = {} /\ table[c] = "orig" /\ original' = [original EXCEPT ![c] = "orig"]
    BY <1>9, <2>1 DEF SaveOriginal, HookedNow, TypeOK
  <2>5. \A d \in Done(SaveOrder) \cup {c} : original'[d] = "orig"
    BY <1>9, <2>1, <2>4, OrderSet DEF SaveOriginal, TypeOK, Done
  <2>6. at' = "hook" => Done(HookOrder)' = {}
    BY <2>3 DEF Done
  <2>7. hw3' = "init" /\ syscall_table' = "found"
    BY <1>9 DEF SaveOriginal
  <2> QED
    BY <2>2, <2>3, <2>4, <2>5, <2>6, <2>7 DEF AllSaved
<1>10. CASE Hook
  <2> DEFINE c == HookOrder[i + 1]
  <2>1. i \in 0 .. 9 /\ c \in Hooked /\ c \in Call
    BY OrderSet DEF TypeOK
  <2>2. \/ i' = i + 1 /\ at' = "hook" /\ i # 9
        \/ i' = 0 /\ at' = "mutex" /\ i = 9
    BY <1>10, <2>1, OrderLength DEF Hook, Advance
  <2>3. /\ at' = "hook" => Done(HookOrder)' = Done(HookOrder) \cup {c}
        /\ at' = "mutex" => Hooked = Done(HookOrder) \cup {c} /\ i' = 0
    BY <2>1, <2>2, DoneNext, OrderSet DEF Done
  <2>4. HookedNow' = HookedNow \cup {c}
    BY <1>10, <2>1 DEF Hook, HookedNow, TypeOK
  <2>5. AllSaved' /\ hw3' = "init" /\ syscall_table' = "found"
    BY <1>10 DEF Hook, AllSaved
  <2>6. HookedNow = Done(HookOrder)
    BY <1>10 DEF Hook
  <2> QED
    BY <2>2, <2>3, <2>4, <2>5, <2>6
<1>11. CASE InitMutex
  <2>1. UNCHANGED <<HookedNow, AllSaved>>
    BY <1>11 DEF InitMutex, HookedNow, AllSaved
  <2> QED
    BY <1>11, <2>1 DEF InitMutex, TypeOK, Causes
<1>12. CASE Rmmod
  <2>1. UNCHANGED <<HookedNow, AllSaved>> /\ Done(UnhookOrder)' = {}
    BY <1>12 DEF Rmmod, HookedNow, AllSaved, Done
  <2> QED
    BY <1>12, <2>1 DEF Rmmod
<1>13. CASE Unhook
  <2> DEFINE c == UnhookOrder[i + 1]
  <2>1. i \in 0 .. 9 /\ c \in Hooked /\ c \in Call
    BY OrderSet DEF TypeOK
  <2>2. \/ i' = i + 1 /\ at' = "unhook" /\ i # 9
        \/ i' = 0 /\ at' = "destroy" /\ i = 9
    BY <1>13, <2>1, OrderLength DEF Unhook, Advance
  <2>3. /\ at' = "unhook" => Done(UnhookOrder)' = Done(UnhookOrder) \cup {c}
        /\ at' = "destroy" => Hooked = Done(UnhookOrder) \cup {c} /\ i' = 0
    BY <2>1, <2>2, DoneNext, OrderSet DEF Done
  <2>4. HookedNow' = HookedNow \ {c}
    BY <1>13, <2>1 DEF Unhook, HookedNow, TypeOK, AllSaved
  <2>5. AllSaved' /\ hw3' = "exit" /\ syscall_table' = "found"
    BY <1>13 DEF Unhook, AllSaved
  <2>6. HookedNow = Hooked \ Done(UnhookOrder)
    BY <1>13 DEF Unhook
  <2> QED
    BY <2>2, <2>3, <2>4, <2>5, <2>6
<1>14. CASE DestroyDevice
  <2>1. UNCHANGED <<HookedNow, AllSaved>>
    BY <1>14 DEF DestroyDevice, HookedNow, AllSaved
  <2> QED
    BY <1>14, <2>1 DEF DestroyDevice
<1>15. CASE ReleaseRest
  <2>1. UNCHANGED <<HookedNow, AllSaved>>
    BY <1>15 DEF ReleaseRest, HookedNow, AllSaved
  <2> QED
    BY <1>15, <2>1 DEF ReleaseRest
<1> QED
  BY <1>1, <1>2, <1>3, <1>4, <1>5, <1>6, <1>7, <1>8, <1>9, <1>10, <1>11, <1>12, <1>13, <1>14, <1>15 DEF Load, Unload

(* The other processes move between user mode, wrappers and the device.    *)
LEMMA UseStep ==
  ASSUME IInv, NEW p \in Proc, Use(p)
  PROVE  IInv'
<1>1. UNCHANGED <<script, device, hooks, Lock, failed, wrong>>
  BY DEF Use, EnterWrapper, CallOriginal, OpenDevice, EnterIoctl, LeaveIoctl, CloseDevice
<1>2. proc' \in [Proc -> Call \cup {"user", "ioctl"}] /\ fds' \in SUBSET Proc
  BY DEF IInv, TypeOK, Use, EnterWrapper, CallOriginal, OpenDevice, EnterIoctl, LeaveIoctl, CloseDevice
<1>3. TypeOK'
  BY <1>1, <1>2 DEF IInv, TypeOK, script, device, hooks
<1>4. (Stage /\ Causes /\ Resources /\ ReleasesHeld)'
  BY <1>1 DEF IInv, Stage, Causes, Resources, ReleasesHeld, script, device, hooks
<1>5. Entries'
  BY <1>1 DEF IInv, Entries, HookedNow, AllSaved, Done, script, hooks
<1> QED
  BY <1>3, <1>4, <1>5 DEF IInv

LEMMA Inductive == IInv /\ [Next]_vars => IInv'
<1> SUFFICES ASSUME IInv, [Next]_vars PROVE IInv'
  OBVIOUS
<1>1. CASE Load \/ Unload
  BY <1>1, TypeStep, StageStep, EntriesStep, CausesStep, ResourcesStep DEF IInv
<1>2. ASSUME NEW p \in Proc, Use(p) PROVE IInv'
  BY <1>2, UseStep
<1>3. CASE UNCHANGED vars
  <2>1. TypeOK'
    BY <1>3 DEF IInv, TypeOK, vars, script, device, hooks, procs
  <2>2. (Stage /\ Causes /\ Resources /\ ReleasesHeld)'
    BY <1>3 DEF IInv, Stage, Causes, Resources, ReleasesHeld, vars, script, device, hooks
  <2>3. Entries'
    BY <1>3 DEF IInv, Entries, HookedNow, AllSaved, Done, vars, script, hooks
  <2> QED
    BY <2>1, <2>2, <2>3 DEF IInv
<1> QED
  BY <1>1, <1>2, <1>3 DEF Next

LEMMA Invariant == Spec => []IInv
BY InvInit, Inductive, PTL DEF Spec

-----------------------------------------------------------------------------
(* Every variable of the driver holds a value of its type at every step of *)
(* init and exit, whatever fails: no original is ever one of the driver's  *)
(* own wrappers.                                                           *)
THEOREM TypeCorrect == Spec => []TypeOK
BY Invariant, PTL DEF IInv

(* Whatever fails while the driver loads, a hooked entry of the table      *)
(* leads to a wrapper that is in memory and can reach the original call.   *)
THEOREM WrappersReachAlways == Spec => []WrappersReach
<1>1. IInv => WrappersReach
  BY OrderSet DEF IInv, TypeOK, Stage, Entries, WrappersReach, HookedNow, AllSaved, Done,
     Loading, Unloading, Looping, Device, Search
<1> QED
  BY <1>1, Invariant, PTL

(* A loaded driver has hooked all its calls, or none because the table was *)
(* not found.                                                              *)
THEOREM AllOrNothingAlways == Spec => []AllOrNothing
<1>1. IInv => AllOrNothing
  BY DEF IInv, Entries, Causes, AllOrNothing, Hooked, HookedNow
<1> QED
  BY <1>1, Invariant, PTL

(* The BUG_ON of ioctl_destroy_device never strikes.                       *)
THEOREM DestroysWithClassAlways == Spec => []DestroysWithClass
<1>1. IInv => DestroysWithClass
  BY DEF IInv, Stage, Resources, DestroysWithClass, Loading, Unloading, Device, Search
<1> QED
  BY <1>1, Invariant, PTL

(* A driver that is gone has left no hook and no resource behind, unless   *)
(* its init returned an error.                                             *)
THEOREM NothingLeftAlways == Spec => []NothingLeft
<1>1. IInv => NothingLeft
  BY DEF IInv, TypeOK, Entries, Resources, NothingLeft, HookedNow
<1> QED
  BY <1>1, Invariant, PTL

(* exit releases only what init got, but for the three failures named.     *)
THEOREM ReleasesHeldAlways == Spec => []ReleasesHeld
BY Invariant, PTL DEF IInv
=============================================================================
