# Loadable system call vectors, specified in TLA+

The repository (`src/hw3`) is a set of Linux kernel modules that give each process a
*system call vector*: a loadable module that its system calls pass through first, and a
bitmap of the calls it may make at all.  This directory models the kernel side in TLA+,
checks it with TLC and proves with TLAPS the safety properties that the runs check.  The last sections say what is left.

## 1. The system

| component | source | state it keeps | operations |
|---|---|---|---|
| IOCTL_SET and its helper | `ioctl_device.c` 6-101 | `task->sys_vector` (heap structure `{module_addr, sv}`), mutex `Lock` | `ioctl_funcs`, `get_ioctl_helper` |
| reference counts | `bitmap.c` 155-192 | `module_refcount` of each module (kernel) | `increment_module_rc`, `decrement_module_rc` |
| registration list | `bitmap.c` 74-153, `main.c` | `head_node`, cells `{module, next}` | `add_module`, `remove_module`, `get_module` |
| hooked calls | `syscall_new.c` 18-234 | none of their own; read `current->sys_vector` | ten wrappers, `new_exit_group` |
| system call table | `syscall_intercept.c`, `syscall_new.c` 236-278 | `syscall_table`, the table itself, `original_*` | find, save, hook, unhook |
| driver lifecycle | `main.c` 25-42, `ioctl_device.c` 107-209 | region, class, cdev, device node | `router_init`, `router_exit` |
| clone2 | `sys_clone2.c` | none | fork, then `get_ioctl_helper` on the child |
| trace module | `modules/trace_module.c` | one page, `vacant`, the log file | ten `trace_*`, init, exit |
| protect module | `modules/protect_module.c` | none | seven verdicts, by name or (write) by data |
| antivirus module | `modules/anti_module.c` | none of its own; two open files, buffers | on open: `check_in_blacklist`, a scan by pages |
| IOCTL_GET | `bitmap.c` 3-70, `ioctl_device.c` 74-100 | one page of text | `get_vector`: list, counts and attached processes, under `Lock` |
| patched kernel | not in the repository | `task_struct.sys_vector` | fork copies the parent's vector and counts it |

**How they interact.**  A user program issues IOCTL_SET(pid, vector, module) on `/dev/ioctl0`.
The helper looks the module up in the list, attaches or detaches the target process and moves
the module's count, which is what holds off `rmmod`.  From then on the wrappers of the hooked
calls of that process test the bitmap and call `sys_op` of the module it points to.  Fork copies
the attachment, the hooked `exit_group` gives it up, clone2 creates a child with an attachment
of its own.  Loadable modules enter and leave the list in their init and exit.

**What is hard.**  Only IOCTL_SET and IOCTL_GET take `Lock`.  clone2, the hooked exit, the
wrappers, fork, insmod and rmmod touch the same structures without it, in several separate
accesses each.  The list has no lock at all.  The trace page is shared by all traced processes
without a lock.  init goes on after most failures, so that exit meets every combination of
things acquired and not acquired.  The protect module judges names, while links and renames
move files between names.  The antivirus module reads both its files in pages and opens the
caller's file a first time before the caller's own open.  `PROJECT.json`, "hazards", lists each of these at its line.

**What makes it correct.**  Counts that equal the number of attached processes at every moment,
since that alone keeps module code in memory; one owner for every structure; a call that sees
one module and one bitmap; a list that is exactly what was registered; a table whose entries
always lead to loaded code that can reach the original; a trace that loses nothing and stays
in its page; no resource left behind or given back twice; a report that is true when it is
given; names that stand for the files behind them, whatever links are made; a scan that finds
what is there and nothing else, and an open that it does not disturb.

## 2. The modules

| module | models | abstracts from |
|---|---|---|
| `Registry` | what the driver promises: attach, detach, fork, exit, load, unload as single steps | everything else |
| `Router` | IOCTL_SET, clone2, exit_group, the hooked calls, the counts, and fork, reaping, signals, insmod, rmmod around them | walks of the list (in `ModuleList`), arguments of calls |
| `ModuleList` | the linked list on the heap, insmods, rmmods and walks, one access per action | what modules do |
| `Driver` | init and exit of hw3.ko, step by step with failures, while processes use calls and device | the search in the text of System.map |
| `TraceLog` | the trace page, byte by byte, and its flushes | the text of records: a record is its number, repeated over its length |
| `GetVector` | IOCTL_GET, access by access, among everything `Router` models | the text: a set of lines, a page has room for a number of them |
| `Protect` | the verdicts of the protect module and what the calls it lets pass do to names and files | directories as places: names are flat |
| `AntiScan` | `check_in_blacklist`: blacklist and file by pages, `strstr`, the step back | hex text: a number is the character it stands for |
| `AntiOpen` | the hooked open around the scan, again and again, while others change the path and the blacklist | what the file is used for afterwards |
| `MCRouter`, `MCModuleList`, `MCGetVector`, `MCAntiOpen`, `MCProtect` | constants and symmetry for TLC | |
| `RouterProofs`, `RegistryProofs`, `ModuleListProofs`, `DriverProofs`, `TraceLogProofs`, `GetVectorProofs`, `ProtectProofs`, `AntiOpenProofs` | theorems | |

`Router` instantiates `Registry` through a refinement mapping (`Promised`).  `GetVector` extends
`Router` and `AntiOpen` extends `AntiScan`: each adds an actor to the module it extends, whose steps
stay as they are.

### Router

One action is one access to shared memory with the local tests after it; `pc[t]` says where
process t is in the driver, `req[t]` holds the arguments of its operation, `node[t]` the local
`struct module_reg` pointer.

| actions | code |
|---|---|
| `IoctlSet`, `AcquireLock`, `CopyFails`, `Unlock` | `ioctl_funcs`, `ioctl_device.c` 50-101 |
| `Find`, `Peek`, `ReadOld` | lines 10-30 of the helper, and the read of the old module (16, 37, 38) |
| `DecrementTest`, `DecrementPut` | `bitmap.c` 176-187 and 189: the count is tested, then put |
| `FreeVector`, `ClearVector` | lines 17, 18; `syscall_new.c` 53, 54 |
| `AllocVector`, `FirstModule`, `Increment`, `SwitchModule`, `SetVector` | lines 31-34, 35, 36/39, 42, 43 |
| `ExitGroup` ... `Die` | `new_exit_group`: the accesses of a detach aimed at the process itself |
| `BeginCall`, `Gate`, `ReadNode`, `EnterModule`, `LeaveModule` | any other wrapper, e.g. `new_close` |
| `Clone2` | `sys_clone2`, which then takes the helper's steps without `Lock` |
| `Fork`, `Kill`, `Reap`, `BeginUnload` | external: the kernel |
| `LoadModule`, `FinishUnload` | `module_register`, `module_deregister` |

An access through NULL, through uninitialised or freed memory, or into a module that is gone
is the action `Oops`: the process dies where it stands, holding `Lock` if it has it.  `Hazards`
names the overlaps and failures that the environment may produce; each is a disjunct of a guard.
With `Hazards = {}`:

* no process runs, forks or exits while a SET of another process aims at it.  README.HW3
  describes every experiment like that: the target sleeps 40 seconds in which it is set;
* no SET aims at a child that clone2 is still setting up;
* rmmod does not begin during a SET, nor a SET during rmmod;
* no process dies by a signal and no `kmalloc` fails.

Everything else overlaps freely: SETs of several processes on each other's and on common
targets, calls, forks, exits, loads and unloads.  What the guards above keep apart the passing runs
do not show; section 3 lists the configurations that let each in, and what fails then.

Abstractions worth knowing: pids are not reused.  A module loaded again is the same module.
Fork is atomic and gives the child a structure of its own, a copy of its parent's: the fork is
patched kernel code that the repository does not hold, and README.HW3:215 ("the parent process's structure is
mem copied to child process's structure") can also be read as a copy of the task alone, which leaves both with one pointer.  Ownership and counts
rest on this reading.  A failed `_do_fork` leaves `pid_task` with no task.
A child may also start without a vector (the flag of the original clone).  `__module_get` and
`module_put` are atomic, as they are in the kernel.

### ModuleList

`head_node`, `module`, `next` and the set `used` of allocated cells are the heap; `curr`, `prev`
and `new_node` are the C locals.  `order` (registered modules in order), `always` and `ever`
(modules in the list all through, or at some time of, a walk) are history and read by no guard.
`kfree` does not clear the cell, and a cell can be allocated again, so that stale pointers have
their real effect.  `Hazards`: "writers" lets insmods and rmmods overlap, "readers" lets walks
overlap removals (walks overlap insmods always), "oom" fails `kmalloc`.

### Driver

`at` is the next step of init or exit, `i` the position in a loop over the table.  `table` holds
"orig" or "hook" per call; two processes enter wrappers through the table at any time, return
to the original, and open, use and close the device, also while init is running.  `Failures`
says what may fail.  `failed` (what has failed in this load) and `wrong` (what its exit released
without holding it) are history and read by no guard; the properties that fail after particular
failures are stated as conditional on `failed`, so that one run covers every combination.  A table that is not found is
no error: init succeeds and has hooked nothing, which `AllOrNothing` therefore allows; and READ, which the README
lists among the hooked calls (523), has a wrapper that is never put into the table.  A
process can be in a wrapper when exit frees the code: it then never leaves it, as
`CallOriginal` needs the code.  insmod after an init that failed and left its device behind, or
while a process is still in freed code, is not modelled.

### TraceLog

`page` maps each offset of the page to the record whose byte it holds, `vacant` is the C counter.
A flush writes the bytes up to the first NUL, wherever it is; where the page has none, one junk
byte after it stands for what strlen finds beyond.  The ten `trace_*` functions differ in the
format string only and are one procedure.  `trace_init` is four steps, as its lines are: `RegisterModule`
and `OpenFile` (286, 287), `AllocPage` (288), `ResetVacant` (289).  The log append and `vacant -= n` are atomic; the
accesses before and between them are not.  A record that `kmalloc` had no memory for leaves no
trace in the code and none in the model.  `Hazards`: "callers" lets calls of two processes
overlap, "early" lets a process call while `trace_init` is still running (the module is in
the list before its page exists, and its page exists before `vacant` is reset), "oom" and "nofile" fail `kmalloc` of the page and `filp_open`.  `early` is history: the number of the last call that began before
`trace_init` was over.  A record that such a call counts between lines 288 and 289 is
overwritten (`TraceLog_early.cfg`), so that `NothingLost` and `InOrder` speak of the calls after it.

### GetVector

| actions | code |
|---|---|
| `GetLock`, `GetPage`, `GetUnlock` | `ioctl_device.c` 57, 76-80, 82-100 |
| `NextModule`, `WriteCount` | `bitmap.c` 22 and 63, 24-34 |
| `NextProcess`, `PeekVector`, `CompareType`, `WriteLine` | `bitmap.c` 37, 40, 42-44, 46-58 |
| `GetOops` | an access through a bad pointer, or text that does not fit in the page |
| `OtherStep` | any step of `Router`, with the history of the walk |

`Getter` is one more process, which issues IOCTL_GETs and competes for `Lock` with the IOCTL_SETs;
everything else that `Router` models happens between its accesses.  Modules and processes are
passed in any order, each at most once; a module that leaves the list can come again at its end.
`since` is history: whether a vector was half made when the GET began, and whether anything
has changed since then that was not done under `Lock`.  `Stale` gives the lines of text that a page
which nobody clears may already hold.  `Room` is any number of lines: the code appends without comparing with
PAGE_SIZE, and a text that is too long is an access outside the page (`GetOops`).  `GetSafe` is therefore conditional
on `Needed`, the text of the modules listed and the processes attached now, and `GetVector_room.cfg` shows
the overrun without that condition.

### Protect

`entry` is the meaning of each name (a file, a symbolic link, a directory or nothing),
`content` and `open` describe the files, `pending` is the call of each process that has been let
pass and not made yet.  A call is four steps, the verdict (`Pass`, `PassWrite`), the original call's own
read of the names (`Fetch`), the path walk (`Follow`) and what the call does (`Open`, `Write`, `Unlink`, `Rmdir`, `Make`, `Rename`, `Fail`), so
that another process can change the names in between.  The module reads the names where the user has them
(`protect_module.c` 8) and the original call reads them there again (`syscall_new.c` 203), so that `Fetch` may find any
other names.  `swapped` is history: whether a protected name has ever been found where an unprotected
one was tested.  After that nothing is promised (`Protect_swap.cfg`).  `Tested` and `Guarded` are the
module: which calls have a verdict and on which of their names.  link, symlink and rename pass
their two names as two `va_arg` in one argument list, which C does not order: `order` says which
one the build takes for the name to be tested, and every property says for which build it
holds.  `protect_write` looks at the data and not at a name: it may let any write pass.  The
kernel's own calls are external.

### AntiScan, AntiOpen

| actions | code (`modules/anti_module.c`) |
|---|---|
| `Start` | 98-110: buffers, and the size of the file, read once |
| `LoadPage`, `Kept` | 115-122, 25-40: a page of the blacklist, cut at its last line end |
| `NextLine`, `convert` | 126-152, 60-83: `strsep`, and the pattern |
| `ScanPage`, `ReadFails` | 153-172: a page of the file, `strstr`, and the step back by the length of the pattern |
| `EndOfFile`, `EndOfList`, `Answer` | 153, 112, 176-186 |
| `CallOpen`, `OriginalOpen` | `new_open`, `syscall_new.c` 186-203 |
| `OpenBlacklist`, `OpenInput`, `Scanning`, `Verdict` | `anti_open`, 199-269 |
| `Others`, `WriteFile`, `EditBlacklist` | other processes: write, truncate, remove and make the file, append to the blacklist |

Text is a sequence of characters, so that line ends, commas and page boundaries fall where
they do in the code; `Page` is PAGE_SIZE.  `f_pos`, `file_size` and `blacklist_fp` are the C variables,
among them the position that the step back can take below 0.  `Infected` and `Listed` are the
reference: a pattern of the blacklist, read as a whole, occurs in the file, read as a whole.
`WellFormed` names the blacklists for which reading by pages means the same: every line has its end
and its comma, is shorter than a page, and no lines fill a page exactly.  The hazard "change"
lets others write the file during a scan as well; "oom" fails `kmalloc`.

## 3. What TLC checks

All passing runs cover their whole state space.

| run | instance | properties | what it shows |
|---|---|---|---|
| `router_quiet` | 3 processes (2 setters), 2 modules, 2 calls, 3 structures, no hazard | `NoOops` `RefExact` `OneOwner` `CallConsistent` | counts exact at every access, one owner, a call goes where the bitmap it has passed permits, into a module that stays |
| `router_registry` | 3 processes (1 setter), 1 call | `ImplementsRegistry` | the access-by-access driver implements the one-step table |
| `router_live` | 2 processes, 2 modules, signals, failing allocations, `FairSpec` | `SetReturns` `ExitEnds` `TypeOK` `IoctlExclusive` `CountedLoaded` | a SET returns on every path unless a crash has taken the mutex along, exits end; SETs never overlap; counts lost to signals are never too small, so that modules stay |
| `list_quiet` | 3 modules, 1 reader, 3 cells | `NoOops` `ListIsOrder` `LookupExact` `NoLeak` | any order of loads and unloads, with a walk under way |
| `list_all` | 2 modules, 1 reader, 2 cells, every hazard | `TypeOK` `NoDoubleFree` | rmmod frees only its own cell, even on a corrupt list |
| `driver_load` | 2 processes, every failure | `TypeOK` `WrappersReach` `AllOrNothing` `DestroysWithClass` `NothingLeft` `ReleasesHeld` | no half-hooked table is ever unsafe, a loaded driver has hooked all its calls or none; `BUG_ON` never strikes; unloading leaves nothing and releases nothing twice, but for the exceptions below |
| `trace_serial` | page of 4, records of 1 to 3, 4 calls, no overlap; early calls, no page, no file | `TypeOK` `InPage` `NothingLost` `InOrder` | the buffer discipline: records of calls that began after `trace_init` are all kept, in order, whatever came before |
| `get_vector` | 2 processes (both setters) and the getter, 2 modules, 2 structures, a page of 5 lines, signals, failing allocations | `GetTypeOK` `GetExact` `GetSafe` `LockInside` | a GET reports each process under the module it is attached to and no other, as it is when the reply is given, unless a path without the mutex overlaps it; with SETs alone it crashes only if the text does not fit; nobody takes the mutex to user mode |
| `anti_open` | pages of 7, files of up to 7 bytes, blacklists of up to 9 characters from 3 lines, 5 sets of flags, regular files, devices, directories, `OpenFairSpec` | `OpenTypeOK` `VerdictExact` `ScanExact` `NoOops` `OpensAsUsualButExcl` `OpenEnds` | the verdict is that of the reference, no occurrence is lost or made up at a page boundary, every scan ends; an open returns and leaves what the kernel's would, over any sequence of opens |
| `protect` | 2 processes, 2 plain names and a protected one, 2 files, both builds | `TypeOK` `Sealed` `NamesStay` `NoneForged` | judging names seals the files behind them, or keeps files from getting protected names, depending on the build, until a protected name takes the place of a tested one |

The exceptions are part of the properties of `driver_load` and each is a fact about the code:
`NothingLeft` excludes a failed `kzalloc` (the only error that init returns; it leaves the
device behind), and `ReleasesHeld` a region, cdev or node that init did not get (exit releases them
all the same).

The violation runs each refute one statement of the repository (`PROJECT.json`, "findings"):

| run | what goes wrong |
|---|---|
| `router_exitrace` | a process exits, taking no mutex, while a SET aimed at it holds `Lock` and has not found it yet; the SET attaches the dead process, whose count is never given up |
| `anti_excl` | an open with O_CREAT and O_EXCL of a file that is not there fails: the scan's own open has made it |

More configurations stand beside these runs.  Each lets one hazard, failure or input in, and its
property, one of those above or one that quotes the documentation, fails:

| configuration | module | fails | what goes wrong |
|---|---|---|---|
| `Router_killcount` | `MCRouter` | `LsmodCount` | a killed process stays in the count of its module for ever |
| `Router_clonerace` | `MCRouter` | `LsmodCount` | clone2 and a SET on one child both do the first attach |
| `Router_callrace` | `MCRouter` | `CallsLand` | a call follows a vector that a SET has published and not filled in |
| `Router_rmmodrace` | `MCRouter` | `PointsIntoList` | a SET attaches to a module that rmmod has just removed |
| `GetVector_room` | `MCGetVector` | `RoomForAll` | the text of two modules and two processes runs over a page of five lines |
| `GetVector_exit` | `MCGetVector` | `NoGetOops` | an exit frees the vector that a GET has just tested |
| `GetVector_stale` | `MCGetVector` | `CleanReply` | the reply begins with whatever the page held |
| `ModuleList_insmods` | `MCModuleList` | `TracksLoaded` | two overlapping list changes lose a module |
| `ModuleList_readers` | `MCModuleList` | `NoOops` | a lookup goes on in a cell that rmmod has freed |
| `ModuleList_oom` | `MCModuleList` | `NoOops` | the failed allocation is reported, then used |
| `Driver_region` | `Driver` | `CleanupAfterRegion` | exit unregisters a region that init never got |
| `Driver_node` | `Driver` | `DestroysExisting` | exit deletes a character device that init has already deleted |
| `Driver_mutex` | `Driver` | `IoctlMutex` | the device is used before `mutex_init` |
| `Driver_crash` | `Driver` | `NoOops` | an error path of init crashes instead of reporting: no kernel version; with "open" for "version", no System.map |
| `TraceLog_callers` | `TraceLog` | `NothingLost` | two overlapping calls overwrite each other's record |
| `TraceLog_early` | `TraceLog` | `NoneLost` | the record of an early call is overwritten after line 289 |
| `TraceLog_stale` | `TraceLog` | `IsSequence` | a flush writes old records again |
| `Protect_swap` | `MCProtect` | `SealedAnyway` | the name that was tested is replaced before the original call reads it |
| `Protect_untouched` | `MCProtect` | `Untouched` | in a build that tests the new name, a file leaves its protected name |
| `AntiOpen_blank` | `MCAntiOpen` | `PresentIsVirus` | an empty line of the blacklist ends the whole scan |
| `AntiOpen_nul` | `MCAntiOpen` | `PresentIsVirus` | a byte 0 hides the rest of its page |
| `AntiOpen_aligned` | `MCAntiOpen` | `NeverOops` | lines that fill a page exactly leave it without a NUL |
| `AntiOpen_write` | `MCAntiOpen` | `NeverOops` | a file opened for writing only cannot be read, and the error is an index |
| `AntiOpen_change` | `MCAntiOpen` | `OpenEnds` | a file that shrinks during its scan is scanned for ever |

In `AntiOpen_change` the loop of the scan comes back to the state it was in, so that the cycle TLC prints
shows the others' steps alone.

**Why the bounds are enough.**  Two setters and one more process give a SET on oneself, on each
other, on a common target and on a forked or cloned child, with a waiter on the mutex; two
modules give a switch; `Vector` holds 0, which detaches, and one bitmap that permits one of two
calls.  Each process has at most one structure and a structure is freed before the next is
allocated, so as many addresses as processes are enough.  Pids are not reused, so that
`router_quiet` is finite without a further bound; a module can be loaded and unloaded for ever.  Three
modules give a list with a first, a middle and a last cell.  In `router_registry` there is one
setter, in `router_live` two processes, to keep the runs short; nothing in
those modules counts beyond two.  In `get_vector` both processes live from the start, so that forks and clones
do not occur in it: a child changes nothing about the getter but the number of processes it
passes.  Two modules give a switch, and a process that is not attached to the module the walk is at; with `Room` = 5 two modules
and one process fit, and two processes run over the page.  The trace page of 4 bytes holds one to four records; with 4
calls it is flushed up to three times.  `MaxCalls` is the only counter bound there.  In `anti_open` a file
of 7 bytes with pages of 7 (6 are read at once, line 156) is one page, one page and a byte, or
less; patterns of one and two bytes lie before, across and after the boundary; `MaxList` = 9 gives
blacklists of two or three lines over two pages.  The theorem `ScanExactAlways` covers the pages,
files and patterns that these leave out.  In `protect`, two plain names give a link to a link and
a rename over one, two files a file that is there and one that is made.  `Protect_names.cfg` has the
CONSTRAINT `~swapped`: a swap is never undone and the properties say nothing after one, so that the
states behind it are left out.
Of the passing runs, deadlock is checked in `router_quiet`, `router_registry`, `list_quiet` and `protect`.  Elsewhere the system may
really stop: an oops with `Lock` held, all processes dead, a device left behind by a failed
init, a process in freed code, a hit bound.

Symmetry (permutations of modules, addresses, cells) is used in invariant and refinement runs
only where the definitions treat those values alike; never in `router_live`.

**Fairness.**  `FairSpec` assumes weak fairness of each step that a process inside the driver
can take: the scheduler runs every runnable thread, and no such step waits for anything but
memory; a bad access counts among them.  Taking `Lock` has strong fairness: the kernel's mutex queues its waiters, so that one
that finds the mutex free again and again gets it.  `OpenFairSpec` assumes that the process inside its
open runs.  Nothing is assumed of user programs, other processes, signals, insmod and rmmod, and
nothing of `CopyFails`.

## 4. What is proved

Every safety invariant of a passing run and the refinement, for every value of the constants, from the
assumptions named in the modules.  A theorem that needs hazards absent says so in its statement, as
`ASSUME Hazards = {}` or the like; the others hold under all of them.  Section 3 has, for most of the hazards
that a theorem excludes, a configuration in which the property then fails.  Each inductive invariant below was checked by TLC on a small
instance before it was proved.

### RouterProofs

* `TypeCorrect`: `Spec => []TypeOK`, one step per action, under all hazards.
* `Exclusion`: `Spec => []IoctlExclusive`, under all hazards.  Exclusion is not inductive: nothing in
  it says that the process in the region is the one the mutex records.  `HolderLocked`, that
  every process between lines 57 and 94 is the value of `Lock`, is, and implies it.  The steps of
  clone2 and exit go through the same helper without the mutex: what tells them apart is `req[t].via`.

| theorem | property | hazards it allows |
|---|---|---|
| `CountedLoadedAlways` | `CountedLoaded` | "kill", "oom" |
| `NoOopsAlways` | `NoOops` | "kill" |
| `RefExactAlways` | `RefExact` | none |
| `OneOwnerAlways` | `OneOwner` | none |
| `ImplementsRegistryHolds` | `ImplementsRegistry` | none |
| `EntriesServedAlways` | `Promised!EntriesServed` | none |

(`CallConsistentAlways` is in the module too and says little: without "target" no SET works on
the vector of a process that is in a call, and what it adds to `CountedLoadedAlways` is that the module entered is the one
whose count includes the caller.  With "target" it is false of the code, as `Router_callrace` shows.)

They share one inductive invariant, `IInv`; a part that a hazard breaks is conditional on `Hazards`:

* `Shape`: types and `HolderLocked`; which arguments a process can have at each control point (`Phase`),
  that whoever works on a vector finds its task there (`Living`), and that two
  processes never work on the same vector (`Apart`).  `Apart` is what the mutex, the sleeping target and the child
  that only its creator knows come to, and all that follows rests on it.
* `Heap`: a process points to an allocated and filled structure, unless somebody is at one of the
  points where line 31 to 43 make it or 17 and 18 give it up; no two processes share one.
* `Seen`: what a process has read on the way is still so: the old module that is about to be
  put is the one in the structure, a call inside a module is still permitted by the bitmap it tested.
* `Counts`: `refcnt[m]` is at least the number of processes that `Counted` includes, and equal to it without
  a hazard.  `RefExact` alone is not inductive: at line 36 one must know that `Counted` does not hold yet, at
  `module_put` that it did.  A process that is killed leaves its part in the count for ever: "at least" is all
  that survives "kill".
* `Pinned`: a counted module is live.  It follows from `Counts` at the moment rmmod looks at the count.
* `Reachable`: every structure belongs to somebody, and no dead process has one.

For the refinement `Blank` adds that a structure nobody has filled in yet has no bitmap, so that
`AttachedEntry` gives no entry for it.  One step of the driver then maps to one of the table's or
to a stutter: line 42 is `Attach` (of the bitmap that line 43 is about to store), the step that gives the count up
is `Detach`, `Fork` and a successful clone2 are `Fork`, `Die` is `Exit`, the end of insmod and the start of rmmod are `Load` and
`Unload`; every other access, line 43 among them, stutters.

### RegistryProofs

* `TypeCorrect` and `AlwaysServed`: `Spec => []EntriesServed` of the
  abstract table, for a `None` that is not itself an entry.  `EntriesServed` is inductive
  together with the type invariant.  `RouterProofs!EntriesServedAlways` carries it over to the driver,
  by instantiating this module with the refinement mapping.

### ModuleListProofs

* `TypeCorrect` and `NoDoubleFreeAlways`, under all hazards.  `NoDoubleFree` needs `Found`: an rmmod
  that has found its cell holds one that is allocated and its own, however the links around it are.
* `ListIsOrderAlways` and `NoLeakAlways`: if insmods and rmmods do not overlap each other (`"writers" \notin Hazards`).
  The invariant, `Listing`, says that there is a sequence of cells, without repetition, that follows `next` from
  `head_node` to NULL (`Chain`) and holds the modules of `order` (`Listed`), that at most one insmod or rmmod is under way,
  and where in that sequence it is (`Place`): an insmod's `curr` is on it, and the cells
  before an rmmod's `curr` hold other modules.
  Walks that overlap removals and failing allocations disturb none of this.
* `LookupExactAlways`: if also no removal overlaps a walk.  `Looks` says that a walk has passed only other
  modules than the one it wants; that insmods only append is what keeps it.
* `NoOopsAlways`: with no hazard.

### DriverProofs

* `TypeCorrect`, `WrappersReachAlways`, `AllOrNothingAlways`, `DestroysWithClassAlways`, `NothingLeftAlways`,
  `ReleasesHeldAlways`: the six properties of the run `driver_load`, for any processes and any set
  of failures.  `IInv` says for each step of init and exit what has been acquired (`Resources`), what the
  table holds (`Entries`: the part of a list that a loop has done, as a set, is hooked, saved or unhooked, and
  nothing is hooked that is not saved) and which failures lead there (`Causes`).  That the three loops
  go over the same ten calls in three different orders is a lemma on the lists.

### TraceLogProofs

* `TypeCorrect`: under all hazards.
* `StaysInPage`, `NothingLostAlways`, `InOrderAlways`: if calls do not overlap (`"callers" \notin Hazards`);
  calls that come early and failures of `trace_init` included, and `NothingLost` and `InOrder` for the records of the others.  `InPage` is not
  inductive: that the record fits is decided at line 23 and used at line 28.  `Room` adds that
  only one process is busy, that a page just flushed is all vacant, and that at the copy the
  record is *shorter* than the room: the strict comparison is what keeps `vacant` positive after
  line 29, which the unsigned comparison of the next call relies on.  `trace_init` can still
  reset `vacant` under an early caller, but it then only grows, and what that caller has counted is text behind the filled part.
* For the other two, `LogInv` says what lies in the page: records in the order of their numbers in the filled part
  (`Sorted`), behind it only text of records that are in the log already (`Stale`), and each finished
  record whole in one of the two (`Kept`).  A flush writes up to the first NUL, past the filled part when
  stale text follows it: records are then in the log twice, but none for the first time out of order.

### GetVectorProofs

* `GetTypeCorrect`, `GetExclusion`, `LockInsideAlways`, `GetExactAlways`, `GetSafeAlways`: the properties of the run `get_vector`, under
  all hazards, for any number of modules and processes and a page of any size, or none.
  `LockInside` needs that a process which waits for the mutex is in ioctl_funcs, and that one past line 57 gets to line 94
  or crashes: its proof is by every step of the helper.
* `GetExact` and `GetSafe` share `Truthful`: unless a path without the mutex has changed something, the counts are
  those of the modules passed and the lines those of the processes compared with them (`Finished`), as they are
  *now*.  It is stable because of the mutex alone: while Getter holds it no SET is past line 57, so
  that a step that is not noted in `since` changes nothing.  Each process has at most one line, under the module it is
  attached to, so that what has been written is part of what `Needed` counts (`RoomLeft`); that this fits is a hypothesis of
  `GetSafe`, which nothing in the code sees to.

### ProtectProofs

* `TypeCorrect`, `SealedAlways`, `NamesStayAlways`, `NoneForgedAlways`: the four properties
  of the run `protect`, for any processes, names and files, as long as no protected name has taken the place of a tested one.  `Sealed` says nothing of names and of calls
  under way, and is not inductive.  `Clean` adds that no plain name is the name of a file that
  was born protected or a link to a protected name, and that no call let pass is about a protected name:
  links, renames and opens then only ever combine plain names.  The call is clean when it is tested, and still is when
  it has read its names again, unless that was a swap (`FetchFact`); before that read its names are not used.  For the other build, `NewClean` says
  that no call under way makes a protected name.

### AntiOpenProofs

* `TypeCorrect`: `OpenSpec => []OpenTypeOK`, under all hazards.
* `ScanExactAlways`: if nobody writes the file during a scan (`"change" \notin Hazards`),
  `OpenSpec => []ScanExact`, for every page size, file, pattern and blacklist.  The inductive
  invariant says what the scan knows on the way: `file_size` is what is left of the file after `f_pos`, no
  occurrence begins before `f_pos`, and none anywhere once `f_pos` is at the end.  The step back
  carries it over a page: what begins in the last bytes of a page, one fewer than the pattern has,
  is beyond the new `f_pos`.  `PageExact` is the argument for one page.  The lemmas on strings rest on least and greatest
  elements of sets of numbers, taken from the library's theorem on well-founded relations.
* `NoOopsAlways` and `VerdictExactAlways`: if also `kmalloc` succeeds.  `ListInv` is the blacklist's half: the unread
  rest of a page begins at `Cut` in the blacklist, which is the beginning of a line (`Placed`); the patterns of all lines before it
  have been looked for (`Behind`); and at the end the verdict's pattern is one of the list, or all of the list have been looked
  for (`Concluded`).  Lines that fit into a page make a pattern shorter than one, which keeps `f_pos` from going below 0.
* `OpensAsUsualButExclAlways`: the same, for files without NULs, carried through any sequence of opens by
  others and by the scan: the path that the original open meets is the one that the caller's open would have met, but
  for the file that the scan's own open may have made.

### Left to TLC

`SetReturns`, `ExitEnds` and `OpenEnds`, which are liveness: their fairness is beyond the installed provers.
The violation runs and the configurations beside the runs are counterexamples, found by TLC.

## 5. Plan

Done: every component that keeps state or decides anything is modelled; every safety property of a passing run is a theorem, with the hypotheses that its comment names.

Left:

1. Weaker hypotheses where the code may allow them: `RefExact` and `OneOwner` with failing allocations ("oom").
2. Safety arguments under the liveness properties: that a SET in ioctl_funcs can only go
   forward, as a measure that each step lowers, which leaves only the fairness to TLC.
3. What each finding needs of the environment, as a theorem: which single assumption on the caller restores the property.

## 6. Not modelled

* The user programs (`newclone.c` and `org_clone.c` among them) and scripts: single-threaded, they only choose inputs that the models
  already quantify over.
* `newioctl_device.c`, `jump_cp.c`: no rule of the Makefile builds them.
* How the text of System.map is searched (`syscall_intercept.c` 33-98), and the texts of messages and records.
* clone2's installation of the function pointer `sysptr`: the call it replaces lies in the
  patched kernel, which the repository does not hold.
* The width of the C integers that hold sizes.  README.HW3:576 claims files of any size, so that a file of 2 GB and more,
  whose size does not fit into the `int` of the scan, is in its scope and not in the model's.
* A path that the user rewrites between the antivirus module's open and the caller's own: `AntiOpen` has both open the same path,
  whose meaning others change in between.
