------------------------------ MODULE AntiOpen ------------------------------
(***************************************************************************)
(* open(2) of a process attached to the antivirus module: the hooked open  *)
(* (syscall_new.c, new_open) calls anti_open, which opens the blacklist    *)
(* and then the file WITH THE CALLER'S FLAGS, scans it (AntiScan), closes  *)
(* both; unless the file is infected, the original open follows.  The same *)
(* path is opened again and again, while other processes write, remove and *)
(* replace the file between the opens.                                     *)
(***************************************************************************)
EXTENDS AntiScan

CONSTANTS
  Flags,   \* the flags of open: sets of "creat", "excl", "trunc", "write"
  Kinds    \* what the path may name: "regular", "device", "dir"

ASSUME OpenAssumption ==
  /\ Flags \subseteq SUBSET {"creat", "excl", "trunc", "write"}
  /\ Kinds \subseteq {"regular", "device", "dir"}

VARIABLES
  exists, kind,   \* the path: is there a file, and of which kind
  listed,         \* /tmp/blacklist can be opened
  at,             \* where the process is in its open
  flags,          \* the flags it gave
  result,         \* what its last open returned
  before          \* history: the path as it was when the open began

Path == [exists |-> exists, kind |-> kind, file |-> file]
Fresh == [exists |-> FALSE, kind |-> "regular", file |-> <<>>]

path == <<exists, kind, listed>>
call == <<at, flags, result, before>>
allVars == <<vars, path, call>>

(***************************************************************************)
(* The kernel's open of the path, external: what it returns, and what the  *)
(* file holds afterwards.                                                  *)
(***************************************************************************)
Outcome(ex, fl) ==
  IF ~ex /\ "creat" \notin fl THEN "ENOENT"
  ELSE IF ex /\ {"creat", "excl"} \subseteq fl THEN "EEXIST"
  ELSE "fd"
Truncates(ex, fl) == Outcome(ex, fl) = "fd" /\ (~ex \/ "trunc" \in fl)

KernelOpen ==
  /\ exists' = (exists \/ Outcome(exists, flags) = "fd")
  /\ kind' = IF exists' /\ ~exists THEN "regular" ELSE kind
  /\ file' = IF Truncates(exists, flags) THEN <<>> ELSE file

(* The other processes: between two opens, and with the hazard "change"    *)
(* they write the file during one as well.                                 *)
Others ==
  /\ \/ /\ at = "user" \/ "change" \in Hazards
        /\ exists /\ kind = "regular"
        /\ WriteFile
        /\ UNCHANGED path
     \/ /\ at = "user" /\ EditBlacklist
        /\ UNCHANGED path
     \/ /\ at = "user"
        /\ exists' = FALSE /\ kind' = "regular" /\ file' = <<>>
        /\ UNCHANGED <<listed, blacklist, readable, pc, list, cursor, virus_flag, checked>>
     \/ /\ at = "user"
        /\ ~exists /\ exists' = TRUE /\ kind' \in Kinds
        /\ IF kind' = "dir" THEN \E b \in Byte : file' = <<b>> ELSE UNCHANGED file
        /\ UNCHANGED <<listed, blacklist, readable, pc, list, cursor, virus_flag, checked>>
     \/ /\ at = "user" /\ listed' = ~listed
        /\ UNCHANGED <<exists, kind, vars>>
  /\ UNCHANGED call

(* The open returns r.                                                     *)
Return(r) == at' = "user" /\ result' = r /\ flags' = {} /\ before' = Fresh

(* new_open, syscall_new.c:186-198: into the module.  Directories are only *)
(* opened with no flags: what the others do to one is the kernel's affair. *)
CallOpen ==
  /\ at = "user"
  /\ at' = "blacklist"
  /\ \E fl \in Flags : (exists /\ kind = "dir" => fl = {}) /\ flags' = fl
  /\ result' = "none"
  /\ before' = Path
  /\ UNCHANGED <<vars, path>>

(* anti_module.c:199-204.                                                  *)
OpenBlacklist ==
  /\ at = "blacklist"
  /\ at' = IF listed THEN "input" ELSE "orig"
  /\ UNCHANGED <<vars, path, flags, result, before>>

(* Bad form of OpenInput: a file that does not open counts as infected.    *)
OpenInput_Denies ==
  /\ at = "input"
  /\ KernelOpen
  /\ IF Outcome(exists, flags) = "fd"
     THEN at' = (IF kind' # "device" THEN "scan" ELSE "orig") /\ UNCHANGED <<flags, result, before>>
     ELSE Return("EPERM")
  /\ readable' = (kind' = "regular" /\ "write" \notin flags)
  /\ UNCHANGED <<listed, blacklist, pc, list, cursor, virus_flag, checked>>

(* Lines 207-231: the file is opened as the caller asked; a device is not  *)
(* scanned, nor is a file that does not open.                              *)
OpenInput ==
  /\ at = "input"
  /\ KernelOpen
  /\ at' = IF Outcome(exists, flags) = "fd" /\ kind' # "device" THEN "scan" ELSE "orig"
  /\ readable' = (kind' = "regular" /\ "write" \notin flags)
  /\ UNCHANGED <<listed, blacklist, pc, list, cursor, virus_flag, checked, flags, result, before>>

(* Line 235.                                                               *)
Scanning ==
  /\ at = "scan"
  /\ Start \/ Scan
  /\ UNCHANGED <<path, call>>

(* Bad form of Verdict: a return value that is not what the kernel gives.  *)
Verdict_WrongErrno ==
  /\ at = "scan" /\ Answer
  /\ IF virus_flag
     THEN Return("EACCES")
     ELSE at' = "orig" /\ UNCHANGED <<flags, result, before>>
  /\ UNCHANGED path

(* Lines 237-269 and syscall_new.c:199-200: -1 for an infected file.       *)
Verdict ==
  /\ at = "scan" /\ Answer
  /\ IF virus_flag
     THEN Return("EPERM")
     ELSE at' = "orig" /\ UNCHANGED <<flags, result, before>>
  /\ UNCHANGED path

(* original_open, syscall_new.c:203.                                       *)
OriginalOpen ==
  /\ at = "orig"
  /\ KernelOpen
  /\ Return(Outcome(exists, flags))
  /\ UNCHANGED <<listed, blacklist, readable, pc, list, cursor, virus_flag, checked>>

-----------------------------------------------------------------------------
OpenInit ==
  /\ Init /\ readable = FALSE
  /\ exists = FALSE /\ kind = "regular" /\ listed = FALSE
  /\ at = "user" /\ flags = {} /\ result = "none"
  /\ before = Fresh

Step == OpenBlacklist \/ OpenInput \/ Scanning \/ Verdict \/ OriginalOpen
OpenNext == Others \/ CallOpen \/ Step

OpenSpec == OpenInit /\ [][OpenNext]_allVars
(* The process runs: whatever its open does next, it does.                 *)
OpenFairSpec == OpenSpec /\ WF_allVars(Step)

-----------------------------------------------------------------------------
(* Type invariant: of the scan, of the path and of the open.               *)
OpenTypeOK ==
  /\ TypeOK
  /\ exists \in BOOLEAN /\ listed \in BOOLEAN
  /\ kind \in {"regular", "device", "dir"}
  /\ at \in {"user", "blacklist", "input", "scan", "orig"}
  /\ flags \in SUBSET {"creat", "excl", "trunc", "write"}
  /\ result \in {"none", "fd", "EPERM", "ENOENT", "EEXIST"}
  /\ before \in [exists : BOOLEAN, kind : {"regular", "device", "dir"}, file : Seq(Char)]

(* What the open finds once its own flags have had their effect.           *)
Found ==
  LET b == before
  IN [opened  |-> Outcome(b.exists, flags),
      exists  |-> b.exists \/ Outcome(b.exists, flags) = "fd",
      scanned |-> listed /\ (b.exists => b.kind = "regular"),
      file    |-> IF Truncates(b.exists, flags) THEN <<>> ELSE b.file]

(* What the open is to return: EPERM for an infected file, and what the    *)
(* kernel's open alone returns for any other; and what it is to leave.     *)
ReturnsAsUsual ==
  LET f == Found
      denied == f.scanned /\ f.opened = "fd" /\ Infected(f.file, blacklist)
  IN /\ result' = IF denied THEN "EPERM" ELSE f.opened
     /\ exists' = f.exists /\ file' = f.file

Returns == at # "user" /\ at' = "user"

(* README.HW3:573: "If its not a virus, we call the original OPEN system   *)
(* call which opens the file and returns fd as usual".                     *)
OpensAsUsual == [][Returns /\ WellFormed(blacklist) => ReturnsAsUsual]_allVars

(* The same, but for an open that creates a file with O_EXCL: the scan's   *)
(* own open has created it.  Over every sequence of opens of one path.     *)
OpensAsUsualButExcl ==
  [][Returns /\ WellFormed(blacklist) /\ ("excl" \in flags => before.exists) => ReturnsAsUsual]_allVars

(* Every open comes to its end, unless its scan crashes.                   *)
OpenEnds == (at = "blacklist") ~> (at = "user" \/ pc = "oops")
=============================================================================
