------------------------------ MODULE Protect ------------------------------
(***************************************************************************)
(* The protect module (modules/protect_module.c): the hooked calls of the  *)
(* processes attached to it ask for its verdict, which is read off the     *)
(* name alone, and make the original call if the answer is 0.  What the    *)
(* original calls do to names, links and files is external, the kernel's.  *)
(* Verdict, path walk and call are separate steps, so that calls of        *)
(* several processes interleave.  The verdict and the original call each   *)
(* read the names from the caller's memory, which a process that shares it *)
(* may have rewritten in between: the second read may find any names.      *)
(*                                                                         *)
(* system_call_entry passes link, symlink and rename their names as two    *)
(* va_arg in one argument list (lines 118, 122, 125); C leaves their order *)
(* to the compiler, so which of the names is tested depends on the build:  *)
(* the same one in the three calls, whichever order the compiler keeps.    *)
(***************************************************************************)
EXTENDS FiniteSets

CONSTANTS
  Task,        \* the processes, all of them attached to the module
  Plain,       \* names without ".protected" ...
  Protected,   \* ... and with it
  Inode,       \* files
  None

ASSUME ProtectAssumption ==
  /\ Plain \cap Protected = {}
  /\ None \notin Plain \cup Protected /\ None \notin Inode

Name == Plain \cup Protected
TwoNames == {"link", "symlink", "rename"}
OneName  == {"open", "unlink", "rmdir", "mkdir"}

VARIABLES
  entry,     \* what each name is: a file, a symbolic link, a directory or nothing
  content,   \* each file: "free", or a version of its content
  open,      \* the files that some process has open
  pending,   \* the call of each process that the module has let pass
  order,     \* the build: which of its two names a call has tested
  swapped,   \* history: a name other than the one tested, and protected, was used
  born       \* history: the files that are reached by protected names only, at start

vars == <<entry, content, open, pending, order, swapped, born>>

Nothing   == [type |-> "none", file |-> None, to |-> None]
File(i)   == [type |-> "file", file |-> i, to |-> None]
Link(n)   == [type |-> "symlink", file |-> None, to |-> n]
Directory == [type |-> "dir", file |-> None, to |-> None]
Entry     == {Nothing, Directory} \cup {File(i) : i \in Inode} \cup {Link(n) : n \in Name}

(* A call under way: its names as last read, by the module that tested     *)
(* them or by the original call.                                           *)
Stage == {"tested", "fetched"}
NoCall == [call |-> "none", name |-> None, new |-> None, file |-> None, stage |-> "none"]
Pending ==
  {NoCall} \cup [call : OneName, name : Name, new : {None}, file : {None}, stage : Stage]
           \cup [call : TwoNames, name : Name, new : Name, file : {None}, stage : Stage]
           \cup [call : {"write"}, name : {None}, new : {None}, file : Inode, stage : {"fetched"}]

(***************************************************************************)
(* The module.                                                             *)
(***************************************************************************)
(* Bad form of Tested: a rename is judged by nothing at all.               *)
Tested_NoRename(c, name, new) ==
  IF c = "rename" THEN None ELSE IF c \in TwoNames /\ order = "second" THEN new ELSE name

(* The name that strstr is given.                                          *)
Tested(c, name, new) == IF c \in TwoNames /\ order = "second" THEN new ELSE name

(* Bad form of Guarded: no verdict on opens.                               *)
Guarded_NotOpen == {"unlink", "rmdir"} \cup TwoNames

(* The calls it judges by name, lines 95-126: not mkdir, not close.        *)
Guarded == {"open", "unlink", "rmdir"} \cup TwoNames

(* protect_open .. protect_rmdir, lines 6-84.                              *)
Allows(c, name, new) == c \in Guarded => Tested(c, name, new) \notin Protected

(* Bad form of Pass: the call number stays among the arguments.            *)
Pass_ShiftedArgs(t, c, name, new) ==
  /\ pending[t] = NoCall
  /\ Allows(c, name, new)
  /\ pending' = [pending EXCEPT ![t] = [NoCall EXCEPT !.call = c, !.name = c, !.new = name,
                                                    !.stage = "tested"]]
  /\ UNCHANGED <<entry, content, open, order, swapped, born>>

(* A hooked call of t that the module lets pass; one that it does not      *)
(* returns -EPERM and leaves everything as it is.                          *)
Pass(t, c, name, new) ==
  /\ pending[t] = NoCall
  /\ Allows(c, name, new)
  /\ pending' = [pending EXCEPT ![t] = [NoCall EXCEPT !.call = c, !.name = name, !.new = new,
                                                    !.stage = "tested"]]
  /\ UNCHANGED <<entry, content, open, order, swapped, born>>

(* protect_write, lines 52-61, looks for the name in the DATA, and past    *)
(* its end: it may deny any write, and allow any whose data do not hold    *)
(* the marker, whatever the file is called.                                *)
PassWrite(t, i) ==
  /\ pending[t] = NoCall /\ i \in open
  /\ pending' = [pending EXCEPT ![t] = [NoCall EXCEPT !.call = "write", !.file = i, !.stage = "fetched"]]
  /\ UNCHANGED <<entry, content, open, order, swapped, born>>

(***************************************************************************)
(* The original calls, external.                                           *)
(***************************************************************************)
(* The name that c was judged by is another one now, and protected.        *)
Swap(c, n, new) ==
  /\ c.call \in Guarded
  /\ Tested(c.call, n, new) \in Protected
  /\ Tested(c.call, n, new) # Tested(c.call, c.name, c.new)

(* It reads the names again: c's are now n and new, as far as it has them. *)
Fetch(t, n, new) ==
  LET c == pending[t]
  IN /\ c.stage = "tested" /\ (c.new = None) = (new = None)
     /\ pending' = [pending EXCEPT ![t].name = n, ![t].new = new, ![t].stage = "fetched"]
     /\ swapped' = (swapped \/ Swap(c, n, new))
     /\ UNCHANGED <<entry, content, open, order, born>>

Doing(t, c) == pending[t].call = c /\ pending[t].stage = "fetched"
Finish(t) == pending' = [pending EXCEPT ![t] = NoCall] /\ UNCHANGED <<order, swapped, born>>

(* The path walk goes on at the target of a symbolic link.                 *)
Follow(t) ==
  LET e == entry[pending[t].name]
  IN /\ Doing(t, "open") /\ e.type = "symlink"
     /\ pending' = [pending EXCEPT ![t].name = e.to]
     /\ UNCHANGED <<entry, content, open, order, swapped, born>>

(* open of a file, as it is or truncated, or with O_CREAT of a new one.    *)
Open(t) ==
  LET n == pending[t].name
      e == entry[n]
  IN /\ Doing(t, "open")
     /\ \/ /\ e.type = "file"
           /\ open' = open \cup {e.file}
           /\ content' \in {content, [content EXCEPT ![e.file] = "new"]}
           /\ UNCHANGED entry
        \/ /\ e.type = "none"
           /\ \E i \in Inode :
                /\ content[i] = "free"
                /\ content' = [content EXCEPT ![i] = "new"]
                /\ entry' = [entry EXCEPT ![n] = File(i)]
                /\ open' = open \cup {i}
     /\ Finish(t)

Write(t) ==
  /\ Doing(t, "write")
  /\ content' = [content EXCEPT ![pending[t].file] = "new"]
  /\ UNCHANGED <<entry, open>>
  /\ Finish(t)

Unlink(t) ==
  LET n == pending[t].name
  IN /\ Doing(t, "unlink") /\ entry[n].type \in {"file", "symlink"}
     /\ entry' = [entry EXCEPT ![n] = Nothing]
     /\ UNCHANGED <<content, open>>
     /\ Finish(t)

Rmdir(t) ==
  LET n == pending[t].name
  IN /\ Doing(t, "rmdir") /\ entry[n] = Directory
     /\ entry' = [entry EXCEPT ![n] = Nothing]
     /\ UNCHANGED <<content, open>>
     /\ Finish(t)

(* mkdir, link and symlink make a name that is not there yet.              *)
Make(t) ==
  LET c == pending[t]
      n == IF c.call = "mkdir" THEN c.name ELSE c.new
  IN /\ c.call \in {"mkdir", "link", "symlink"} /\ c.stage = "fetched" /\ entry[n] = Nothing
     /\ \/ c.call = "mkdir" /\ entry' = [entry EXCEPT ![n] = Directory]
        \/ c.call = "symlink" /\ entry' = [entry EXCEPT ![n] = Link(c.name)]
        \/ /\ c.call = "link" /\ entry[c.name].type \in {"file", "symlink"}
           /\ entry' = [entry EXCEPT ![n] = entry[c.name]]
     /\ UNCHANGED <<content, open>>
     /\ Finish(t)

(* rename replaces what the new name was, a directory only by another, and *)
(* leaves two names of one file alone.                                     *)
Rename(t) ==
  LET old == entry[pending[t].name]
      new == entry[pending[t].new]
  IN /\ Doing(t, "rename") /\ pending[t].name # pending[t].new
     /\ old # Nothing /\ ~(old.type = "file" /\ old = new)
     /\ new = Nothing \/ (old = Directory) = (new = Directory)
     /\ entry' = [entry EXCEPT ![pending[t].new] = old, ![pending[t].name] = Nothing]
     /\ UNCHANGED <<content, open>>
     /\ Finish(t)

(* The original call fails.                                                *)
Fail(t) ==
  /\ pending[t].stage = "fetched"
  /\ UNCHANGED <<entry, content, open>>
  /\ Finish(t)

-----------------------------------------------------------------------------
(* At start some files have protected names, links to them among them, and *)
(* nothing that is called otherwise leads to them.                         *)
Init ==
  /\ entry \in [Name -> Entry]
  /\ \A n \in Plain : entry[n] = Nothing
  /\ \A n \in Protected : entry[n].type \in {"none", "file"}
  /\ born = {i \in Inode : \E n \in Protected : entry[n] = File(i)}
  /\ content = [i \in Inode |-> IF i \in born THEN "old" ELSE "free"]
  /\ open = {}
  /\ pending = [t \in Task |-> NoCall]
  /\ order \in {"first", "second"}
  /\ swapped = FALSE

Next == \E t \in Task :
  \/ \E c \in OneName, n \in Name : Pass(t, c, n, None)
  \/ \E c \in TwoNames, n, new \in Name : Pass(t, c, n, new)
  \/ \E i \in Inode : PassWrite(t, i)
  \/ \E n \in Name, new \in Name \cup {None} : Fetch(t, n, new)
  \/ Follow(t) \/ Open(t) \/ Write(t) \/ Unlink(t) \/ Rmdir(t) \/ Make(t) \/ Rename(t) \/ Fail(t)

Spec == Init /\ [][Next]_vars

-----------------------------------------------------------------------------
(* Type invariant of names, files and calls.                               *)
TypeOK ==
  /\ entry \in [Name -> Entry]
  /\ content \in [Inode -> {"free", "old", "new"}]
  /\ open \in SUBSET Inode
  /\ pending \in [Task -> Pending]
  /\ order \in {"first", "second"}
  /\ swapped \in BOOLEAN
  /\ born \in SUBSET Inode

(* Where the module tests the old names, a protected file is sealed: as    *)
(* long as no call has used a protected name in place of the one that was  *)
(* tested, no sequence of calls of attached processes opens or changes a   *)
(* file that had protected names only: not through a new link, a symbolic  *)
(* link, a rename, or a second read of names.                              *)
Sealed ==
  order = "first" /\ ~swapped => /\ open \cap born = {}
                                 /\ \A i \in born : content[i] = "old"

(* ... and a protected name that has been given stays given.               *)
NamesStay ==
  [][order = "first" /\ ~swapped =>
       \A n \in Protected : entry[n] # Nothing => entry'[n] # Nothing]_vars

(* Where it tests the new names, and none of them has been swapped, a      *)
(* protected name comes to mean nothing but a directory, mkdir not being   *)
(* judged, or a new file, which an open creates through a symbolic link    *)
(* that is itself called otherwise.                                        *)
NoneForged ==
  [][order = "second" /\ ~swapped => \A n \in Protected :
       \/ entry'[n] \in {entry[n], Nothing, Directory}
       \/ entry'[n].type = "file" /\ content[entry'[n].file] = "free"]_vars

(* The same without the condition: what the verdict is for.  The second    *)
(* read of the names refutes it.                                           *)
SealedAnyway ==
  order = "first" => open \cap born = {} /\ \A i \in born : content[i] = "old"

(* README.HW3:539: "if it is protected then it does not allow it to        *)
(* perform original system calls".  A protected file keeps its name and    *)
(* its content.                                                            *)
Untouched ==
  [][\A n \in Protected : entry[n].type = "file" => entry'[n] = entry[n]]_vars
=============================================================================
