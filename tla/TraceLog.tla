------------------------------ MODULE TraceLog ------------------------------
(***************************************************************************)
(* The trace module (modules/trace_module.c).  Every call of an attached   *)
(* process formats a record and appends it to one page shared by all of    *)
(* them, which is written to the log when the next record does not fit.    *)
(* The ten trace_* functions are one procedure with different formats; no  *)
(* lock protects the page or the counter `vacant`.  One action is one      *)
(* access to them.  A record is its number, repeated over its length.      *)
(***************************************************************************)
EXTENDS Integers, Sequences

CONSTANTS
  Task,      \* processes attached to the module
  Size,      \* PAGE_SIZE
  Length,    \* the lengths records may have
  MaxCalls,  \* bound: how many calls are traced
  Hazards    \* "callers": calls of two processes overlap;
              \* "early": a process calls before trace_init is over;
              \* "oom": kmalloc of the page returns NULL;
              \* "nofile": filp_open fails

ASSUME TraceAssumption ==
  /\ Size \in Nat \ {0}
  /\ Length \subseteq 1 .. Size - 1
  /\ MaxCalls \in Nat
  /\ Hazards \subseteq {"callers", "early", "oom", "nofile"}

Nul  == 0       \* the byte that ends a string
Junk == -1      \* a byte that nobody wrote
Cell == 0 .. Size - 1

VARIABLES
  state,    \* the module: the next step of trace_init, "live", "exit", "gone"
  write_file_buff, filp_out,   \* the two statics: "null", "ok", "err"
  page,     \* what the page write_file_buff points to holds
  vacant,
  log,      \* the bytes written to the trace file
  traced,   \* history: the lengths of the records of the calls so far
  early,    \* history: how many of those calls began before trace_init was over
  pc,       \* where each process is in its trace function
  rec, len  \* the record of that call, and its strlen

statics == <<write_file_buff, filp_out>>
vars == <<state, statics, page, vacant, log, traced, early, pc, rec, len>>

Goto(t, l) == pc' = [pc EXCEPT ![t] = l]
Idle == \A t \in Task : pc[t] \in {"user", "oops"}

(* strlen of the page: where its first NUL is, or past it if it has none.  *)
IsStrLen(n) ==
  /\ n \in Cell \cup {Size + 1}
  /\ \A j \in Cell : j < n => page[j] # Nul
  /\ n \in Cell => page[n] = Nul
Text(n) == [j \in 1 .. n |-> IF j <= Size THEN page[j - 1] ELSE Junk]
WriteToFile == \E n \in 0 .. Size + 1 : IsStrLen(n) /\ log' = log \o Text(n)

(***************************************************************************)
(* trace_init, lines 285-292: the module can be called from the moment it  *)
(* is registered.                                                          *)
(***************************************************************************)
RegisterModule ==
  /\ state = "register" /\ state' = "open"
  /\ UNCHANGED <<statics, page, vacant, log, traced, early, pc, rec, len>>

OpenFile ==
  /\ state = "open" /\ state' = "alloc"
  /\ filp_out' \in IF "nofile" \in Hazards THEN {"ok", "err"} ELSE {"ok"}
  /\ UNCHANGED <<write_file_buff, page, vacant, log, traced, early, pc, rec, len>>

(* Line 288.  The page is whatever it was before: here, junk up to the     *)
(* first NUL.                                                              *)
AllocPage ==
  /\ state = "alloc" /\ state' = "vacant"
  /\ \E n \in 0 .. Size : page' = [j \in Cell |-> IF j = n THEN Nul ELSE Junk]
  /\ write_file_buff' \in IF "oom" \in Hazards THEN {"ok", "null"} ELSE {"ok"}
  /\ UNCHANGED <<filp_out, vacant, log, traced, early, pc, rec, len>>

(* Line 289, in a second access: the records of calls that came before it  *)
(* are no longer counted in.                                               *)
ResetVacant ==
  /\ state = "vacant" /\ state' = "live"
  /\ vacant' = Size
  /\ early' = Len(traced)
  /\ UNCHANGED <<statics, page, log, traced, pc, rec, len>>

(***************************************************************************)
(* A trace function, e.g. trace_open (lines 17-33).                        *)
(***************************************************************************)
(* Bad form of Call: the NUL of the record is counted too.                 *)
Call_CountsNul(t, n) ==
  /\ pc[t] = "user" /\ Len(traced) < MaxCalls
  /\ state = "live" /\ Idle
  /\ traced' = Append(traced, n)
  /\ rec' = [rec EXCEPT ![t] = Len(traced) + 1]
  /\ len' = [len EXCEPT ![t] = n + 1]
  /\ Goto(t, "test")
  /\ UNCHANGED <<state, statics, page, vacant, log, early>>

(* kmalloc and sprintf of the record.  When kmalloc fails nothing happens. *)
Call(t, n) ==
  /\ pc[t] = "user" /\ Len(traced) < MaxCalls
  /\ state = "live" \/ ("early" \in Hazards /\ state \in {"open", "alloc", "vacant"})
  /\ "callers" \in Hazards \/ Idle
  /\ traced' = Append(traced, n)
  /\ rec' = [rec EXCEPT ![t] = Len(traced) + 1]
  /\ len' = [len EXCEPT ![t] = n]
  /\ Goto(t, "test")
  /\ UNCHANGED <<state, statics, page, vacant, log, early>>

(* vacant <= strlen(record), line 23.  The comparison is unsigned: a       *)
(* negative vacant is larger than any length.                              *)
Full(n) == vacant >= 0 /\ vacant <= n

(* Bad form of TestFull: a record that fits exactly is one too many.       *)
TestFull_Late(t) ==
  /\ pc[t] = "test"
  /\ Goto(t, IF vacant >= 0 /\ vacant < len[t] - 1 THEN "write" ELSE "copy")
  /\ UNCHANGED <<state, statics, page, vacant, log, traced, early, rec, len>>

TestFull(t) ==
  /\ pc[t] = "test"
  /\ Goto(t, IF Full(len[t]) THEN "write" ELSE "copy")
  /\ UNCHANGED <<state, statics, page, vacant, log, traced, early, rec, len>>

(* Bad form of WriteOut: the page is dropped.                              *)
WriteOut_Dropped(t) ==
  /\ pc[t] = "write"
  /\ Goto(t, "full")
  /\ UNCHANGED <<state, statics, page, vacant, log, traced, early, rec, len>>

(* write_to_file(filp_out, write_file_buff, strlen(write_file_buff)).      *)
WriteOut(t) ==
  /\ pc[t] = "write" /\ write_file_buff = "ok" /\ filp_out = "ok"
  /\ WriteToFile
  /\ Goto(t, "full")
  /\ UNCHANGED <<state, statics, page, vacant, traced, early, rec, len>>

(* vacant = PAGE_SIZE, line 25.                                            *)
SetVacant(t) ==
  /\ pc[t] = "full"
  /\ vacant' = Size
  /\ Goto(t, "nul")
  /\ UNCHANGED <<state, statics, page, log, traced, early, rec, len>>

(* write_file_buff[0] = '\0', line 26.                                     *)
ClearPage(t) ==
  /\ pc[t] = "nul" /\ write_file_buff = "ok"
  /\ page' = [page EXCEPT ![0] = Nul]
  /\ Goto(t, "copy")
  /\ UNCHANGED <<state, statics, vacant, log, traced, early, rec, len>>

Offset == Size - vacant

(* strncpy of strlen(record) bytes, line 28: no NUL follows the record,    *)
(* and what lies beyond the page is overwritten too.                       *)
CopyRecord(t) ==
  /\ pc[t] = "copy" /\ write_file_buff = "ok"
  /\ page' = [j \in Cell |-> IF j \in Offset .. Offset + len[t] - 1 THEN rec[t] ELSE page[j]]
  /\ Goto(t, "count")
  /\ UNCHANGED <<state, statics, vacant, log, traced, early, rec, len>>

(* Bad form of Count: the length of the record is not taken off.           *)
Count_Skipped(t) ==
  /\ pc[t] = "count"
  /\ Goto(t, "user")
  /\ UNCHANGED <<state, statics, page, vacant, log, traced, early, rec, len>>

(* vacant -= strlen(record), line 29.                                      *)
Count(t) ==
  /\ pc[t] = "count"
  /\ vacant' = vacant - len[t]
  /\ Goto(t, "user")
  /\ UNCHANGED <<state, statics, page, log, traced, early, rec, len>>

(* The record goes to a page that is not there, or the page to a file that *)
(* is not.                                                                 *)
Oops(t) ==
  /\ \/ pc[t] \in {"write", "nul", "copy"} /\ write_file_buff # "ok"
     \/ pc[t] = "write" /\ filp_out # "ok"
  /\ Goto(t, "oops")
  /\ UNCHANGED <<state, statics, page, vacant, log, traced, early, rec, len>>

(***************************************************************************)
(* trace_exit, lines 294-305.  rmmod waits for the count of the module to  *)
(* be 0: no process is attached any more.                                  *)
(***************************************************************************)
Rmmod ==
  /\ state = "live" /\ Idle
  /\ state' = IF filp_out = "err" THEN "oops" ELSE "gone"
  /\ IF write_file_buff = "ok" /\ filp_out = "ok" /\ vacant < Size
     THEN WriteToFile ELSE UNCHANGED log
  /\ UNCHANGED <<statics, page, vacant, traced, early, pc, rec, len>>

-----------------------------------------------------------------------------
Init ==
  /\ state = "register"
  /\ write_file_buff = "null" /\ filp_out = "null"
  /\ page = [j \in Cell |-> Junk]
  /\ vacant = Size
  /\ log = <<>> /\ traced = <<>> /\ early = 0
  /\ pc = [t \in Task |-> "user"]
  /\ rec = [t \in Task |-> 0] /\ len = [t \in Task |-> 0]

Load == RegisterModule \/ OpenFile \/ AllocPage \/ ResetVacant
Trace(t) ==
  \/ \E n \in Length : Call(t, n)
  \/ TestFull(t) \/ WriteOut(t) \/ SetVacant(t) \/ ClearPage(t) \/ CopyRecord(t)
  \/ Count(t) \/ Oops(t)

Next == Load \/ Rmmod \/ \E t \in Task : Trace(t)

Spec == Init /\ [][Next]_vars

-----------------------------------------------------------------------------
(* Type invariant; under overlapping calls vacant may be any integer.      *)
TypeOK ==
  /\ state \in {"register", "open", "alloc", "vacant", "live", "gone", "oops"}
  /\ write_file_buff \in {"null", "ok"} /\ filp_out \in {"null", "ok", "err"}
  /\ page \in [Cell -> Int]
  /\ vacant \in Int
  /\ log \in Seq(Int)
  /\ traced \in Seq(Length) /\ early \in 0 .. Len(traced)
  /\ pc \in [Task -> {"user", "test", "write", "full", "nul", "copy", "count", "oops"}]
  /\ rec \in [Task -> Nat]
  /\ len \in [Task -> Length \cup {0}]

(* No record is written outside the page, wherever the page was flushed.   *)
InPage == \A t \in Task : pc[t] = "copy" => Offset >= 0 /\ Offset + len[t] <= Size

(* s contains the n bytes of record r one after the other.                 *)
Occurs(s, r, n) == \E j \in 0 .. Len(s) - n : \A k \in 1 .. n : s[j + k] = r

Filled   == [j \in 1 .. Offset |-> page[j - 1]]
InFlight == {rec[t] : t \in {u \in Task : pc[u] # "user"}}

(* Record r is whole, in the log or in the part of the page that counts as *)
(* filled; once the module is removed, in the log, if there is one.        *)
Whole(r) ==
  \/ Occurs(log, r, traced[r])
  \/ state # "gone" /\ Offset \in Cell \cup {Size} /\ Occurs(Filled, r, traced[r])

(* The record of every call that has returned is whole, unless the call    *)
(* began before trace_init had set vacant (line 289) and trace_init is     *)
(* over: what such calls have copied by then is overwritten.               *)
NothingLost == \A r \in DOMAIN traced \ InFlight : r > early => Whole(r)

(* Records reach the log in the order of the calls: where one occurs, the  *)
(* one before it occurred earlier, unless its call crashed or began before *)
(* trace_init was over.                                                    *)
InOrder ==
  \A k \in DOMAIN log : log[k] > early + 1 =>
    log[k] - 1 \in InFlight \/ \E j \in 1 .. k : log[j] = log[k] - 1

(* Every record, also those of calls before line 289, is kept.             *)
NoneLost == \A r \in DOMAIN traced \ InFlight : Whole(r)

(* What README says the log is good for: it tracks down the sequence of    *)
(* the calls, so that it never goes back to an earlier one.                *)
IsSequence ==
  \A j, k \in DOMAIN log : j < k /\ log[j] > 0 /\ log[k] > 0 => log[j] <= log[k]
=============================================================================
