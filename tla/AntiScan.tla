------------------------------ MODULE AntiScan ------------------------------
(***************************************************************************)
(* The scan of the antivirus module (modules/anti_module.c,                *)
(* check_in_blacklist): the blacklist is read page by page and cut at line *)
(* ends; for each line, a name and a pattern in hex, the file is read page *)
(* by page and searched with strstr, stepping back by the length of the    *)
(* pattern after each page.  Other processes write the file and the        *)
(* blacklist between scans, with the hazard "change" during them as well.  *)
(*                                                                         *)
(* Text is a sequence of characters.  A hex number of the blacklist is the *)
(* character of the byte it stands for, and one blank parts two of them.   *)
(***************************************************************************)
EXTENDS Integers, Sequences

CONSTANTS
  Page,      \* PAGE_SIZE
  Byte,      \* the bytes files and patterns are made of
  Line,      \* the texts somebody may append to the blacklist
  MaxSize,   \* bound: the length of the file
  MaxList,   \* bound: the length of the blacklist
  Hazards    \* "change": the file is written during a scan;
             \* "oom": kmalloc returns NULL

Nul == "nul"     \* the byte 0
NL  == "nl"      \* the end of a line
Char == Byte \cup {Nul, NL, ",", " ", "v"}

ASSUME ScanAssumption ==
  /\ Page \in Nat /\ Page > 1
  /\ \A l \in Line : l \in Seq(Char) /\ \A i \in 1 .. Len(l) : l[i] # Nul
  /\ MaxSize \in Nat /\ MaxList \in Nat
  /\ Hazards \subseteq {"change", "oom"}

VARIABLES
  file, blacklist,          \* what the two files hold
  readable,                 \* may the scan read the file it has open
  pc,                       \* where the scan is
  blacklist_fp,             \* how much of the blacklist has been read
  work,                     \* what black_list_work_buff points to
  pattern,                  \* hex_in_char_ptr, hex_in_char_len
  original_file_size, file_size, f_pos,
  virus_flag,
  checked                   \* history: the patterns this scan is through with

files  == <<file, blacklist>>
cursor == <<original_file_size, file_size, f_pos>>
list   == <<blacklist_fp, work, pattern>>
vars   == <<files, readable, pc, list, cursor, virus_flag, checked>>

(***************************************************************************)
(* C strings.                                                              *)
(***************************************************************************)
(* The place of the first d, or the one past the end.                      *)
First(s, d) ==
  CHOOSE i \in 1 .. Len(s) + 1 :
    /\ i <= Len(s) => s[i] = d
    /\ \A j \in 1 .. i - 1 : s[j] # d

(* What strsep cuts off, and what it leaves (nothing stands for NULL).     *)
Before(s, d) == SubSeq(s, 1, First(s, d) - 1)
After(s, d)  == SubSeq(s, First(s, d) + 1, Len(s))
Has(s, d)    == \E i \in 1 .. Len(s) : s[i] = d

OccursAt(f, p, i) == i + Len(p) <= Len(f) /\ \A k \in 1 .. Len(p) : f[i + k] = p[k]
Occurs(f, p) == \E i \in 0 .. Len(f) : OccursAt(f, p, i)

(* strstr, which sees each string up to its first NUL.                     *)
strstr(buffer, s) == Occurs(Before(buffer, Nul), Before(s, Nul))

(* convert, lines 60-83: one byte for each hex number.                     *)
convert(s) == [k \in 1 .. (Len(s) + 1) \div 2 |-> s[2 * k - 1]]

(* What read_file returns for a buffer of n bytes at position pos.         *)
ReadSize(f, pos, n) ==
  IF pos >= Len(f) THEN 0 ELSE IF Len(f) - pos < n THEN Len(f) - pos ELSE n

(***************************************************************************)
(* The other processes.                                                    *)
(***************************************************************************)
MayChange == pc = "idle" \/ "change" \in Hazards

WriteFile ==
  /\ MayChange
  /\ \/ \E b \in Byte : Len(file) < MaxSize /\ file' = Append(file, b)
     \/ file' = <<>>
  /\ UNCHANGED <<blacklist, readable, pc, list, cursor, virus_flag, checked>>

EditBlacklist ==
  /\ pc = "idle"
  /\ \E l \in Line : Len(blacklist) + Len(l) <= MaxList /\ blacklist' = blacklist \o l
  /\ UNCHANGED <<file, readable, pc, list, cursor, virus_flag, checked>>

(***************************************************************************)
(* check_in_blacklist, lines 90-187.                                       *)
(***************************************************************************)
Out(found) == pc' = "done" /\ virus_flag' = found

(* Lines 98-110: buffers and sizes.  Only the first kmalloc is checked.    *)
Start ==
  /\ pc = "idle"
  /\ \/ pc' = "line" /\ UNCHANGED virus_flag
     \/ "oom" \in Hazards /\ Out(FALSE)
     \/ "oom" \in Hazards /\ pc' = "oops" /\ UNCHANGED virus_flag
  /\ original_file_size' = Len(file)
  /\ UNCHANGED <<files, readable, list, file_size, f_pos, checked>>

(* remove_garbage_value, lines 25-40: how much of a page of n characters   *)
(* is kept, up to its last line end; without one, a single character.      *)
Kept(data) ==
  IF data[Len(data)] = NL THEN Len(data)
  ELSE CHOOSE k \in 1 .. Len(data) :
         /\ k = 1 \/ data[k] = NL
         /\ \A j \in k + 1 .. Len(data) : data[j] # NL

(* Bad form of LoadPage: the page is not cut at a line end.                *)
LoadPage_Uncut ==
  LET n == ReadSize(blacklist, blacklist_fp, Page - 1)
  IN /\ pc = "line" /\ work = <<>> /\ blacklist_fp < Len(blacklist)
     /\ work' = SubSeq(blacklist, blacklist_fp + 1, blacklist_fp + n)
     /\ blacklist_fp' = blacklist_fp + n
     /\ UNCHANGED <<files, readable, pc, pattern, cursor, virus_flag, checked>>

(* Lines 115-122.  A full page that ends with a line end is not terminated *)
(* (line 37) and strlen leaves the buffer.                                 *)
LoadPage ==
  LET n    == ReadSize(blacklist, blacklist_fp, Page)
      data == SubSeq(blacklist, blacklist_fp + 1, blacklist_fp + n)
  IN /\ pc = "line" /\ work = <<>> /\ blacklist_fp < Len(blacklist)
     /\ IF n = Page /\ data[n] = NL
        THEN pc' = "oops" /\ UNCHANGED <<work, blacklist_fp>>
        ELSE /\ work' = SubSeq(data, 1, Kept(data))
             /\ blacklist_fp' = blacklist_fp + Kept(data)
             /\ UNCHANGED pc
     /\ UNCHANGED <<files, readable, pattern, cursor, virus_flag, checked>>

(* Lines 126-152.  A line without a comma ends the whole scan.             *)
NextLine ==
  LET line == Before(work, NL)
  IN /\ pc = "line" /\ work # <<>>
     /\ work' = After(work, NL)
     /\ IF Has(line, ",")
        THEN /\ pattern' = convert(After(line, ","))
             /\ file_size' = original_file_size /\ f_pos' = 0
             /\ pc' = "page" /\ UNCHANGED virus_flag
        ELSE Out(FALSE) /\ UNCHANGED <<pattern, file_size, f_pos>>
     /\ UNCHANGED <<files, readable, blacklist_fp, original_file_size, checked>>

(* The condition of the loop, line 112.                                    *)
EndOfList ==
  /\ pc = "line" /\ work = <<>> /\ blacklist_fp >= Len(blacklist)
  /\ Out(FALSE)
  /\ UNCHANGED <<files, readable, list, cursor, checked>>

(* Bad form of ScanPage: no step back.                                     *)
ScanPage_NoStepBack ==
  LET n    == ReadSize(file, f_pos, Page - 1)
      data == SubSeq(file, f_pos + 1, f_pos + n)
  IN /\ pc = "page" /\ file_size > 0
     /\ readable /\ f_pos >= 0
     /\ IF strstr(data, pattern)
        THEN Out(TRUE) /\ UNCHANGED cursor
        ELSE /\ f_pos' = f_pos + n /\ file_size' = file_size - n
             /\ UNCHANGED <<pc, original_file_size, virus_flag>>
     /\ UNCHANGED <<files, readable, list, checked>>

(* Bad form of ScanPage: the step back is also taken at the end.           *)
ScanPage_AlwaysBack ==
  LET n    == ReadSize(file, f_pos, Page - 1)
      data == SubSeq(file, f_pos + 1, f_pos + n)
  IN /\ pc = "page" /\ file_size > 0
     /\ readable /\ f_pos >= 0
     /\ IF strstr(data, pattern)
        THEN Out(TRUE) /\ UNCHANGED cursor
        ELSE /\ f_pos' = f_pos + n - Len(pattern)
             /\ file_size' = file_size - n + Len(pattern)
             /\ UNCHANGED <<pc, original_file_size, virus_flag>>
     /\ UNCHANGED <<files, readable, list, checked>>

(* Lines 153-172.                                                          *)
ScanPage ==
  LET n    == ReadSize(file, f_pos, Page - 1)
      data == SubSeq(file, f_pos + 1, f_pos + n)
      back == IF f_pos + n # original_file_size THEN Len(pattern) ELSE 0
  IN /\ pc = "page" /\ file_size > 0
     /\ readable /\ f_pos >= 0
     /\ IF strstr(data, pattern)
        THEN Out(TRUE) /\ UNCHANGED cursor
        ELSE /\ f_pos' = f_pos + n - back
             /\ file_size' = file_size - n + back
             /\ UNCHANGED <<pc, original_file_size, virus_flag>>
     /\ UNCHANGED <<files, readable, list, checked>>

(* A read that fails returns an error, and line 156 writes before the      *)
(* buffer: the position is negative, or the file not open for reading.     *)
ReadFails ==
  /\ pc = "page" /\ file_size > 0
  /\ ~readable \/ f_pos < 0
  /\ pc' = "oops"
  /\ UNCHANGED <<files, readable, list, cursor, virus_flag, checked>>

EndOfFile ==
  /\ pc = "page" /\ file_size <= 0
  /\ pc' = "line"
  /\ checked' = checked \cup {pattern}
  /\ UNCHANGED <<files, readable, list, cursor, virus_flag>>

(* The answer is given, the buffers are freed and the locals are gone,     *)
(* lines 176-186.                                                          *)
NoLocals ==
  /\ blacklist_fp' = 0 /\ work' = <<>> /\ pattern' = <<>>
  /\ original_file_size' = 0 /\ file_size' = 0 /\ f_pos' = 0
  /\ checked' = {}

Answer ==
  /\ pc = "done"
  /\ pc' = "idle" /\ virus_flag' = FALSE
  /\ NoLocals
  /\ UNCHANGED <<files, readable>>

-----------------------------------------------------------------------------
Init ==
  /\ file = <<>> /\ blacklist = <<>> /\ readable \in BOOLEAN
  /\ pc = "idle"
  /\ blacklist_fp = 0 /\ work = <<>> /\ pattern = <<>>
  /\ original_file_size = 0 /\ file_size = 0 /\ f_pos = 0
  /\ virus_flag = FALSE /\ checked = {}

Scan == LoadPage \/ NextLine \/ EndOfList \/ ScanPage \/ ReadFails \/ EndOfFile
Next == WriteFile \/ EditBlacklist \/ Start \/ Scan \/ Answer

Spec == Init /\ [][Next]_vars
FairSpec == Spec /\ WF_vars(Scan \/ Answer)

-----------------------------------------------------------------------------
(* Type invariant of the scan: where it is in both files and in both       *)
(* buffers.                                                                *)
TypeOK ==
  /\ file \in Seq(Char) /\ blacklist \in Seq(Char)
  /\ readable \in BOOLEAN
  /\ pc \in {"idle", "line", "page", "done", "oops"}
  /\ blacklist_fp \in Nat /\ work \in Seq(Char) /\ pattern \in Seq(Char)
  /\ original_file_size \in Nat /\ file_size \in Int /\ f_pos \in Int
  /\ virus_flag \in BOOLEAN
  /\ \A p \in checked : p \in Seq(Char)

(* The scan takes no occurrence for an absence and no absence for an       *)
(* occurrence: a pattern it is through with is nowhere in the file, across *)
(* pages or not, and a pattern it reports is there.  An empty file is not  *)
(* read at all, not even for an empty pattern.                             *)
ScanExact ==
  pc # "idle" /\ ~Has(file, Nul) =>
    /\ \A p \in checked : Has(p, Nul) \/ file = <<>> \/ ~Occurs(file, p)
    /\ virus_flag /\ ~Has(pattern, Nul) => Occurs(file, pattern)

(***************************************************************************)
(* The reference: what the lines of a blacklist list, and the blacklists   *)
(* that can be read by pages: every line has its end and its comma, is     *)
(* shorter than a page, and no lines fill a page exactly.                  *)
(***************************************************************************)
LineStarts(text) == {i \in 1 .. Len(text) + 1 : i = 1 \/ text[i - 1] = NL}
Lines(text) ==
  {SubSeq(text, ij[1], ij[2] - 2) : ij \in
     {ij \in LineStarts(text) \X LineStarts(text) :
        ij[1] < ij[2] /\ \A k \in LineStarts(text) : k <= ij[1] \/ k >= ij[2]}}
Listed(text) == {convert(After(l, ",")) : l \in Lines(text)}

WellFormed(text) ==
  /\ Len(text) + 1 \in LineStarts(text)
  /\ \A l \in Lines(text) : Has(l, ",") /\ Len(l) + 1 < Page
  /\ \A i, j \in LineStarts(text) : j - i # Page

Infected(f, text) == f # <<>> /\ \E p \in Listed(text) : Occurs(f, p)

(* The verdict on a file without NULs under a well-formed blacklist: it is *)
(* infected when one of the listed patterns occurs in it.                  *)
VerdictExact ==
  pc = "done" /\ WellFormed(blacklist) /\ ~Has(file, Nul) =>
    virus_flag = Infected(file, blacklist)

(* README.HW3:575: "blacklist patterns, which if present in the file, we   *)
(* categorize the file as virus": whatever else the two files hold.        *)
PresentIsVirus == pc = "done" /\ Infected(file, blacklist) => virus_flag

(* No access outside the buffers while the blacklist is well formed, the   *)
(* file can be read and allocations succeed.                               *)
NoOops == readable /\ WellFormed(blacklist) => pc # "oops"

(* ... nor in any other case.                                              *)
NeverOops == pc # "oops"
=============================================================================
