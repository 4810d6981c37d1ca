--------------------------- MODULE AntiOpenProofs ---------------------------
(***************************************************************************)
(* Types of AntiOpen; ScanExact, that the scan by pages with its step back *)
(* is exact; NoOops, that it stays inside its buffers; VerdictExact, that  *)
(* it takes every line of the blacklist; and OpensAsUsualButExcl, what an  *)
(* open returns.  For every page size, file and blacklist, as long as      *)
(* nobody writes the file during its open.                                 *)
(***************************************************************************)
EXTENDS AntiOpen, SequenceTheorems, WellFoundedInduction, TLAPS

(***************************************************************************)
(* Strings.                                                                *)
(***************************************************************************)
(* A set of numbers that is not empty has a least one ...                  *)
LEMMA Least ==
  ASSUME NEW T \in SUBSET Nat, T # {}
  PROVE  \E x \in T : \A y \in T : x <= y
<1>1. PICK x \in T : \A y \in T : ~(<<y, x>> \in OpToRel(<, Nat))
  BY NatLessThanWellFounded, WFMin
<1>2. \A y \in T : ~(y < x)
  BY <1>1 DEF OpToRel
<1> QED
  BY <1>2

(* ... and, within bounds, a greatest one.                                 *)
LEMMA Greatest ==
  ASSUME NEW n \in Nat, NEW T \in SUBSET (0 .. n), T # {}
  PROVE  \E x \in T : \A y \in T : y <= x
<1> DEFINE U == {n - y : y \in T}
<1>1. U \in SUBSET Nat /\ U # {}
  <2>1. PICK y \in T : TRUE
    OBVIOUS
  <2>2. n - y \in U
    BY <2>1
  <2>3. \A z \in T : n - z \in Nat
    OBVIOUS
  <2> QED
    BY <2>2, <2>3
<1>2. PICK u \in U : \A v \in U : u <= v
  BY <1>1, Least
<1>3. PICK x \in T : u = n - x
  OBVIOUS
<1>4. ASSUME NEW y \in T
      PROVE  y <= x
  <2>1. n - y \in U
    OBVIOUS
  <2> QED
    BY <1>2, <1>3, <2>1
<1> QED
  BY <1>4

LEMMA FirstFact ==
  ASSUME NEW S, NEW s \in Seq(S), NEW d
  PROVE  /\ First(s, d) \in 1 .. Len(s) + 1
         /\ First(s, d) <= Len(s) => s[First(s, d)] = d
         /\ \A j \in 1 .. First(s, d) - 1 : s[j] # d
<1> DEFINE T == {i \in 1 .. Len(s) + 1 : i <= Len(s) => s[i] = d}
<1>1. T \in SUBSET Nat /\ Len(s) + 1 \in T
  OBVIOUS
<1>2. PICK i \in T : \A j \in T : i <= j
  BY <1>1, Least
<1>3. /\ i \in 1 .. Len(s) + 1
      /\ i <= Len(s) => s[i] = d
      /\ \A j \in 1 .. i - 1 : s[j] # d
  BY <1>2
<1> QED
  BY <1>3 DEF First

(* strsep cuts strings into strings, and a string without NULs is whole.   *)
LEMMA StringFact ==
  ASSUME NEW s \in Seq(Char), NEW d
  PROVE  /\ Before(s, d) \in Seq(Char) /\ After(s, d) \in Seq(Char)
         /\ ~Has(s, d) => Before(s, d) = s
<1>1. First(s, d) \in 1 .. Len(s) + 1 /\ (First(s, d) <= Len(s) => s[First(s, d)] = d)
  BY FirstFact
<1>2. \A i \in 1 .. Len(s) : s[i] \in Char
  OBVIOUS
<1>3. Before(s, d) \in Seq(Char) /\ After(s, d) \in Seq(Char)
  BY <1>1, <1>2, SubSeqProperties DEF Before, After
<1>4. ASSUME ~Has(s, d)
      PROVE  Before(s, d) = s
  <2>1. First(s, d) = Len(s) + 1
    BY <1>1, <1>4 DEF Has
  <2> QED
    BY <2>1, SubSeqFull DEF Before
<1> QED
  BY <1>3, <1>4

LEMMA ConvertFact ==
  ASSUME NEW s \in Seq(Char)
  PROVE  convert(s) \in Seq(Char)
<1>1. (Len(s) + 1) \div 2 \in Nat /\ \A k \in 1 .. (Len(s) + 1) \div 2 : 2 * k - 1 \in 1 .. Len(s)
  OBVIOUS
<1> QED
  BY <1>1 DEF convert

LEMMA KeptFact ==
  ASSUME NEW data \in Seq(Char), data # <<>>
  PROVE  Kept(data) \in 1 .. Len(data)
<1> DEFINE T == {k \in 1 .. Len(data) : k = 1 \/ data[k] = NL}
<1>1. T \in SUBSET (0 .. Len(data)) /\ 1 \in T /\ Len(data) \in Nat
  OBVIOUS
<1>2. PICK k \in T : \A j \in T : j <= k
  BY <1>1, Greatest
<1>3. \E i \in 1 .. Len(data) :
        /\ i = 1 \/ data[i] = NL
        /\ \A j \in i + 1 .. Len(data) : data[j] # NL
  BY <1>2
<1> QED
  BY <1>3 DEF Kept

LEMMA ReadFact ==
  ASSUME NEW f \in Seq(Char), NEW pos \in Nat, NEW n \in Nat
  PROVE  /\ ReadSize(f, pos, n) \in 0 .. n
         /\ ReadSize(f, pos, n) = 0 \/ pos + ReadSize(f, pos, n) <= Len(f)
         /\ SubSeq(f, pos + 1, pos + ReadSize(f, pos, n)) \in Seq(Char)
         /\ Len(SubSeq(f, pos + 1, pos + ReadSize(f, pos, n))) = ReadSize(f, pos, n)
         /\ \A k \in 1 .. ReadSize(f, pos, n) :
              SubSeq(f, pos + 1, pos + ReadSize(f, pos, n))[k] = f[pos + k]
<1> DEFINE r == ReadSize(f, pos, n)
<1>1. r \in 0 .. n /\ (r = 0 \/ pos + r <= Len(f))
  BY DEF ReadSize
<1>2. \A i \in pos + 1 .. pos + r : f[i] \in Char
  BY <1>1
<1> HIDE DEF r
<1>3. /\ SubSeq(f, pos + 1, pos + r) \in Seq(Char)
      /\ Len(SubSeq(f, pos + 1, pos + r)) = IF pos + 1 <= pos + r THEN pos + r - (pos + 1) + 1 ELSE 0
      /\ \A i \in 1 .. pos + r - (pos + 1) + 1 : SubSeq(f, pos + 1, pos + r)[i] = f[pos + 1 + i - 1]
  BY <1>1, <1>2, SubSeqProperties
<1> QED
  BY <1>1, <1>3 DEF r

-----------------------------------------------------------------------------
(***************************************************************************)
(* Types.                                                                  *)
(***************************************************************************)
LEMMA CharFact == <<>> \in Seq(Char) /\ Byte \subseteq Char
<1>1. \A S : <<>> \in Seq(S)
  OBVIOUS
<1>2. Byte \subseteq Char
  BY DEF Char
<1> QED
  BY <1>1, <1>2

LEMMA PageFact == Page \in Nat /\ Page > 1 /\ Page - 1 \in Nat
<1>1. Page \in Nat /\ Page > 1
  BY ScanAssumption
<1> QED
  BY <1>1

(* The type invariant in parts: texts, numbers, and the rest.              *)
Texts ==
  /\ file \in Seq(Char) /\ blacklist \in Seq(Char)
  /\ work \in Seq(Char) /\ pattern \in Seq(Char)
  /\ \A p \in checked : p \in Seq(Char)
Numbers == blacklist_fp \in Nat /\ original_file_size \in Nat /\ file_size \in Int /\ f_pos \in Int
Marks ==
  /\ pc \in {"idle", "line", "page", "done", "oops"}
  /\ readable \in BOOLEAN /\ virus_flag \in BOOLEAN

LEMMA InParts == TypeOK <=> Texts /\ Numbers /\ Marks
BY Zenon DEF TypeOK, Texts, Numbers, Marks

LEMMA FromParts == ASSUME Texts', Numbers', Marks' PROVE TypeOK'
BY Zenon DEF TypeOK, Texts, Numbers, Marks

LEMMA MarksType ==
  ASSUME Marks, Start \/ Scan \/ Answer \/ WriteFile \/ EditBlacklist
  PROVE  Marks'
<1>1. readable' \in BOOLEAN /\ virus_flag' \in BOOLEAN
  BY Zenon DEF Marks, Start, Scan, LoadPage, NextLine, EndOfList, ScanPage, ReadFails, EndOfFile,
               Answer, WriteFile, EditBlacklist, Out
<1>2. pc' \in {pc, "idle", "line", "page", "done", "oops"}
  BY DEF Start, Scan, LoadPage, NextLine, EndOfList, ScanPage, ReadFails, EndOfFile,
         Answer, WriteFile, EditBlacklist, Out
<1> QED
  BY <1>1, <1>2 DEF Marks

LEMMA StartType ==
  ASSUME Texts, Numbers, Start \/ Answer \/ EndOfList \/ ReadFails \/ EndOfFile
  PROVE  Texts' /\ Numbers'
<1>1. CASE Start
  BY <1>1 DEF Start, Texts, Numbers, files, list
<1>2. CASE Answer
  BY <1>2, CharFact DEF Answer, NoLocals, Texts, Numbers, files
<1>3. CASE EndOfList \/ ReadFails
  BY <1>3 DEF EndOfList, ReadFails, Texts, Numbers, files, list, cursor
<1>4. CASE EndOfFile
  BY <1>4 DEF EndOfFile, Texts, Numbers, files, list, cursor
<1> QED
  BY <1>1, <1>2, <1>3, <1>4

LEMMA OthersType ==
  ASSUME Texts, Numbers, WriteFile \/ EditBlacklist
  PROVE  Texts' /\ Numbers'
<1>1. CASE WriteFile
  <2>1. file' \in Seq(Char)
    <3>1. \A b \in Byte : Append(file, b) \in Seq(Char)
      BY CharFact, AppendProperties DEF Texts
    <3> QED
      BY <1>1, <3>1, CharFact DEF WriteFile
  <2> QED
    BY <1>1, <2>1 DEF WriteFile, Texts, Numbers, list, cursor
<1>2. CASE EditBlacklist
  <2>1. \A l \in Line : blacklist \o l \in Seq(Char)
    BY ScanAssumption, ConcatProperties DEF Texts
  <2>2. blacklist' \in Seq(Char)
    BY <1>2, <2>1 DEF EditBlacklist
  <2> QED
    BY <1>2, <2>2 DEF EditBlacklist, Texts, Numbers, list, cursor
<1> QED
  BY <1>1, <1>2

LEMMA LoadPageType ==
  ASSUME Texts, Numbers, LoadPage
  PROVE  Texts' /\ Numbers'
<1> DEFINE n    == ReadSize(blacklist, blacklist_fp, Page)
           data == SubSeq(blacklist, blacklist_fp + 1, blacklist_fp + n)
<1>1. n # 0
  BY PageFact DEF Texts, Numbers, LoadPage, ReadSize
<1>2. n \in 1 .. Page /\ data \in Seq(Char) /\ Len(data) = n
  BY <1>1, ReadFact, PageFact DEF Texts, Numbers
<1>3. /\ work' \in {work, SubSeq(data, 1, Kept(data))}
      /\ blacklist_fp' \in {blacklist_fp, blacklist_fp + Kept(data)}
      /\ UNCHANGED <<files, pattern, cursor, checked>>
  BY Zenon DEF LoadPage
<1> HIDE DEF n, data
<1>4. data # <<>>
  BY <1>2
<1>5. Kept(data) \in 1 .. Len(data)
  BY <1>2, <1>4, KeptFact
<1>6. \A i \in 1 .. Kept(data) : data[i] \in Char
  BY <1>2, <1>5
<1>7. SubSeq(data, 1, Kept(data)) \in Seq(Char)
  BY <1>5, <1>6, SubSeqProperties
<1>8. Kept(data) \in Nat
  BY <1>2, <1>5
<1>9. work' \in Seq(Char)
  BY Zenon, <1>3, <1>7 DEF Texts
<1>10. blacklist_fp' \in Nat
  BY <1>3, <1>8 DEF Numbers
<1> QED
  BY <1>3, <1>9, <1>10 DEF Texts, Numbers, files, cursor

LEMMA NextLineType ==
  ASSUME Texts, Numbers, NextLine
  PROVE  Texts' /\ Numbers'
<1> DEFINE line == Before(work, NL)
<1>1. line \in Seq(Char) /\ After(work, NL) \in Seq(Char)
  BY StringFact DEF Texts
<1>2. convert(After(line, ",")) \in Seq(Char)
  BY <1>1, StringFact, ConvertFact
<1>3. /\ work' = After(work, NL) /\ pattern' \in {pattern, convert(After(line, ","))}
      /\ file_size' \in {file_size, original_file_size} /\ f_pos' \in {f_pos, 0}
      /\ UNCHANGED <<files, blacklist_fp, original_file_size, checked>>
  BY Zenon DEF NextLine
<1> HIDE DEF line
<1>4. work' \in Seq(Char) /\ pattern' \in Seq(Char)
  BY Zenon, <1>1, <1>2, <1>3 DEF Texts
<1>5. file_size' \in Int /\ f_pos' \in Int
  <2>1. original_file_size \in Int /\ 0 \in Int
    BY DEF Numbers
  <2> QED
    BY Zenon, <1>3, <2>1 DEF Numbers
<1> QED
  BY <1>3, <1>4, <1>5 DEF Texts, Numbers, files

(* What a step of the scan of the file does: it ends, or it moves on.      *)
LEMMA ScanPageFact ==
  ASSUME Texts, Numbers, ScanPage
  PROVE  LET n == ReadSize(file, f_pos, Page - 1)
             data == SubSeq(file, f_pos + 1, f_pos + n)
         IN /\ f_pos \in Nat /\ pc = "page" /\ file_size > 0 /\ n \in Nat
            /\ UNCHANGED <<files, blacklist_fp, work, pattern, original_file_size, checked>>
            /\ \/ pc' = "done" /\ strstr(data, pattern) /\ UNCHANGED <<file_size, f_pos>>
               \/ /\ pc' = "page" /\ ~strstr(data, pattern) /\ virus_flag' = virus_flag
                  /\ \/ /\ f_pos + n # original_file_size
                        /\ f_pos' = f_pos + n - Len(pattern)
                        /\ file_size' = file_size - n + Len(pattern)
                     \/ /\ f_pos + n = original_file_size
                        /\ f_pos' = f_pos + n - 0
                        /\ file_size' = file_size - n + 0
<1>1. f_pos \in Nat
  BY DEF Numbers, ScanPage
<1>2. ReadSize(file, f_pos, Page - 1) \in Nat
  <2>1. file \in Seq(Char)
    BY DEF Texts
  <2>2. ReadSize(file, f_pos, Page - 1) \in 0 .. Page - 1
    BY <1>1, <2>1, ReadFact, PageFact
  <2> QED
    BY <2>2, PageFact
<1> QED
  BY <1>1, <1>2, Zenon DEF ScanPage, Out, list, cursor

LEMMA ScanType ==
  ASSUME Texts, Numbers, Scan
  PROVE  Texts' /\ Numbers'
<1>1. CASE ScanPage
  <2>1. Len(pattern) \in Nat
    BY DEF Texts
  <2> DEFINE n == ReadSize(file, f_pos, Page - 1)
  <2>2. /\ n \in Nat
        /\ UNCHANGED <<files, blacklist_fp, work, pattern, original_file_size, checked>>
        /\ f_pos' \in {f_pos, f_pos + n - Len(pattern), f_pos + n - 0}
        /\ file_size' \in {file_size, file_size - n + Len(pattern), file_size - n + 0}
    BY <1>1, ScanPageFact
  <2> HIDE DEF n
  <2>3. f_pos' \in Int /\ file_size' \in Int
    BY <2>1, <2>2 DEF Numbers
  <2> QED
    BY <2>2, <2>3 DEF Texts, Numbers, files
<1> QED
  BY <1>1, StartType, LoadPageType, NextLineType DEF Scan

(* The files may have changed at the hands of others or of an open.        *)
LEMMA FileType ==
  ASSUME Texts, Numbers, file' \in Seq(Char),
         UNCHANGED <<blacklist, pc, list, cursor, virus_flag, checked>>
  PROVE  Texts' /\ Numbers'
BY DEF Texts, Numbers, list, cursor

LEMMA OpenTypeStep ==
  ASSUME OpenTypeOK, [OpenNext]_allVars
  PROVE  OpenTypeOK'
<1>0. Texts /\ Numbers /\ Marks
  BY Zenon, InParts DEF OpenTypeOK
<1>1. CASE UNCHANGED allVars
  BY <1>1 DEF OpenTypeOK, TypeOK, allVars, vars, path, call, files, list, cursor
<1>2. CASE Others
  <2>1. CASE (WriteFile \/ EditBlacklist) /\ UNCHANGED path
    <3>1. TypeOK'
      BY <1>0, <2>1, OthersType, MarksType, FromParts
    <3> QED
      BY Zenon, <1>2, <2>1, <3>1 DEF OpenTypeOK, Others, path, call
  <2>2. CASE ~((WriteFile \/ EditBlacklist) /\ UNCHANGED path)
    <3>1. /\ exists' \in BOOLEAN /\ listed' \in BOOLEAN /\ kind' \in {"regular", "device", "dir"}
          /\ file' \in {file, <<>>} \cup {<<b>> : b \in Byte}
          /\ UNCHANGED <<blacklist, readable, pc, list, cursor, virus_flag, checked>>
      BY <1>2, <2>2, OpenAssumption DEF OpenTypeOK, Others, vars, files
    <3>2. file' \in Seq(Char)
      <4>1. \A b \in Byte : <<b>> \in Seq(Char)
        BY CharFact
      <4> QED
        BY <1>0, <3>1, <4>1, CharFact DEF Texts
    <3>3. TypeOK'
      BY <1>0, <3>1, <3>2, FileType, FromParts DEF Marks
    <3> QED
      BY Zenon, <1>2, <3>1, <3>3 DEF OpenTypeOK, Others, call
  <2> QED
    BY <2>1, <2>2
<1>3. ASSUME KernelOpen, UNCHANGED <<listed, blacklist, pc, list, cursor, virus_flag, checked>>,
             readable' \in BOOLEAN
      PROVE  /\ TypeOK'
             /\ exists' \in BOOLEAN /\ kind' \in {"regular", "device", "dir"} /\ listed' \in BOOLEAN
  <2>1. file' \in Seq(Char)
    BY <1>0, <1>3, CharFact DEF Texts, KernelOpen
  <2>2. TypeOK'
    BY <1>0, <1>3, <2>1, FileType, FromParts DEF Marks
  <2> QED
    BY <1>3, <2>2 DEF OpenTypeOK, KernelOpen
<1>4. ASSUME NEW r \in {"none", "fd", "EPERM", "ENOENT", "EEXIST"}, Return(r)
      PROVE  /\ at' = "user" /\ result' = r /\ flags' = {}
             /\ before' \in [exists : BOOLEAN, kind : {"regular", "device", "dir"}, file : Seq(Char)]
  BY <1>4, CharFact DEF Return, Fresh
<1>5. CASE CallOpen
  <2>1. TypeOK'
    BY Zenon, <1>5 DEF OpenTypeOK, TypeOK, CallOpen, vars, files, list, cursor
  <2>2. flags' \in SUBSET {"creat", "excl", "trunc", "write"}
    BY <1>5, OpenAssumption DEF CallOpen
  <2>3. before' \in [exists : BOOLEAN, kind : {"regular", "device", "dir"}, file : Seq(Char)]
    BY <1>0, <1>5 DEF CallOpen, Path, OpenTypeOK, Texts
  <2> QED
    BY <1>5, <2>1, <2>2, <2>3 DEF OpenTypeOK, CallOpen, path
<1>6. CASE OpenBlacklist
  <2>1. TypeOK'
    BY Zenon, <1>6 DEF OpenTypeOK, OpenBlacklist, TypeOK, vars, files, list, cursor
  <2> QED
    BY <1>6, <2>1 DEF OpenTypeOK, OpenBlacklist, path
<1>7. CASE OpenInput
  BY <1>3, <1>7 DEF OpenInput, OpenTypeOK
<1>8. CASE Scanning
  <2>1. Texts' /\ Numbers' /\ Marks'
    BY <1>0, <1>8, StartType, ScanType, MarksType DEF Scanning
  <2> QED
    BY Zenon, <1>8, <2>1, FromParts DEF Scanning, path, call, OpenTypeOK
<1>9. CASE Verdict
  <2>1. Texts' /\ Numbers' /\ Marks'
    BY <1>0, <1>9, StartType, MarksType DEF Verdict
  <2> QED
    BY <1>4, <1>9, <2>1, FromParts DEF Verdict, path, OpenTypeOK
<1>10. CASE OriginalOpen
  <2>1. Outcome(exists, flags) \in {"fd", "ENOENT", "EEXIST"}
    BY DEF Outcome
  <2> QED
    BY <1>0, <1>3, <1>4, <1>10, <2>1 DEF OriginalOpen, OpenTypeOK, Marks
<1> QED
  BY <1>1, <1>2, <1>5, <1>6, <1>7, <1>8, <1>9, <1>10 DEF OpenNext, Step

LEMMA OpenTypeInit == OpenInit => OpenTypeOK
<1>1. ASSUME OpenInit
      PROVE  Texts /\ Numbers /\ Marks
  <2>1. Texts
    BY <1>1, CharFact DEF OpenInit, Init, Texts
  <2>2. Numbers
    BY <1>1 DEF OpenInit, Init, Numbers
  <2>3. Marks
    BY <1>1 DEF OpenInit, Init, Marks
  <2> QED
    BY <2>1, <2>2, <2>3
<1>2. Fresh \in [exists : BOOLEAN, kind : {"regular", "device", "dir"}, file : Seq(Char)]
  BY CharFact DEF Fresh
<1> QED
  BY <1>1, <1>2, InParts DEF OpenInit, OpenTypeOK

(* Every variable of the scan and of the open keeps its type, for every    *)
(* page size, blacklist, file and kind of file.                            *)
THEOREM TypeCorrect == OpenSpec => []OpenTypeOK
BY OpenTypeInit, OpenTypeStep, PTL DEF OpenSpec

-----------------------------------------------------------------------------
(***************************************************************************)
(* ScanExact is not inductive: that a pattern which the scan is through    *)
(* with is nowhere in the file rests on what it knows on the way, that no  *)
(* occurrence begins before f_pos, or anywhere once f_pos is at the end.   *)
(***************************************************************************)
Clear == ~Has(file, Nul) /\ ~Has(pattern, Nul)
Searched ==
  /\ file_size = Len(file) - f_pos /\ f_pos <= Len(file)
  /\ Clear => \A i \in 0 .. f_pos - 1 : ~OccursAt(file, pattern, i)
  /\ Clear /\ f_pos = Len(file) => file = <<>> \/ ~Occurs(file, pattern)
Sized ==
  /\ at # "scan" => pc = "idle"
  /\ pc = "idle" => checked = {}
  /\ pc # "idle" => original_file_size = Len(file)
Flagged == virus_flag => pc = "done"
Inv == Sized /\ Flagged /\ (pc = "page" => Searched) /\ ScanExact

(* strstr on one page: what it finds is in the file, and what it does not  *)
(* find begins nowhere in the page, but for where it would leave the page. *)
LEMMA PageExact ==
  ASSUME NEW f \in Seq(Char), NEW p \in Seq(Char), NEW pos \in Nat, NEW m \in Nat,
         ~Has(f, Nul), ~Has(p, Nul)
  PROVE  LET n == ReadSize(f, pos, m)
             data == SubSeq(f, pos + 1, pos + n)
         IN IF strstr(data, p) THEN n = 0 \/ Occurs(f, p)
            ELSE \A i \in pos .. pos + n - Len(p) : ~OccursAt(f, p, i)
<1> DEFINE n == ReadSize(f, pos, m)
           data == SubSeq(f, pos + 1, pos + n)
<1>1. /\ n \in Nat /\ (n = 0 \/ pos + n <= Len(f))
      /\ data \in Seq(Char) /\ Len(data) = n
      /\ \A k \in 1 .. n : data[k] = f[pos + k]
  <2>1. n \in Nat
    BY ReadFact DEF ReadSize
  <2> QED
    BY <2>1, ReadFact
<1>2. Len(p) \in Nat /\ Len(f) \in Nat
  OBVIOUS
<1> HIDE DEF n, data
<1>3. \A k \in 1 .. n : pos + k \in 1 .. Len(f)
  BY <1>1, <1>2
<1>4. ~Has(data, Nul)
  BY <1>1, <1>3 DEF Has
<1>5. strstr(data, p) <=> Occurs(data, p)
  BY <1>1, <1>4, StringFact DEF strstr
<1>6. ASSUME NEW j \in 0 .. n, OccursAt(data, p, j), n # 0
      PROVE  pos + j \in 0 .. Len(f) /\ OccursAt(f, p, pos + j)
  <2>1. pos + j + Len(p) <= Len(f) /\ pos + j \in 0 .. Len(f)
    BY <1>1, <1>2, <1>6 DEF OccursAt
  <2>2. ASSUME NEW k \in 1 .. Len(p)
        PROVE  f[(pos + j) + k] = p[k]
    <3>1. j + k \in 1 .. n /\ data[j + k] = p[k] /\ pos + (j + k) = (pos + j) + k
      BY <1>1, <1>2, <1>6 DEF OccursAt
    <3> QED
      BY <1>1, <3>1
  <2> QED
    BY <2>1, <2>2 DEF OccursAt
<1>7. ASSUME NEW i \in pos .. pos + n - Len(p), OccursAt(f, p, i)
      PROVE  Occurs(data, p)
  <2>1. i - pos \in 0 .. n /\ (i - pos) + Len(p) <= n
    BY <1>1, <1>2
  <2>2. ASSUME NEW k \in 1 .. Len(p)
        PROVE  data[(i - pos) + k] = p[k]
    <3>1. (i - pos) + k \in 1 .. n /\ f[i + k] = p[k] /\ pos + ((i - pos) + k) = i + k
      BY <1>1, <1>2, <1>7, <2>1 DEF OccursAt
    <3> QED
      BY <1>1, <3>1
  <2> QED
    BY <1>1, <2>1, <2>2 DEF Occurs, OccursAt
<1>8. Occurs(data, p) => n = 0 \/ Occurs(f, p)
  BY <1>1, <1>6 DEF Occurs
<1>9. CASE strstr(data, p)
  BY <1>5, <1>8, <1>9 DEF n, data
<1>10. CASE ~strstr(data, p)
  BY <1>5, <1>7, <1>10 DEF n, data
<1> QED
  BY <1>9, <1>10

(* Between two scans there is nothing to know.                             *)
LEMMA IdleStep ==
  ASSUME Inv, pc = "idle", pc' = "idle", checked' = {}, ~virus_flag'
  PROVE  Inv'
BY DEF Inv, Sized, Flagged, ScanExact

(* A step of a scan that neither ends it nor reads the file.               *)
LEMMA QuietStep ==
  ASSUME Inv, pc # "idle", pc' # "idle", pc' # "page", at' = "scan", ~virus_flag',
         UNCHANGED <<file, original_file_size, checked>>
  PROVE  Inv'
<1>1. Sized'
  BY DEF Inv, Sized
<1>2. Flagged' /\ (pc' = "page" => Searched')
  BY DEF Flagged
<1>3. ScanExact'
  BY DEF Inv, ScanExact
<1> QED
  BY <1>1, <1>2, <1>3 DEF Inv

LEMMA NextLineStep ==
  ASSUME Texts, Inv, at' = "scan", UNCHANGED file, NextLine
  PROVE  Inv'
<1>1. pc = "line" /\ ~virus_flag
  BY Zenon DEF Inv, Flagged, NextLine
<1>2. UNCHANGED <<file, original_file_size, checked>>
  BY Zenon DEF NextLine, files
<1>3. CASE Out(FALSE)
  BY Zenon, <1>1, <1>2, <1>3, QuietStep DEF Out
<1>4. CASE ~Out(FALSE)
  <2>1. file_size' = original_file_size /\ f_pos' = 0 /\ pc' = "page" /\ virus_flag' = virus_flag
    BY Zenon, <1>4 DEF NextLine
  <2>2. original_file_size = Len(file) /\ Len(file) \in Nat
    BY <1>1 DEF Inv, Sized, Texts
  <2>3. f_pos' = Len(file) => file = <<>>
    BY <2>1, <2>2, EmptySeq DEF Texts
  <2>4. Searched'
    BY <1>2, <2>1, <2>2, <2>3 DEF Searched
  <2>5. Sized'
    BY <1>1, <1>2, <2>1 DEF Inv, Sized
  <2>6. Flagged' /\ ~virus_flag'
    BY Zenon, <1>1, <2>1 DEF Flagged
  <2>7. ScanExact'
    BY <1>1, <1>2, <2>6 DEF Inv, ScanExact
  <2> QED
    BY <2>4, <2>5, <2>6, <2>7 DEF Inv
<1> QED
  BY <1>3, <1>4

LEMMA EndOfFileStep ==
  ASSUME Texts, Numbers, Inv, at' = "scan", UNCHANGED file, EndOfFile
  PROVE  Inv'
<1>1. pc = "page" /\ pc' = "line" /\ file_size <= 0 /\ ~virus_flag /\ ~virus_flag'
  BY Zenon DEF Inv, Flagged, EndOfFile
<1>2. /\ checked' = checked \cup {pattern}
      /\ UNCHANGED <<file, pattern, original_file_size>>
  BY DEF EndOfFile, list, cursor
<1>3. Searched /\ Len(file) \in Nat
  BY <1>1 DEF Inv, Texts
<1>4. f_pos = Len(file)
  BY <1>1, <1>3 DEF Searched, Numbers
<1>5. ~Has(file, Nul) => Has(pattern, Nul) \/ file = <<>> \/ ~Occurs(file, pattern)
  BY <1>3, <1>4 DEF Searched, Clear
<1>6. ScanExact'
  BY <1>1, <1>2, <1>5 DEF Inv, ScanExact
<1>7. Sized' /\ Flagged'
  BY <1>1, <1>2 DEF Inv, Sized, Flagged
<1> QED
  BY <1>1, <1>6, <1>7 DEF Inv

(* The step back is what keeps occurrences across two pages in sight.      *)
LEMMA ScanPageStep ==
  ASSUME Texts, Numbers, Inv, at' = "scan", UNCHANGED file, ScanPage
  PROVE  Inv'
<1> DEFINE n == ReadSize(file, f_pos, Page - 1)
           data == SubSeq(file, f_pos + 1, f_pos + n)
           L == Len(pattern)
<1>1. /\ f_pos \in Nat /\ pc = "page" /\ file_size > 0 /\ n \in Nat
      /\ UNCHANGED <<file, pattern, original_file_size, checked>>
      /\ \/ pc' = "done" /\ strstr(data, pattern)
         \/ /\ pc' = "page" /\ ~strstr(data, pattern) /\ virus_flag' = virus_flag
            /\ \/ /\ f_pos + n # original_file_size
                  /\ f_pos' = f_pos + n - L
                  /\ file_size' = file_size - n + L
               \/ /\ f_pos + n = original_file_size
                  /\ f_pos' = f_pos + n - 0
                  /\ file_size' = file_size - n + 0
  BY Zenon, ScanPageFact DEF files
<1>2. Clear => IF strstr(data, pattern) THEN n = 0 \/ Occurs(file, pattern)
               ELSE \A i \in f_pos .. f_pos + n - L : ~OccursAt(file, pattern, i)
  BY <1>1, PageFact, PageExact DEF Texts, Clear
<1>3. L \in Nat /\ Len(file) \in Nat /\ file_size \in Int /\ original_file_size = Len(file) /\ Searched
  BY <1>1 DEF Inv, Sized, Texts, Numbers
<1>4. n > 0 /\ f_pos + n <= Len(file)
  <2>1. f_pos < Len(file)
    BY <1>1, <1>3 DEF Searched
  <2> QED
    BY <1>1, <1>3, <2>1, PageFact DEF ReadSize
<1> HIDE DEF n, data, L
<1>5. Sized'
  BY <1>1 DEF Inv, Sized
<1>6. ~virus_flag
  BY Zenon, <1>1 DEF Inv, Flagged
<1>7. CASE pc' = "done"
  <2>1. strstr(data, pattern)
    BY <1>1, <1>7
  <2>2. Clear => Occurs(file, pattern)
    BY <1>2, <1>4, <2>1
  <2>3. ScanExact'
    BY <1>1, <2>2 DEF Inv, ScanExact, Clear
  <2> QED
    BY <1>5, <1>7, <2>3 DEF Inv, Flagged
<1>8. CASE pc' = "page"
  <2>1. pc' # "done"
    BY <1>8
  <2>2. /\ ~strstr(data, pattern)
        /\ virus_flag' = virus_flag
        /\ \/ /\ f_pos + n # original_file_size
              /\ f_pos' = f_pos + n - L
              /\ file_size' = file_size - n + L
           \/ /\ f_pos + n = original_file_size
              /\ f_pos' = f_pos + n - 0
              /\ file_size' = file_size - n + 0
    BY ZenonT(30), <1>1, <2>1
  <2>3. ~virus_flag'
    BY Zenon, <1>6, <2>2
  <2>4. Clear => \A i \in f_pos .. f_pos + n - L : ~OccursAt(file, pattern, i)
    BY <1>2, <2>2
  <2>5. Clear => \A i \in 0 .. f_pos - 1 : ~OccursAt(file, pattern, i)
    BY <1>3 DEF Searched
  <2>6. Clear => \A i \in 0 .. f_pos + n - L : ~OccursAt(file, pattern, i)
    BY <1>1, <1>3, <2>4, <2>5
  <2>7. \A i \in Int : i + L > Len(file) => ~OccursAt(file, pattern, i)
    BY <1>3 DEF OccursAt, L
  <2>8. ASSUME f_pos + n # Len(file)
        PROVE  Searched'
    <3>1. f_pos' = f_pos + n - L /\ file_size' = file_size - n + L
      BY <1>3, <2>2, <2>8
    <3>2. f_pos' < Len(file) /\ file_size' = Len(file) - f_pos'
      BY <1>1, <1>3, <1>4, <2>8, <3>1 DEF Searched
    <3> QED
      BY <1>1, <1>3, <2>6, <3>1, <3>2 DEF Searched, Clear
  <2>9. ASSUME f_pos + n = Len(file)
        PROVE  Searched'
    <3>1. f_pos' = Len(file) /\ file_size' = Len(file) - f_pos'
      BY <1>1, <1>3, <2>2, <2>9 DEF Searched
    <3>2. Clear => \A i \in 0 .. Len(file) : ~OccursAt(file, pattern, i)
      BY <1>1, <1>3, <2>6, <2>7, <2>9
    <3>3. Clear => ~Occurs(file, pattern)
      BY <3>2 DEF Occurs
    <3> QED
      BY <1>1, <1>3, <3>1, <3>2, <3>3 DEF Searched, Clear
  <2>10. Searched'
    BY <2>8, <2>9
  <2>11. ScanExact'
    BY <1>1, <2>3 DEF Inv, ScanExact
  <2> QED
    BY <1>5, <1>8, <2>3, <2>10, <2>11 DEF Inv, Flagged
<1> QED
  BY <1>1, <1>7, <1>8

LEMMA InvStep ==
  ASSUME "change" \notin Hazards, OpenTypeOK, Inv, [OpenNext]_allVars
  PROVE  Inv'
<1>0. Texts /\ Numbers
  BY Zenon, InParts DEF OpenTypeOK
<1>1. CASE UNCHANGED allVars
  BY <1>1 DEF allVars, vars, call, files, list, cursor, Inv, Sized, Flagged, Searched, Clear, ScanExact
<1>2. ASSUME at # "scan", UNCHANGED <<pc, checked, virus_flag>>
      PROVE  Inv'
  <2>1. pc = "idle" /\ checked = {} /\ ~virus_flag
    BY <1>2 DEF Inv, Sized, Flagged
  <2>2. ~virus_flag'
    BY Zenon, <1>2, <2>1
  <2> QED
    BY <1>2, <2>1, <2>2, IdleStep
<1>3. CASE Others
  <2>1. at = "user"
    BY <1>3 DEF Others
  <2>2. UNCHANGED <<pc, checked, virus_flag>>
    BY <1>3 DEF Others, WriteFile, EditBlacklist, vars
  <2> QED
    BY <1>2, <2>1, <2>2
<1>4. CASE CallOpen \/ OpenBlacklist \/ OpenInput \/ OriginalOpen
  <2>1. UNCHANGED <<pc, checked, virus_flag>>
    BY <1>4 DEF CallOpen, OpenBlacklist, OpenInput, OriginalOpen, vars
  <2>2. at # "scan"
    BY <1>4 DEF CallOpen, OpenBlacklist, OpenInput, OriginalOpen
  <2> QED
    BY <1>2, <2>1, <2>2
<1>5. CASE Scanning
  <2>1. at = "scan" /\ at' = "scan"
    BY <1>5 DEF Scanning, call
  <2>2. CASE Start
    <3>1. /\ pc = "idle" /\ pc' \in {"line", "done", "oops"} /\ original_file_size' = Len(file)
          /\ UNCHANGED <<file, checked>>
      BY <2>2 DEF Start, Out, files
    <3>2. virus_flag' \in {virus_flag, FALSE}
      BY Zenon, <2>2 DEF Start, Out
    <3>3. checked = {} /\ ~virus_flag
      BY <3>1 DEF Inv, Sized, Flagged
    <3>4. ~virus_flag'
      BY Zenon, <3>2, <3>3
    <3>5. Sized'
      BY <2>1, <3>1 DEF Sized
    <3> QED
      BY <3>1, <3>3, <3>4, <3>5 DEF Inv, Flagged, ScanExact
  <2>3. CASE LoadPage \/ EndOfList \/ ReadFails
    <3>1. pc \in {"line", "page"} /\ pc' \in {"line", "done", "oops"}
      BY <2>3 DEF LoadPage, EndOfList, ReadFails, Out
    <3>2. UNCHANGED <<file, original_file_size, checked>>
      BY <2>3 DEF LoadPage, EndOfList, ReadFails, files, cursor
    <3>3. virus_flag' \in {virus_flag, FALSE}
      BY Zenon, <2>3 DEF LoadPage, EndOfList, ReadFails, Out
    <3>4. ~virus_flag
      BY <3>1 DEF Inv, Flagged
    <3>5. ~virus_flag'
      BY Zenon, <3>3, <3>4
    <3>6. pc # "idle" /\ pc' # "idle" /\ pc' # "page"
      BY <3>1
    <3> QED
      BY Zenon, <2>1, <3>2, <3>5, <3>6, QuietStep
  <2>4. CASE NextLine
    BY <1>0, <2>1, <2>4, NextLineStep DEF NextLine, files
  <2>5. CASE EndOfFile
    BY <1>0, <2>1, <2>5, EndOfFileStep DEF EndOfFile, files
  <2>6. CASE ScanPage
    BY <1>0, <2>1, <2>6, ScanPageStep DEF ScanPage, files
  <2> QED
    BY <1>5, <2>2, <2>3, <2>4, <2>5, <2>6 DEF Scanning, Scan
<1>6. CASE Verdict
  <2>1. pc = "done" /\ pc' = "idle" /\ checked' = {} /\ virus_flag' = FALSE
    BY Zenon, <1>6 DEF Verdict, Answer, NoLocals
  <2> QED
    BY <2>1 DEF Inv, Sized, Flagged, ScanExact
<1> QED
  BY <1>1, <1>3, <1>4, <1>5, <1>6 DEF OpenNext, Step

(* As long as nobody writes the file during a scan, a pattern the scan is  *)
(* through with is nowhere in the file, across two pages or not, and the   *)
(* pattern it stops at is there: for every page size, every file and every *)
(* blacklist, over any sequence of opens.                                  *)
THEOREM ScanExactAlways ==
  ASSUME "change" \notin Hazards
  PROVE  OpenSpec => []ScanExact
<1>1. OpenInit => Inv
  BY DEF OpenInit, Init, Inv, Sized, Flagged, ScanExact
<1>2. OpenTypeOK /\ Inv /\ [OpenNext]_allVars => Inv'
  BY InvStep
<1>3. Inv => ScanExact
  BY DEF Inv
<1> QED
  BY <1>1, <1>2, <1>3, TypeCorrect, PTL DEF OpenSpec

-----------------------------------------------------------------------------
(***************************************************************************)
(* NoOops.  The scan never leaves a buffer: the position never goes below  *)
(* 0, since a pattern is shorter than the page that the step back follows; *)
(* and a page of a well-formed blacklist, which begins where a line does,  *)
(* holds a line end, and never one as its last character of all.           *)
(***************************************************************************)
Fits ==
  /\ Len(work) < Page
  /\ pc = "page" => f_pos >= 0 /\ Len(pattern) < Page
  /\ pc = "idle" => blacklist_fp = 0 /\ work = <<>>
  /\ WellFormed(blacklist) => blacklist_fp + 1 \in LineStarts(blacklist)
NoInv == Fits /\ NoOops

LEMMA KeptEnd ==
  ASSUME NEW data \in Seq(Char), data # <<>>
  PROVE  /\ Kept(data) \in 1 .. Len(data)
         /\ Has(data, NL) => data[Kept(data)] = NL
         /\ Kept(data) = Len(data) => data[Len(data)] = NL \/ Len(data) = 1
<1> DEFINE P(k) == /\ k = 1 \/ data[k] = NL
                   /\ \A j \in k + 1 .. Len(data) : data[j] # NL
<1>0. Len(data) \in Nat /\ Len(data) # 0 /\ Kept(data) \in 1 .. Len(data)
  BY KeptFact, EmptySeq
<1>1. CASE data[Len(data)] = NL
  BY <1>0, <1>1 DEF Kept
<1>2. CASE data[Len(data)] # NL
  <2> DEFINE T == {k \in 1 .. Len(data) : k = 1 \/ data[k] = NL}
  <2>1. PICK g \in T : \A j \in T : j <= g
    <3>1. T \in SUBSET (0 .. Len(data)) /\ 1 \in T
      BY <1>0
    <3> QED
      BY <1>0, <3>1, Greatest
  <2>2. g \in 1 .. Len(data) /\ P(g)
    BY <2>1, <1>0
  <2>3. Kept(data) = CHOOSE k \in 1 .. Len(data) : P(k)
    BY <1>2 DEF Kept
  <2>4. P(Kept(data))
    BY <2>2, <2>3
  <2>5. ASSUME NEW i \in 1 .. Len(data), data[i] = NL
        PROVE  data[Kept(data)] = NL
    BY <1>0, <2>4, <2>5
  <2> QED
    BY <1>0, <1>2, <2>4, <2>5 DEF Has
<1> QED
  BY <1>1, <1>2

LEMMA StartFact ==
  ASSUME NEW text \in Seq(Char), NEW i \in 1 .. Len(text)
  PROVE  text[i] = NL <=> i + 1 \in LineStarts(text)
BY DEF LineStarts

LEMMA PageLines ==
  ASSUME NEW text \in Seq(Char), WellFormed(text), NEW pos \in Nat, pos < Len(text), pos + 1 \in LineStarts(text)
  PROVE  LET n    == ReadSize(text, pos, Page)
             data == SubSeq(text, pos + 1, pos + n)
         IN Has(data, NL) /\ ~(n = Page /\ data[n] = NL)
<1> DEFINE n    == ReadSize(text, pos, Page)
           data == SubSeq(text, pos + 1, pos + n)
           i    == pos + 1
           T    == {j \in LineStarts(text) : i < j}
<1>0. Len(text) \in Nat /\ Page \in Nat /\ Page > 1
  BY PageFact
<1>1. /\ n = IF Len(text) - pos < Page THEN Len(text) - pos ELSE Page
      /\ n \in 1 .. Page /\ pos + n <= Len(text) /\ Len(data) = n
      /\ \A k \in 1 .. n : data[k] = text[pos + k]
  <2>1. n = IF Len(text) - pos < Page THEN Len(text) - pos ELSE Page
    BY <1>0 DEF ReadSize
  <2>2. /\ n \in 0 .. Page /\ (n = 0 \/ pos + n <= Len(text)) /\ Len(data) = n
        /\ \A k \in 1 .. n : data[k] = text[pos + k]
    BY <1>0, ReadFact
  <2> HIDE DEF n, data
  <2>3. n \in 1 .. Page /\ pos + n <= Len(text)
    BY <1>0, <2>1, <2>2
  <2> QED
    BY <2>1, <2>2, <2>3
<1> HIDE DEF n, data
<1>2. PICK j \in T : \A k \in T : j <= k
  <2>0. Len(text) + 1 \in LineStarts(text)
    BY Zenon DEF WellFormed
  <2>1. Len(text) + 1 \in T
    BY <1>0, <2>0
  <2>2. T \in SUBSET Nat
    BY DEF LineStarts
  <2> QED
    BY <2>1, <2>2, Least
<1>3. /\ j \in LineStarts(text) /\ i < j /\ j \in 2 .. Len(text) + 1
      /\ \A k \in LineStarts(text) : k <= i \/ k >= j
  BY <1>2 DEF LineStarts
<1>4. SubSeq(text, i, j - 2) \in Lines(text)
  <2>1. <<i, j>> \in LineStarts(text) \X LineStarts(text)
    BY <1>3
  <2> DEFINE ij == <<i, j>>
  <2>2. ij[1] < ij[2] /\ \A k \in LineStarts(text) : k <= ij[1] \/ k >= ij[2]
    BY <1>3
  <2>3. SubSeq(text, ij[1], ij[2] - 2) = SubSeq(text, i, j - 2)
    OBVIOUS
  <2> QED
    BY <2>1, <2>2, <2>3 DEF Lines
<1>5. Len(SubSeq(text, i, j - 2)) = j - 1 - i
  <2>1. i \in Int /\ j - 2 \in Int /\ \A k \in i .. j - 2 : text[k] \in Char
    BY <1>0, <1>3
  <2>2. Len(SubSeq(text, i, j - 2)) = IF i <= j - 2 THEN j - 2 - i + 1 ELSE 0
    BY <2>1, SubSeqProperties
  <2> QED
    BY <1>3, <2>2
<1>6. j - i < Page
  <2>1. Len(SubSeq(text, i, j - 2)) + 1 < Page
    BY <1>4 DEF WellFormed
  <2> QED
    BY <1>0, <1>3, <1>5, <2>1
<1>7. text[j - 1] = NL
  BY <1>3 DEF LineStarts
<1>8. j - i \in 1 .. n /\ pos + (j - i) = j - 1
  BY <1>0, <1>1, <1>3, <1>6
<1>9. data[j - i] = NL
  BY <1>1, <1>7, <1>8
<1>10. Has(data, NL)
  BY <1>1, <1>8, <1>9 DEF Has
<1>11. ~(n = Page /\ data[n] = NL)
  <2> SUFFICES ASSUME n = Page, data[n] = NL PROVE FALSE
    OBVIOUS
  <2>1. text[pos + n] = NL /\ pos + n \in 1 .. Len(text)
    BY <1>0, <1>1, SMTT(30)
  <2>2. pos + n + 1 \in LineStarts(text)
    BY <2>1, StartFact
  <2> QED
    <3>1. \A a, b \in LineStarts(text) : b - a # Page
      BY Zenon DEF WellFormed
    <3>2. (pos + n + 1) - i # Page
      BY <2>2, <3>1
    <3> QED
      BY <1>0, <1>1, <3>2
<1> QED
  BY <1>10, <1>11 DEF n, data

(* A step that leaves the lists alone and crashes nothing.                 *)
LEMMA KeepsFits ==
  ASSUME NoInv, UNCHANGED <<blacklist, blacklist_fp, work>>, pc' # "oops",
         pc' = "idle" => pc = "idle",
         pc' = "page" => f_pos' >= 0 /\ Len(pattern') < Page
  PROVE  NoInv'
BY DEF NoInv, Fits, NoOops

LEMMA LoadPageFits ==
  ASSUME Texts, Numbers, NoInv, UNCHANGED readable, LoadPage
  PROVE  NoInv'
<1> DEFINE n    == ReadSize(blacklist, blacklist_fp, Page)
           data == SubSeq(blacklist, blacklist_fp + 1, blacklist_fp + n)
<1>0. /\ pc = "line" /\ blacklist_fp < Len(blacklist) /\ UNCHANGED blacklist
      /\ IF n = Page /\ data[n] = NL
         THEN pc' = "oops" /\ UNCHANGED <<work, blacklist_fp>>
         ELSE /\ work' = SubSeq(data, 1, Kept(data))
              /\ blacklist_fp' = blacklist_fp + Kept(data)
              /\ UNCHANGED pc
  BY Zenon DEF LoadPage, files
<1>1. blacklist \in Seq(Char) /\ blacklist_fp \in Nat /\ Len(blacklist) \in Nat
  BY DEF Texts, Numbers
<1>2. n \in 1 .. Page /\ blacklist_fp + n <= Len(blacklist) /\ data \in Seq(Char) /\ Len(data) = n
      /\ \A k \in 1 .. n : data[k] = blacklist[blacklist_fp + k]
  <2>1. n # 0
    BY <1>0, <1>1, PageFact DEF ReadSize
  <2>2. /\ n \in 0 .. Page /\ (n = 0 \/ blacklist_fp + n <= Len(blacklist))
        /\ data \in Seq(Char) /\ Len(data) = n
        /\ \A k \in 1 .. n : data[k] = blacklist[blacklist_fp + k]
    BY <1>1, ReadFact, PageFact
  <2> HIDE DEF n, data
  <2>3. n \in 1 .. Page /\ blacklist_fp + n <= Len(blacklist)
    BY <2>1, <2>2, PageFact
  <2> QED
    BY <2>2, <2>3
<1>3. WellFormed(blacklist) => Has(data, NL) /\ ~(n = Page /\ data[n] = NL)
  BY <1>0, <1>1, PageLines DEF NoInv, Fits
<1> HIDE DEF n, data
<1>4. CASE n = Page /\ data[n] = NL
  BY <1>0, <1>3, <1>4 DEF NoInv, Fits, NoOops
<1>5. CASE ~(n = Page /\ data[n] = NL)
  <2>1. /\ work' = SubSeq(data, 1, Kept(data)) /\ blacklist_fp' = blacklist_fp + Kept(data) /\ pc' = "line"
    BY <1>0, <1>5
  <2>2. /\ Kept(data) \in 1 .. n /\ (Has(data, NL) => data[Kept(data)] = NL)
        /\ (Kept(data) = n => data[n] = NL \/ n = 1)
    BY <1>2, EmptySeq, KeptEnd
  <2>3. Kept(data) < Page
    BY <1>2, <1>5, <2>2, PageFact
  <2>4. Len(work') = Kept(data)
    <3>1. \A k \in 1 .. Kept(data) : data[k] \in Char
      BY <1>2, <2>2
    <3>2. Kept(data) \in Nat
      BY <1>2, <2>2
    <3>3. Len(SubSeq(data, 1, Kept(data))) = IF 1 <= Kept(data) THEN Kept(data) - 1 + 1 ELSE 0
      BY <3>1, <3>2, SubSeqProperties
    <3> QED
      BY <2>1, <2>2, <3>2, <3>3
  <2>5. ASSUME WellFormed(blacklist)
        PROVE  blacklist_fp' + 1 \in LineStarts(blacklist)
    <3>1. blacklist[blacklist_fp + Kept(data)] = NL /\ blacklist_fp + Kept(data) \in 1 .. Len(blacklist)
      BY <1>1, <1>2, <1>3, <2>2, <2>5
    <3> QED
      BY <1>1, <2>1, <3>1, StartFact
  <2> QED
    BY <1>0, <2>1, <2>3, <2>4, <2>5 DEF NoInv, Fits, NoOops
<1> QED
  BY <1>4, <1>5

LEMMA CutFact ==
  ASSUME NEW s \in Seq(Char), NEW d
  PROVE  /\ Len(Before(s, d)) \in 0 .. Len(s) /\ Len(After(s, d)) \in 0 .. Len(s)
         /\ Len(convert(s)) \in 0 .. Len(s)
<1>1. First(s, d) \in 1 .. Len(s) + 1 /\ Len(s) \in Nat
  BY FirstFact
<1>2. \A k \in 1 .. Len(s) : s[k] \in Char
  OBVIOUS
<1>3. Len(SubSeq(s, 1, First(s, d) - 1)) = IF 1 <= First(s, d) - 1 THEN First(s, d) - 1 - 1 + 1 ELSE 0
  <2>1. \A k \in 1 .. First(s, d) - 1 : s[k] \in Char
    BY <1>1, <1>2
  <2> QED
    BY <1>1, <2>1, SubSeqProperties
<1>4. Len(SubSeq(s, First(s, d) + 1, Len(s))) = IF First(s, d) + 1 <= Len(s) THEN Len(s) - (First(s, d) + 1) + 1 ELSE 0
  <2>1. \A k \in First(s, d) + 1 .. Len(s) : s[k] \in Char
    BY <1>1, <1>2
  <2> QED
    BY <1>1, <2>1, SubSeqProperties
<1>5. Len(convert(s)) = (Len(s) + 1) \div 2
  <2>1. (Len(s) + 1) \div 2 \in Nat
    BY <1>1
  <2> QED
    BY <2>1 DEF convert
<1> QED
  BY <1>1, <1>3, <1>4, <1>5 DEF Before, After

LEMMA NextLineFits ==
  ASSUME Texts, Numbers, NoInv, NextLine
  PROVE  NoInv'
<1> DEFINE line == Before(work, NL)
           rest == After(work, NL)
           hex  == After(line, ",")
<1>1. work \in Seq(Char) /\ line \in Seq(Char) /\ hex \in Seq(Char)
  BY StringFact DEF Texts
<1>2. Len(line) \in 0 .. Len(work) /\ Len(rest) \in 0 .. Len(work)
  BY Zenon, <1>1, CutFact
<1>3. Len(hex) \in 0 .. Len(line)
  BY Zenon, <1>1, CutFact
<1>4. Len(convert(hex)) \in 0 .. Len(hex)
  BY Zenon, <1>1, CutFact
<1>5. /\ pc = "line" /\ work' = rest /\ UNCHANGED <<blacklist, blacklist_fp>>
      /\ \/ pc' = "page" /\ pattern' = convert(hex) /\ f_pos' = 0
         \/ pc' = "done"
  BY Zenon DEF NextLine, files, Out
<1>6. Len(work) \in Nat /\ Len(work) < Page /\ Page \in Nat
  <2>1. Len(work) < Page
    BY Zenon DEF NoInv, Fits
  <2>2. Len(work) \in Nat
    BY DEF Texts
  <2> QED
    BY <2>1, <2>2, PageFact
<1> HIDE DEF line, rest, hex
<1>7. Len(rest) < Page /\ Len(convert(hex)) < Page
  <2> DEFINE w == Len(work)
             l == Len(line)
             h == Len(hex)
             c == Len(convert(hex))
             r == Len(rest)
  <2>1. w \in Nat /\ w < Page /\ l \in 0 .. w /\ r \in 0 .. w /\ h \in 0 .. l /\ c \in 0 .. h
    BY <1>2, <1>3, <1>4, <1>6
  <2> HIDE DEF w, l, h, c, r
  <2>2. r < Page /\ c < Page
    BY <1>6, <2>1
  <2> QED
    BY <2>2 DEF c, r
<1>8. pc' \in {"page", "done"} /\ Len(work') < Page
  BY <1>5, <1>7
<1>9. pc' = "page" => f_pos' >= 0 /\ Len(pattern') < Page
  BY <1>5, <1>7
<1> QED
  BY <1>5, <1>8, <1>9 DEF NoInv, Fits, NoOops

(* The step back follows a whole page, which is longer than the pattern.   *)
LEMMA ScanPageFits ==
  ASSUME Texts, Numbers, Inv, NoInv, ScanPage
  PROVE  NoInv'
<1> DEFINE n == ReadSize(file, f_pos, Page - 1)
           L == Len(pattern)
<1>1. /\ f_pos \in Nat /\ pc = "page" /\ file_size > 0 /\ n \in Nat
      /\ UNCHANGED <<blacklist, blacklist_fp, work, pattern>>
      /\ \/ pc' = "done"
         \/ /\ pc' = "page"
            /\ \/ f_pos + n # original_file_size /\ f_pos' = f_pos + n - L
               \/ f_pos' = f_pos + n - 0
  BY Zenon, ScanPageFact DEF files
<1>2. L \in Nat /\ Len(file) \in Nat /\ original_file_size = Len(file) /\ L < Page /\ f_pos < Len(file)
  BY <1>1 DEF Inv, Sized, Searched, Texts, Numbers, NoInv, Fits
<1>3. n = IF Len(file) - f_pos < Page - 1 THEN Len(file) - f_pos ELSE Page - 1
  BY <1>1, <1>2, PageFact DEF ReadSize
<1> HIDE DEF n, L
<1>4. pc' = "page" => f_pos' >= 0
  BY <1>1, <1>2, <1>3, PageFact
<1>5. pc' \in {"page", "done"}
  BY <1>1
<1>6. Len(pattern') < Page
  BY <1>1, <1>2 DEF L
<1> QED
  BY <1>1, <1>4, <1>5, <1>6, KeepsFits

LEMMA NoOopsStep ==
  ASSUME "change" \notin Hazards, "oom" \notin Hazards, OpenTypeOK, Inv, NoInv, [OpenNext]_allVars
  PROVE  NoInv'
<1>0. Texts /\ Numbers
  BY Zenon, InParts DEF OpenTypeOK
<1>1. CASE UNCHANGED allVars
  BY <1>1 DEF allVars, vars, files, list, cursor, NoInv, Fits, NoOops
<1>2. ASSUME pc = "idle", pc' = "idle", UNCHANGED <<work, blacklist_fp>>, blacklist' \in Seq(Char)
      PROVE  NoInv'
  <2>1. 1 \in LineStarts(blacklist')
    BY <1>2 DEF LineStarts
  <2> QED
    BY <1>2, <2>1 DEF NoInv, Fits, NoOops
<1>3. CASE Others \/ CallOpen \/ OpenBlacklist \/ OpenInput \/ OriginalOpen
  <2>1. at # "scan"
    BY <1>3 DEF Others, CallOpen, OpenBlacklist, OpenInput, OriginalOpen
  <2>2. pc = "idle"
    BY <2>1 DEF Inv, Sized
  <2>3. UNCHANGED <<pc, work, blacklist_fp>>
    BY <1>3 DEF Others, CallOpen, OpenBlacklist, OpenInput, OriginalOpen, WriteFile, EditBlacklist, vars, list
  <2>4. blacklist' \in Seq(Char)
    <3>1. OpenTypeOK'
      BY OpenTypeStep
    <3> QED
      BY <3>1 DEF OpenTypeOK, TypeOK
  <2> QED
    BY <1>2, <2>2, <2>3, <2>4
<1>4. CASE Scanning
  <2>1. CASE Start
    <3>1. UNCHANGED <<blacklist, blacklist_fp, work>> /\ pc' = "line"
      BY <2>1 DEF Start, Out, files, list
    <3> QED
      BY <3>1, KeepsFits
  <2>2. CASE EndOfList
    <3>1. UNCHANGED <<blacklist, blacklist_fp, work>> /\ pc' = "done"
      BY <2>2 DEF EndOfList, Out, files, list
    <3> QED
      BY <3>1, KeepsFits
  <2>3. CASE EndOfFile
    <3>1. UNCHANGED <<blacklist, blacklist_fp, work>> /\ pc' = "line"
      BY <2>3 DEF EndOfFile, files, list
    <3> QED
      BY <3>1, KeepsFits
  <2>4. CASE ReadFails
    <3>1. ~readable /\ UNCHANGED <<blacklist, blacklist_fp, work, readable>> /\ pc' = "oops"
      BY <1>0, <2>4 DEF ReadFails, files, list, NoInv, Fits, Numbers
    <3> QED
      BY <3>1 DEF NoInv, Fits, NoOops
  <2>5. CASE LoadPage
    <3>1. UNCHANGED readable
      BY Zenon, <2>5 DEF LoadPage
    <3> QED
      BY <1>0, <2>5, <3>1, LoadPageFits
  <2> QED
    BY <1>0, <1>4, <2>1, <2>2, <2>3, <2>4, <2>5, NextLineFits, ScanPageFits DEF Scanning, Scan
<1>5. CASE Verdict
  <2>1. /\ pc = "done" /\ pc' = "idle" /\ UNCHANGED blacklist
        /\ blacklist_fp' = 0 /\ work' = <<>>
    BY Zenon, <1>5 DEF Verdict, Answer, NoLocals, files
  <2>2. 1 \in LineStarts(blacklist') /\ Len(work') < Page
    BY <1>0, <2>1, PageFact DEF LineStarts, Texts
  <2> QED
    BY <2>1, <2>2 DEF NoInv, Fits, NoOops
<1> QED
  BY <1>1, <1>3, <1>4, <1>5 DEF OpenNext, Step

-----------------------------------------------------------------------------
(***************************************************************************)
(* VerdictExact.  The lines that begin before the cut, which is where the  *)
(* work buffer begins in the blacklist, are those the scan has taken; what *)
(* it has not found is in checked.                                         *)
(***************************************************************************)
Cut == blacklist_fp - Len(work)
Hex(i, j) == convert(After(SubSeq(blacklist, i, j - 2), ","))
Adjacent(text, i, j) == i < j /\ \A k \in LineStarts(text) : k <= i \/ k >= j
Behind(cut, seen) ==
  \A i, j \in LineStarts(blacklist) : i <= cut /\ Adjacent(blacklist, i, j) => Hex(i, j) \in seen
Taken == IF pc = "page" THEN checked \cup {pattern} ELSE checked
Placed ==
  /\ Len(work) <= blacklist_fp /\ blacklist_fp <= Len(blacklist)
  /\ \A k \in 1 .. Len(work) : work[k] = blacklist[Cut + k]
  /\ Cut + 1 \in LineStarts(blacklist)
Concluded ==
  /\ pc = "page" => pattern \in Listed(blacklist)
  /\ pc = "done" /\ virus_flag => pattern \in Listed(blacklist) /\ file # <<>>
  /\ pc = "done" /\ ~virus_flag => Listed(blacklist) \subseteq checked
ListInv ==
  /\ ~Has(blacklist, Nul)
  /\ WellFormed(blacklist) => (pc \in {"line", "page"} => Placed /\ Behind(Cut, Taken)) /\ Concluded

LEMMA NotEmpty ==
  ASSUME NEW s \in Seq(Char), s # <<>>
  PROVE  Len(s) \in Nat /\ Len(s) > 0
<1>1. Len(s) \in Nat /\ Len(s) # 0
  BY EmptySeq
<1> QED
  BY <1>1

LEMMA ListedFact ==
  ASSUME NEW p
  PROVE  p \in Listed(blacklist) <=>
           \E i, j \in LineStarts(blacklist) : Adjacent(blacklist, i, j) /\ p = Hex(i, j)
<1> DEFINE Pairs == {ij \in LineStarts(blacklist) \X LineStarts(blacklist) :
                       ij[1] < ij[2] /\ \A k \in LineStarts(blacklist) : k <= ij[1] \/ k >= ij[2]}
<1>1. p \in Listed(blacklist) <=> \E ij \in Pairs : p = Hex(ij[1], ij[2])
  BY Zenon DEF Listed, Lines, Hex
<1>2. ASSUME NEW ij \in Pairs, p = Hex(ij[1], ij[2])
      PROVE  \E i, j \in LineStarts(blacklist) : Adjacent(blacklist, i, j) /\ p = Hex(i, j)
  <2>1. ij[1] \in LineStarts(blacklist) /\ ij[2] \in LineStarts(blacklist) /\ Adjacent(blacklist, ij[1], ij[2])
    BY DEF Adjacent
  <2> QED
    BY Zenon, <1>2, <2>1
<1>3. ASSUME NEW i \in LineStarts(blacklist), NEW j \in LineStarts(blacklist),
             Adjacent(blacklist, i, j), p = Hex(i, j)
      PROVE  \E ij \in Pairs : p = Hex(ij[1], ij[2])
  <2> DEFINE ij == <<i, j>>
  <2>1. ij \in Pairs /\ ij[1] = i /\ ij[2] = j
    BY <1>3 DEF Adjacent
  <2> HIDE DEF ij
  <2> QED
    BY Zenon, <1>3, <2>1
<1> QED
  BY Zenon, <1>1, <1>2, <1>3

(* Patterns of a blacklist without NULs have none.                         *)
LEMMA CleanPattern ==
  ASSUME Texts, ~Has(blacklist, Nul), NEW p \in Listed(blacklist)
  PROVE  ~Has(p, Nul)
<1>1. PICK i \in LineStarts(blacklist), j \in LineStarts(blacklist) :
        Adjacent(blacklist, i, j) /\ p = Hex(i, j)
  BY Zenon, ListedFact
<1>2. /\ i \in 1 .. Len(blacklist) + 1 /\ j \in 1 .. Len(blacklist) + 1 /\ i < j
      /\ Len(blacklist) \in Nat
  BY <1>1 DEF LineStarts, Adjacent, Texts
<1> DEFINE l == SubSeq(blacklist, i, j - 2)
<1>3. l \in Seq(Char) /\ ~Has(l, Nul)
  <2>1. \A k \in i .. j - 2 : blacklist[k] \in Char
    BY <1>2 DEF Texts
  <2>2. /\ l \in Seq(Char) /\ Len(l) = IF i <= j - 2 THEN j - 2 - i + 1 ELSE 0
        /\ \A k \in 1 .. j - 2 - i + 1 : l[k] = blacklist[i + k - 1]
    BY <1>2, <2>1, SubSeqProperties
  <2> HIDE DEF l
  <2>3. \A k \in 1 .. Len(l) : l[k] = blacklist[i + k - 1] /\ i + k - 1 \in 1 .. Len(blacklist)
    BY <1>2, <2>2
  <2> QED
    BY <2>2, <2>3 DEF Has
<1> HIDE DEF l
<1> DEFINE a == After(l, ",")
<1>4. a \in Seq(Char) /\ ~Has(a, Nul)
  <2> DEFINE g == First(l, ",")
             n == Len(l)
             f == g + 1
  <2>1. f \in 2 .. n + 2 /\ n \in Nat
    <3>1. g \in 1 .. n + 1
      BY Zenon, <1>3, FirstFact
    <3>2. n \in Nat
      BY <1>3
    <3> HIDE DEF g, n
    <3> QED
      BY <3>1, <3>2
  <2>2. a = SubSeq(l, f, Len(l))
    BY DEF After
  <2> HIDE DEF g, f, a
  <2>3. \A k \in f .. Len(l) : l[k] \in Char
    BY <1>3, <2>1
  <2>4. /\ a \in Seq(Char) /\ Len(a) = IF f <= Len(l) THEN Len(l) - f + 1 ELSE 0
        /\ \A k \in 1 .. Len(l) - f + 1 : a[k] = l[f + k - 1]
    BY <2>1, <2>2, <2>3, SubSeqProperties
  <2>5. \A k \in 1 .. Len(a) : a[k] = l[f + k - 1] /\ f + k - 1 \in 1 .. Len(l)
    BY <2>1, <2>4
  <2> QED
    BY <1>3, <2>4, <2>5 DEF Has
<1> HIDE DEF a
<1>5. p = convert(a)
  BY <1>1 DEF Hex, a, l
<1>6. ASSUME NEW k \in 1 .. (Len(a) + 1) \div 2
      PROVE  2 * k - 1 \in 1 .. Len(a) /\ p[k] = a[2 * k - 1]
  <2>1. Len(a) \in Nat
    BY <1>4
  <2> QED
    BY <1>5, <2>1 DEF convert
<1>7. Len(p) = (Len(a) + 1) \div 2
  <2>1. (Len(a) + 1) \div 2 \in Nat
    BY <1>4
  <2> QED
    BY <1>5, <2>1 DEF convert
<1> QED
  BY <1>4, <1>6, <1>7 DEF Has

(* Taking a line: the cut moves to the next line start.                    *)
LEMMA NextLineList ==
  ASSUME Texts, Numbers, WellFormed(blacklist), Placed, Behind(Cut, checked),
         blacklist_fp + 1 \in LineStarts(blacklist), NextLine
  PROVE  /\ pc' = "page" /\ pattern' \in Listed(blacklist) /\ Placed'
         /\ Behind(Cut, Taken)'
<1> DEFINE W == Len(work)
           F == First(work, NL)
           line == Before(work, NL)
           c == Cut
<1>1. /\ work # <<>> /\ work' = After(work, NL) /\ UNCHANGED <<blacklist, blacklist_fp, checked>>
      /\ IF Has(line, ",") THEN pc' = "page" /\ pattern' = convert(After(line, ",")) ELSE TRUE
  BY Zenon DEF NextLine, files
<1>2. /\ work \in Seq(Char) /\ W \in Nat /\ W > 0 /\ blacklist \in Seq(Char) /\ Len(blacklist) \in Nat
      /\ blacklist_fp \in Nat /\ c = blacklist_fp - W /\ c \in Nat /\ c + W = blacklist_fp
      /\ blacklist_fp <= Len(blacklist)
  <2>1. work \in Seq(Char) /\ blacklist \in Seq(Char) /\ blacklist_fp \in Nat
    BY DEF Texts, Numbers
  <2>2. W \in Nat /\ W > 0 /\ Len(blacklist) \in Nat
    <3>1. W \in Nat /\ W > 0
      BY Zenon, <1>1, <2>1, NotEmpty
    <3> HIDE DEF W
    <3> QED
      BY <2>1, <3>1
  <2>3. W <= blacklist_fp /\ blacklist_fp <= Len(blacklist) /\ c = blacklist_fp - W
    BY Zenon DEF Placed, Cut
  <2> HIDE DEF W, c
  <2> QED
    BY <2>1, <2>2, <2>3
<1>3. \A k \in 1 .. W : work[k] = blacklist[c + k]
  BY Zenon DEF Placed
<1> HIDE DEF c
<1>4. F \in 1 .. W /\ work[F] = NL /\ \A k \in 1 .. F - 1 : work[k] # NL
  <2>1. F \in 1 .. W + 1 /\ (F <= W => work[F] = NL) /\ \A k \in 1 .. F - 1 : work[k] # NL
    BY <1>2, FirstFact
  <2> HIDE DEF F
  <2>2. work[W] = NL
    <3>1. blacklist[blacklist_fp] = NL
      BY <1>2 DEF LineStarts
    <3> QED
      BY <1>2, <1>3, <3>1
  <2>3. F # W + 1
    BY <1>2, <2>1, <2>2
  <2> QED
    BY <1>2, <2>1, <2>3
<1>5. line = SubSeq(work, 1, F - 1) /\ work' = SubSeq(work, F + 1, W)
  BY <1>1 DEF Before, After
<1> HIDE DEF F, line, W
<1> DEFINE i == c + 1
           j == c + F + 1
<1>6. i \in LineStarts(blacklist) /\ j \in LineStarts(blacklist)
  <2>1. i \in LineStarts(blacklist)
    BY DEF Placed, c
  <2>2. blacklist[c + F] = NL /\ c + F \in 1 .. Len(blacklist)
    BY <1>2, <1>3, <1>4
  <2>3. c + F + 1 \in LineStarts(blacklist)
    BY <1>2, <2>2, StartFact
  <2> QED
    BY <2>1, <2>3
<1>7. \A k \in LineStarts(blacklist) : k <= i \/ k >= j
  <2> SUFFICES ASSUME NEW k \in LineStarts(blacklist), k > i, k < j
               PROVE  FALSE
    BY <1>2, <1>4 DEF LineStarts
  <2>1. k \in 2 .. Len(blacklist) + 1 /\ blacklist[k - 1] = NL
    BY <1>2 DEF LineStarts
  <2>2. k - 1 - c \in 1 .. F - 1 /\ k - 1 - c \in 1 .. W /\ c + (k - 1 - c) = k - 1
    BY <1>2, <1>4, <2>1
  <2>3. work[k - 1 - c] = NL
    BY <1>3, <2>1, <2>2
  <2> QED
    BY <1>4, <2>2, <2>3
<1>8. Adjacent(blacklist, i, j)
  BY <1>2, <1>4, <1>7 DEF Adjacent
<1>9. line = SubSeq(blacklist, i, j - 2)
  <2>1. \A k \in 1 .. F - 1 : work[k] \in Char
    BY <1>2, <1>4 DEF W
  <2>2. /\ line \in Seq(Char) /\ Len(line) = F - 1
        /\ \A k \in 1 .. F - 1 : line[k] = work[k]
    BY <1>4, <1>5, <2>1, SubSeqProperties
  <2> DEFINE l == SubSeq(blacklist, i, j - 2)
  <2>3. i \in Int /\ j - 2 \in Int /\ j - 2 = c + F - 1 /\ \A k \in i .. j - 2 : blacklist[k] \in Char
    BY <1>2, <1>4
  <2>4. /\ l \in Seq(Char) /\ Len(l) = IF i <= j - 2 THEN j - 2 - i + 1 ELSE 0
        /\ \A k \in 1 .. j - 2 - i + 1 : l[k] = blacklist[i + k - 1]
    BY <2>3, SubSeqProperties
  <2> HIDE DEF l
  <2>5. Len(l) = F - 1 /\ \A k \in 1 .. F - 1 : l[k] = blacklist[c + k]
    <3>1. Len(l) = F - 1
      BY <1>2, <1>4, <2>4
    <3>2. ASSUME NEW k \in 1 .. F - 1
          PROVE  l[k] = blacklist[c + k]
      <4>1. k \in 1 .. j - 2 - i + 1 /\ i + k - 1 = c + k
        BY <1>2, <1>4
      <4> QED
        BY <2>4, <4>1
    <3> QED
      BY <3>1, <3>2
  <2>6. \A k \in 1 .. Len(line) : line[k] = l[k]
    BY <1>2, <1>3, <1>4, <2>2, <2>5
  <2> QED
    BY <2>2, <2>4, <2>5, <2>6, SeqEqual DEF l
<1>10. Has(line, ",")
  <2>1. line \in Lines(blacklist)
    <3> DEFINE ij == <<i, j>>
    <3>1. ij \in LineStarts(blacklist) \X LineStarts(blacklist) /\ ij[1] = i /\ ij[2] = j
      BY <1>6
    <3> HIDE DEF ij, i, j
    <3>2. line = SubSeq(blacklist, ij[1], ij[2] - 2)
      BY <1>9, <3>1
    <3>3. ij[1] < ij[2] /\ \A k \in LineStarts(blacklist) : k <= ij[1] \/ k >= ij[2]
      BY Zenon, <1>8, <3>1 DEF Adjacent
    <3> QED
      BY Zenon, <3>1, <3>2, <3>3 DEF Lines
  <2> QED
    BY Zenon, <2>1 DEF WellFormed
<1> HIDE DEF i, j
<1>11. pc' = "page" /\ pattern' = Hex(i, j)
  BY Zenon, <1>1, <1>9, <1>10 DEF Hex
<1>12. pattern' \in Listed(blacklist)
  BY Zenon, <1>6, <1>8, <1>11, ListedFact
<1>13. /\ Len(work') = W - F /\ \A k \in 1 .. W - F : work'[k] = work[F + k]
  <2>1. \A k \in F + 1 .. W : work[k] \in Char
    BY <1>2, <1>4 DEF W
  <2>2. /\ Len(work') = IF F + 1 <= W THEN W - (F + 1) + 1 ELSE 0
        /\ \A k \in 1 .. W - (F + 1) + 1 : work'[k] = work[F + 1 + k - 1]
    BY <1>2, <1>4, <1>5, <2>1, SubSeqProperties
  <2>3. Len(work') = W - F
    BY <1>2, <1>4, <2>2
  <2>4. ASSUME NEW k \in 1 .. W - F
        PROVE  work'[k] = work[F + k]
    <3>1. k \in 1 .. W - (F + 1) + 1 /\ F + 1 + k - 1 = F + k
      BY <1>2, <1>4
    <3> QED
      BY <2>2, <3>1
  <2> QED
    BY <2>3, <2>4
<1>14. Cut' = c + F /\ Len(work') <= blacklist_fp' /\ blacklist_fp' <= Len(blacklist')
  <2>1. blacklist_fp' = blacklist_fp /\ blacklist' = blacklist /\ Len(work') = W - F
    BY <1>1, <1>13
  <2>2. Cut' = blacklist_fp' - Len(work')
    BY DEF Cut
  <2> QED
    BY <1>2, <1>4, <2>1, <2>2
<1>15. Placed'
  <2>2. ASSUME NEW k \in 1 .. Len(work')
        PROVE  work'[k] = blacklist'[Cut' + k]
    <3>1. F + k \in 1 .. W /\ c + (F + k) = Cut' + k /\ k \in 1 .. W - F
      BY <1>2, <1>4, <1>13, <1>14
    <3> QED
      BY <1>1, <1>3, <1>13, <3>1
  <2>3. Cut' + 1 \in LineStarts(blacklist')
    BY <1>1, <1>6, <1>14 DEF j
  <2> QED
    BY <1>14, <2>2, <2>3 DEF Placed
<1>16. ASSUME NEW a \in LineStarts(blacklist), NEW b \in LineStarts(blacklist),
              a <= Cut', Adjacent(blacklist, a, b)
       PROVE  Hex(a, b) \in checked \cup {pattern'}
  <2>1. CASE a <= c
    BY Zenon, <1>16, <2>1 DEF Behind, c
  <2>2. CASE ~(a <= c)
    <3>1. a \in Int /\ b \in Int
      BY DEF LineStarts
    <3>2. a = i
      BY <1>2, <1>4, <1>7, <1>14, <1>16, <2>2, <3>1 DEF i, j
    <3>3. i < b /\ (j <= i \/ j >= b) /\ (b <= i \/ b >= j) /\ i < j
      BY <1>6, <1>7, <1>8, <1>16, <3>2 DEF Adjacent
    <3>4. b = j
      BY <1>2, <1>4, <3>1, <3>3 DEF i, j
    <3> QED
      BY Zenon, <1>11, <3>2, <3>4
  <2> QED
    BY <2>1, <2>2
<1>17. Behind(Cut, Taken)'
  <2>1. Taken' = checked \cup {pattern'} /\ blacklist' = blacklist
    BY <1>1, <1>11 DEF Taken
  <2>2. \A a, b \in LineStarts(blacklist) :
          a <= Cut' /\ Adjacent(blacklist, a, b) => Hex(a, b) \in Taken'
    BY Zenon, <1>16, <2>1
  <2> QED
    BY Zenon, <2>1, <2>2 DEF Behind, Hex
<1> QED
  BY <1>11, <1>12, <1>15, <1>17

(* The next page begins where the work buffer ended, at the cut.           *)
LEMMA LoadPageList ==
  ASSUME Texts, Numbers, Placed, Behind(Cut, Taken), LoadPage, pc' = "line"
  PROVE  Placed' /\ Behind(Cut, Taken)'
<1> DEFINE n    == ReadSize(blacklist, blacklist_fp, Page)
           data == SubSeq(blacklist, blacklist_fp + 1, blacklist_fp + n)
<1>1. /\ pc = "line" /\ blacklist_fp < Len(blacklist) /\ work = <<>> /\ UNCHANGED <<blacklist, checked>>
      /\ IF n = Page /\ data[n] = NL
         THEN pc' = "oops"
         ELSE work' = SubSeq(data, 1, Kept(data)) /\ blacklist_fp' = blacklist_fp + Kept(data)
  BY Zenon DEF LoadPage, files
<1>2. blacklist \in Seq(Char) /\ blacklist_fp \in Nat /\ Len(blacklist) \in Nat
  BY DEF Texts, Numbers
<1>3. /\ n \in 1 .. Page /\ blacklist_fp + n <= Len(blacklist) /\ data \in Seq(Char) /\ Len(data) = n
      /\ \A k \in 1 .. n : data[k] = blacklist[blacklist_fp + k]
  <2>1. n # 0
    BY <1>1, <1>2, PageFact DEF ReadSize
  <2>2. /\ n \in 0 .. Page /\ (n = 0 \/ blacklist_fp + n <= Len(blacklist))
        /\ data \in Seq(Char) /\ Len(data) = n
        /\ \A k \in 1 .. n : data[k] = blacklist[blacklist_fp + k]
    BY <1>2, ReadFact, PageFact
  <2> HIDE DEF n, data
  <2>3. n \in 1 .. Page /\ blacklist_fp + n <= Len(blacklist)
    BY <2>1, <2>2, PageFact
  <2> QED
    BY <2>2, <2>3
<1>4. work' = SubSeq(data, 1, Kept(data)) /\ blacklist_fp' = blacklist_fp + Kept(data)
  BY <1>1
<1> HIDE DEF n, data
<1> DEFINE K == Kept(data)
<1>5. K \in 1 .. n
  BY <1>3, EmptySeq, KeptFact
<1>6. Len(work') = K /\ \A k \in 1 .. K : work'[k] = data[k]
  <2>1. \A k \in 1 .. K : data[k] \in Char
    BY <1>3, <1>5
  <2> HIDE DEF K
  <2>2. K \in Int
    BY <1>5
  <2>3. /\ Len(SubSeq(data, 1, K)) = IF 1 <= K THEN K - 1 + 1 ELSE 0
        /\ \A k \in 1 .. K - 1 + 1 : SubSeq(data, 1, K)[k] = data[1 + k - 1]
    BY <2>1, <2>2, SubSeqProperties
  <2> QED
    BY <1>4, <1>5, <2>3 DEF K
<1> HIDE DEF K
<1>7. blacklist_fp' = blacklist_fp + K
  BY <1>4 DEF K
<1>8. Cut = blacklist_fp
  <2>1. Len(work) = 0
    BY <1>1
  <2> QED
    BY <1>2, <2>1 DEF Cut
<1>9. Cut' = blacklist_fp /\ Len(work') <= blacklist_fp' /\ blacklist_fp' <= Len(blacklist')
  <2>1. Cut' = blacklist_fp' - Len(work') /\ Len(work') = K /\ blacklist' = blacklist
    BY <1>1, <1>6 DEF Cut
  <2> QED
    BY <1>2, <1>3, <1>5, <1>7, <2>1
<1>10. ASSUME NEW k \in 1 .. Len(work')
       PROVE  work'[k] = blacklist'[Cut' + k]
  <2>1. k \in 1 .. K /\ k \in 1 .. n
    BY <1>3, <1>5, <1>6
  <2> QED
    BY <1>1, <1>3, <1>6, <1>9, <2>1
<1>11. Cut' + 1 \in LineStarts(blacklist')
  <2>1. Cut + 1 \in LineStarts(blacklist)
    BY Zenon DEF Placed
  <2> QED
    BY <1>1, <1>8, <1>9, <2>1
<1>12. Placed'
  BY <1>9, <1>10, <1>11 DEF Placed
<1>13. Taken' = Taken /\ Cut' = Cut /\ blacklist' = blacklist
  BY <1>1, <1>8, <1>9 DEF Taken
<1>14. Behind(Cut, Taken)'
  BY Zenon, <1>13 DEF Behind, Hex
<1> QED
  BY <1>12, <1>14

(* At the end of the list every line has been taken.                       *)
LEMMA EndOfListList ==
  ASSUME Texts, Numbers, Placed, Behind(Cut, Taken), EndOfList
  PROVE  Listed(blacklist) \subseteq checked
<1>1. /\ pc = "line" /\ work = <<>> /\ blacklist_fp >= Len(blacklist)
      /\ blacklist_fp \in Nat /\ Len(blacklist) \in Nat
  BY DEF EndOfList, Texts, Numbers
<1>2. Cut >= Len(blacklist)
  <2>1. Len(work) = 0
    BY <1>1
  <2> QED
    BY <1>1, <2>1 DEF Cut
<1>3. Cut \in Int
  <2>1. Len(work) = 0
    BY <1>1
  <2> QED
    BY <1>1, <2>1 DEF Cut
<1>4. ASSUME NEW p \in Listed(blacklist)
      PROVE  p \in checked
  <2>1. PICK i \in LineStarts(blacklist), j \in LineStarts(blacklist) :
          Adjacent(blacklist, i, j) /\ p = Hex(i, j)
    BY Zenon, ListedFact
  <2>2. i < j /\ i \in 1 .. Len(blacklist) + 1 /\ j \in 1 .. Len(blacklist) + 1
    BY <2>1 DEF Adjacent, LineStarts
  <2>3. i <= Cut
    BY <1>1, <1>2, <1>3, <2>2
  <2>4. Taken = checked
    BY <1>1 DEF Taken
  <2> QED
    BY Zenon, <2>1, <2>3, <2>4 DEF Behind
<1> QED
  BY <1>4

(* A step that leaves the list and the place in it alone.                  *)
LEMMA KeepsList ==
  ASSUME ListInv, UNCHANGED <<blacklist, blacklist_fp, work>>,
         pc' \in {"line", "page"} => pc \in {"line", "page"} /\ Taken' = Taken,
         WellFormed(blacklist) => Concluded'
  PROVE  ListInv'
<1>1. ~Has(blacklist', Nul)
  BY Zenon DEF ListInv
<1>2. ASSUME WellFormed(blacklist), pc' \in {"line", "page"}
      PROVE  Placed' /\ Behind(Cut, Taken)'
  <2>1. Placed /\ Behind(Cut, Taken) /\ Taken' = Taken
    BY <1>2 DEF ListInv
  <2>2. Cut' = Cut
    BY DEF Cut
  <2>3. Placed'
    BY Zenon, <2>1, <2>2 DEF Placed
  <2>4. Behind(Cut, Taken)'
    BY Zenon, <2>1, <2>2 DEF Behind, Hex
  <2> QED
    BY <2>3, <2>4
<1>3. WellFormed(blacklist') <=> WellFormed(blacklist)
  BY Zenon
<1> QED
  BY <1>1, <1>2, <1>3 DEF ListInv

LEMMA ScanPageList ==
  ASSUME Texts, Numbers, Inv, ListInv, ScanPage
  PROVE  ListInv'
<1>1. /\ f_pos \in Nat /\ pc = "page" /\ file_size > 0
      /\ UNCHANGED <<file, blacklist, blacklist_fp, work, pattern, checked>>
      /\ pc' = "done" \/ pc' = "page"
  BY Zenon, ScanPageFact DEF files
<1>2. pc' \in {"line", "page"} => pc \in {"line", "page"} /\ Taken' = Taken
  BY <1>1 DEF Taken
<1>3. ASSUME WellFormed(blacklist)
      PROVE  Concluded'
  <2>1. pattern \in Listed(blacklist)
    BY <1>1, <1>3 DEF ListInv, Concluded
  <2>2. pattern' \in Listed(blacklist')
    BY Zenon, <1>1, <2>1
  <2>3. file' # <<>>
    <3>1. file_size = Len(file) - f_pos
      BY <1>1 DEF Inv, Searched
    <3>2. Len(file) # 0
      BY <1>1, <3>1
    <3> QED
      BY <1>1, <3>2
  <2>4. CASE pc' = "page"
    BY <2>2, <2>4 DEF Concluded
  <2>5. CASE pc' = "done"
    <3>1. virus_flag' = TRUE
      BY Zenon, <1>1, <2>5 DEF ScanPage, Out
    <3> QED
      BY Zenon, <2>2, <2>3, <2>5, <3>1 DEF Concluded
  <2> QED
    BY <1>1, <2>4, <2>5
<1> QED
  BY Zenon, <1>1, <1>2, <1>3, KeepsList

LEMMA ListStep ==
  ASSUME "change" \notin Hazards, "oom" \notin Hazards, OpenTypeOK, Inv, NoInv, ListInv, [OpenNext]_allVars
  PROVE  ListInv'
<1>0. Texts /\ Numbers
  BY Zenon, InParts DEF OpenTypeOK
<1>1. CASE UNCHANGED allVars
  <2>1. UNCHANGED <<file, blacklist, blacklist_fp, work, pattern, checked, pc, virus_flag>>
    BY <1>1 DEF allVars, vars, files, list
  <2>2. Taken' = Taken
    BY <2>1 DEF Taken
  <2>3. WellFormed(blacklist) => Concluded'
    <3>1. WellFormed(blacklist) => Concluded
      BY DEF ListInv
    <3> QED
      BY Zenon, <2>1, <3>1 DEF Concluded
  <2> QED
    BY <2>1, <2>2, <2>3, KeepsList
<1>2. ASSUME pc' = "idle", ~Has(blacklist', Nul)
      PROVE  ListInv'
  BY <1>2 DEF ListInv, Concluded
<1>3. CASE Others \/ CallOpen \/ OpenBlacklist \/ OpenInput \/ OriginalOpen
  <2>1. at # "scan"
    BY <1>3 DEF Others, CallOpen, OpenBlacklist, OpenInput, OriginalOpen
  <2>2. pc = "idle"
    BY <2>1 DEF Inv, Sized
  <2>3. UNCHANGED pc
    BY <1>3 DEF Others, CallOpen, OpenBlacklist, OpenInput, OriginalOpen, WriteFile, EditBlacklist, vars, list
  <2>4. ~Has(blacklist', Nul)
    <3>1. CASE EditBlacklist
      <4>1. PICK l \in Line : blacklist' = blacklist \o l
        BY <3>1 DEF EditBlacklist
      <4>2. l \in Seq(Char) /\ \A i \in 1 .. Len(l) : l[i] # Nul
        BY ScanAssumption
      <4>3. blacklist \in Seq(Char) /\ Len(blacklist) \in Nat /\ Len(l) \in Nat
        BY <1>0, <4>2 DEF Texts
      <4>4. /\ Len(blacklist') = Len(blacklist) + Len(l)
            /\ \A i \in 1 .. Len(blacklist) + Len(l) :
                 blacklist'[i] = IF i <= Len(blacklist) THEN blacklist[i] ELSE l[i - Len(blacklist)]
        BY <4>1, <4>2, <4>3, ConcatProperties
      <4>5. ~Has(blacklist, Nul)
        BY Zenon DEF ListInv
      <4> QED
        BY <4>2, <4>3, <4>4, <4>5 DEF Has
    <3>2. CASE ~EditBlacklist
      <4>1. UNCHANGED blacklist
        BY <1>3, <3>2 DEF Others, CallOpen, OpenBlacklist, OpenInput, OriginalOpen, WriteFile, vars, files
      <4> QED
        BY Zenon, <4>1 DEF ListInv
    <3> QED
      BY <3>1, <3>2
  <2> QED
    BY <1>2, <2>2, <2>3, <2>4
<1>4. CASE Scanning
  <2>1. CASE Start
    <3>1. UNCHANGED <<blacklist, blacklist_fp, work, checked>> /\ pc' = "line" /\ pc = "idle"
      BY <2>1 DEF Start, Out, files, list
    <3>2. blacklist_fp' = 0 /\ Len(work') = 0
      BY <3>1 DEF NoInv, Fits
    <3>3. Cut' = 0
      BY <3>2 DEF Cut
    <3>4. Len(blacklist') \in Nat /\ 1 \in LineStarts(blacklist')
      BY <1>0, <3>1 DEF Texts, LineStarts
    <3>5. Placed'
      BY <3>2, <3>3, <3>4 DEF Placed
    <3>6. \A i \in LineStarts(blacklist') : ~(i <= Cut')
      BY <3>3, <3>4 DEF LineStarts
    <3>7. Behind(Cut, Taken)'
      BY Zenon, <3>6 DEF Behind
    <3>8. ~Has(blacklist', Nul) /\ Concluded'
      BY <3>1 DEF ListInv, Concluded
    <3> QED
      BY <3>5, <3>7, <3>8 DEF ListInv
  <2>2. CASE EndOfList
    <3>1. UNCHANGED <<blacklist, blacklist_fp, work, checked>> /\ pc' = "done" /\ pc = "line"
      BY <2>2 DEF EndOfList, Out, files, list
    <3>2. virus_flag' = FALSE
      BY Zenon, <2>2 DEF EndOfList, Out
    <3>3. ASSUME WellFormed(blacklist)
          PROVE  Concluded'
      <4>1. Placed /\ Behind(Cut, Taken)
        BY <3>1, <3>3 DEF ListInv
      <4>2. Listed(blacklist) \subseteq checked
        BY Zenon, <1>0, <2>2, <4>1, EndOfListList
      <4>3. Listed(blacklist') \subseteq checked'
        BY Zenon, <3>1, <4>2
      <4>4. ~(pc' = "page")
        BY <3>1
      <4> QED
        BY Zenon, <3>2, <4>3, <4>4 DEF Concluded
    <3>4. ~(pc' \in {"line", "page"})
      BY <3>1
    <3> QED
      BY Zenon, <3>1, <3>3, <3>4, KeepsList
  <2>3. CASE EndOfFile
    <3>1. /\ UNCHANGED <<blacklist, blacklist_fp, work, pattern>> /\ pc' = "line" /\ pc = "page"
          /\ checked' = checked \cup {pattern}
      BY <2>3 DEF EndOfFile, files, list
    <3>2. Taken' = Taken
      BY <3>1 DEF Taken
    <3>3. Concluded'
      BY <3>1 DEF Concluded
    <3> QED
      BY <3>1, <3>2, <3>3, KeepsList
  <2>4. CASE ReadFails
    <3>1. UNCHANGED <<blacklist, blacklist_fp, work>> /\ pc' = "oops"
      BY <2>4 DEF ReadFails, files, list
    <3>2. Concluded'
      BY <3>1 DEF Concluded
    <3> QED
      BY <3>1, <3>2, KeepsList
  <2>5. CASE LoadPage
    <3>1. UNCHANGED blacklist /\ pc' \in {"line", "oops"} /\ pc = "line"
      BY <2>5 DEF LoadPage, files
    <3>2. Concluded' /\ ~Has(blacklist', Nul)
      BY <3>1 DEF Concluded, ListInv
    <3>3. ASSUME WellFormed(blacklist), pc' = "line"
          PROVE  Placed' /\ Behind(Cut, Taken)'
      <4>1. Placed /\ Behind(Cut, Taken)
        BY <3>1, <3>3 DEF ListInv
      <4> QED
        BY <1>0, <2>5, <3>3, <4>1, LoadPageList
    <3> QED
      BY <3>1, <3>2, <3>3 DEF ListInv
  <2>6. CASE NextLine
    <3>1. UNCHANGED blacklist /\ pc = "line"
      BY <2>6 DEF NextLine, files
    <3>2. ~Has(blacklist', Nul)
      BY <3>1 DEF ListInv
    <3>3. ASSUME WellFormed(blacklist)
          PROVE  pc' = "page" /\ pattern' \in Listed(blacklist) /\ Placed' /\ Behind(Cut, Taken)'
      <4>1. Placed /\ Behind(Cut, Taken)
        BY <3>1, <3>3 DEF ListInv
      <4>2. Taken = checked
        BY <3>1 DEF Taken
      <4>3. blacklist_fp + 1 \in LineStarts(blacklist)
        BY <3>3 DEF NoInv, Fits
      <4>4. Behind(Cut, checked)
        BY Zenon, <4>1, <4>2
      <4> QED
        BY Zenon, <1>0, <2>6, <3>3, <4>1, <4>3, <4>4, NextLineList
    <3>4. WellFormed(blacklist) => Concluded'
      BY <3>1, <3>3 DEF Concluded
    <3> QED
      BY <3>1, <3>2, <3>3, <3>4 DEF ListInv
  <2> QED
    BY <1>0, <1>4, <2>1, <2>2, <2>3, <2>4, <2>5, <2>6, ScanPageList DEF Scanning, Scan
<1>5. CASE Verdict
  <2>1. pc' = "idle" /\ UNCHANGED blacklist
    BY Zenon, <1>5 DEF Verdict, Answer, files
  <2>2. ~Has(blacklist', Nul)
    BY <2>1 DEF ListInv
  <2> QED
    BY <1>2, <2>1, <2>2
<1> QED
  BY <1>1, <1>3, <1>4, <1>5 DEF OpenNext, Step

LEMMA Concludes ==
  ASSUME Texts, Marks, Inv, ListInv
  PROVE  VerdictExact
<1> SUFFICES ASSUME pc = "done", WellFormed(blacklist), ~Has(file, Nul)
             PROVE  virus_flag = Infected(file, blacklist)
  BY DEF VerdictExact
<1>1. ScanExact /\ Concluded /\ ~Has(blacklist, Nul)
  BY DEF Inv, ListInv
<1>2. /\ \A p \in checked : Has(p, Nul) \/ file = <<>> \/ ~Occurs(file, p)
      /\ virus_flag /\ ~Has(pattern, Nul) => Occurs(file, pattern)
  BY <1>1 DEF ScanExact
<1>3. \A p \in Listed(blacklist) : ~Has(p, Nul)
  BY <1>1, CleanPattern
<1>4. virus_flag => Infected(file, blacklist)
  BY Zenon, <1>1, <1>2, <1>3 DEF Infected, Concluded
<1>5. ~virus_flag => ~Infected(file, blacklist)
  BY Zenon, <1>1, <1>2, <1>3 DEF Infected, Concluded
<1>6. virus_flag \in BOOLEAN /\ Infected(file, blacklist) \in BOOLEAN
  BY Zenon DEF Marks, Infected
<1> HIDE DEF Infected
<1>7. CASE virus_flag = TRUE
  <2>1. Infected(file, blacklist) = TRUE
    BY Zenon, <1>4, <1>6, <1>7
  <2> QED
    BY Zenon, <1>7, <2>1
<1>8. CASE virus_flag = FALSE
  <2>1. Infected(file, blacklist) = FALSE
    BY Zenon, <1>5, <1>6, <1>8
  <2> QED
    BY Zenon, <1>8, <2>1
<1> QED
  BY Zenon, <1>6, <1>7, <1>8

(* What is known of an open on the way: safety of the scan, its place in   *)
(* the list, and what follows from both.                                   *)
ScanInv == OpenTypeOK /\ Inv /\ NoInv /\ ListInv

LEMMA ScanInvInit == OpenInit => ScanInv
<1> SUFFICES ASSUME OpenInit PROVE ScanInv
  OBVIOUS
<1>1. Inv
  BY DEF OpenInit, Init, Inv, Sized, Flagged, ScanExact
<1>2. pc = "idle" /\ blacklist_fp = 0 /\ Len(work) = 0 /\ work = <<>> /\ Len(blacklist) = 0
  BY DEF OpenInit, Init
<1>3. 1 \in LineStarts(blacklist)
  BY <1>2 DEF LineStarts
<1>4. NoInv
  BY <1>2, <1>3, PageFact DEF NoInv, Fits, NoOops
<1>5. ListInv
  BY <1>2 DEF ListInv, Has, Concluded
<1> QED
  BY <1>1, <1>4, <1>5, OpenTypeInit DEF ScanInv

LEMMA ScanInvStep ==
  ASSUME "change" \notin Hazards, "oom" \notin Hazards, ScanInv, [OpenNext]_allVars
  PROVE  ScanInv'
<1>1. OpenTypeOK' /\ Inv' /\ NoInv'
  BY OpenTypeStep, InvStep, NoOopsStep DEF ScanInv
<1>2. ListInv'
  BY ListStep DEF ScanInv
<1> QED
  BY <1>1, <1>2 DEF ScanInv

LEMMA ScanInvHolds ==
  ASSUME "change" \notin Hazards, "oom" \notin Hazards
  PROVE  OpenSpec => []ScanInv
BY ScanInvInit, ScanInvStep, PTL DEF OpenSpec

(* As long as nobody writes the file during a scan and kmalloc succeeds,   *)
(* the scan of a file that can be read, under a well-formed blacklist,     *)
(* makes no access outside its buffers: for every page size, file and      *)
(* blacklist, over any sequence of opens.                                  *)
THEOREM NoOopsAlways ==
  ASSUME "change" \notin Hazards, "oom" \notin Hazards
  PROVE  OpenSpec => []NoOops
<1>1. ScanInv => NoOops
  BY Zenon DEF ScanInv, NoInv
<1> QED
  BY <1>1, ScanInvHolds, PTL

(* As long as nobody writes the file during a scan and kmalloc succeeds,   *)
(* the verdict on a file without NULs under a well-formed blacklist is     *)
(* that of the reference, which knows no pages: it is infected exactly     *)
(* when one of the listed patterns occurs in it.                           *)
THEOREM VerdictExactAlways ==
  ASSUME "change" \notin Hazards, "oom" \notin Hazards
  PROVE  OpenSpec => []VerdictExact
<1>1. ScanInv => VerdictExact
  BY Concludes, InParts DEF ScanInv, OpenTypeOK
<1> QED
  BY <1>1, ScanInvHolds, PTL

-----------------------------------------------------------------------------
(***************************************************************************)
(* OpensAsUsualButExcl: where an open is, and what of its path and of the  *)
(* path as it was at the call it can rely on there.  Once the file has     *)
(* been opened the path is what the open was to find.                      *)
(***************************************************************************)
Entered == IF before.exists THEN before.kind ELSE "regular"
Open == Found.opened = "fd" /\ exists /\ file = Found.file /\ kind = Entered
Scannable ==
  /\ listed /\ Open /\ kind # "device"
  /\ readable = (kind = "regular" /\ "write" \notin flags)
  /\ virus_flag => readable
Cleared ==
  \/ Path = before /\ ~(listed /\ Found.opened = "fd")
  \/ Open /\ (WellFormed(blacklist) /\ kind = "regular" /\ listed => ~Infected(file, blacklist))
OpenInv ==
  /\ ~Has(file, Nul)
  /\ at \in {"blacklist", "input"} => Path = before
  /\ at = "input" => listed
  /\ at = "scan" => Scannable
  /\ at = "orig" => Cleared

LEMMA PathFact ==
  ASSUME OpenTypeOK, Path = before
  PROVE  exists = before.exists /\ kind = before.kind /\ file = before.file
BY DEF Path

LEMMA KernelFile ==
  ASSUME ~Has(file, Nul), KernelOpen
  PROVE  ~Has(file', Nul)
<1>1. ~Has(<<>>, Nul)
  BY DEF Has
<1> QED
  BY <1>1 DEF KernelOpen

(* The kernel's open of the path as it was at the call.                    *)
LEMMA OpensPath ==
  ASSUME OpenTypeOK, Path = before, KernelOpen, UNCHANGED <<flags, before, listed>>
  PROVE  /\ Found.opened = Outcome(exists, flags) /\ Found' = Found
         /\ Found.opened = "fd" => Open'
         /\ Found.opened # "fd" => Path' = before'
<1>1. exists = before.exists /\ kind = before.kind /\ file = before.file
  BY PathFact
<1>2. /\ exists' = (exists \/ Outcome(exists, flags) = "fd")
      /\ kind' = IF exists' /\ ~exists THEN "regular" ELSE kind
      /\ file' = IF Truncates(exists, flags) THEN <<>> ELSE file
  BY DEF KernelOpen
<1>3. Found.opened = Outcome(exists, flags) /\ Found.file = IF Truncates(exists, flags) THEN <<>> ELSE file
  BY <1>1 DEF Found
<1>4. Found' = Found
  BY DEF Found
<1>5. ASSUME Found.opened = "fd"
      PROVE  Open'
  <2>1. exists'
    BY <1>2, <1>3, <1>5
  <2>2. kind' = Entered'
    BY <1>1, <1>2, <2>1 DEF Entered
  <2> QED
    BY <1>2, <1>3, <1>4, <1>5, <2>1, <2>2 DEF Open
<1>6. ASSUME Found.opened # "fd"
      PROVE  Path' = before'
  <2>1. Outcome(exists, flags) # "fd" /\ ~Truncates(exists, flags)
    BY <1>3, <1>6 DEF Truncates
  <2>2. exists \in BOOLEAN
    BY DEF OpenTypeOK
  <2>3. exists' = exists
    BY Zenon, <1>2, <2>1, <2>2
  <2>4. kind' = kind /\ file' = file
    BY <1>2, <2>1, <2>3
  <2> QED
    BY <2>3, <2>4 DEF Path
<1> QED
  BY <1>3, <1>4, <1>5, <1>6

LEMMA OpenInvStep ==
  ASSUME "change" \notin Hazards, "oom" \notin Hazards, Nul \notin Byte,
         ScanInv, OpenInv, [OpenNext]_allVars
  PROVE  OpenInv'
<1>0. OpenTypeOK /\ Texts /\ Numbers /\ Marks /\ Inv /\ ~Has(file, Nul)
  BY InParts DEF ScanInv, OpenTypeOK, OpenInv
<1>1. CASE UNCHANGED allVars
  <2>1. /\ UNCHANGED <<file, blacklist, exists, kind, listed, at, flags, before, readable, virus_flag>>
    BY <1>1 DEF allVars, vars, files, path, call
  <2>2. UNCHANGED <<Path, Found, Entered>>
    BY <2>1 DEF Path, Found, Entered
  <2>3. UNCHANGED Open
    BY Zenon, <2>1, <2>2 DEF Open
  <2>4. (Scannable <=> Scannable') /\ (Cleared <=> Cleared')
    BY Zenon, <2>1, <2>2, <2>3 DEF Scannable, Cleared
  <2> QED
    BY Zenon, <2>1, <2>2, <2>4 DEF OpenInv
<1>2. CASE Others
  <2>1. at' = "user"
    BY <1>2 DEF Others, call, WriteFile, EditBlacklist
  <2>2. \A b \in Byte : ~Has(<<b>>, Nul) /\ ~Has(Append(file, b), Nul)
    <3> TAKE b \in Byte
    <3>1. ~Has(<<b>>, Nul)
      BY DEF Has
    <3>2. /\ Len(Append(file, b)) = Len(file) + 1
          /\ \A i \in 1 .. Len(file) + 1 : Append(file, b)[i] = IF i <= Len(file) THEN file[i] ELSE b
      BY <1>0, AppendProperties, CharFact DEF Texts
    <3>3. Len(file) \in Nat
      BY <1>0 DEF Texts
    <3> QED
      BY <1>0, <3>1, <3>2, <3>3 DEF Has
  <2>3. file' \in {file, <<>>} \cup {<<b>> : b \in Byte} \cup {Append(file, b) : b \in Byte}
    BY <1>2 DEF Others, WriteFile, EditBlacklist, vars, files
  <2>4. ~Has(<<>>, Nul)
    BY DEF Has
  <2>5. ~Has(file', Nul)
    BY <1>0, <2>2, <2>3, <2>4
  <2> QED
    BY <2>1, <2>5 DEF OpenInv
<1>3. CASE CallOpen
  <2>1. at' = "blacklist" /\ before' = Path /\ UNCHANGED <<file, exists, kind>>
    BY <1>3 DEF CallOpen, vars, files, path
  <2>2. Path' = before'
    BY <2>1 DEF Path
  <2> QED
    BY <1>0, <2>1, <2>2 DEF OpenInv
<1>4. CASE OpenBlacklist
  <2>1. /\ at = "blacklist" /\ at' = IF listed THEN "input" ELSE "orig"
        /\ UNCHANGED <<file, exists, kind, listed, before, flags>>
    BY <1>4 DEF OpenBlacklist, vars, files, path
  <2>2. Path' = before'
    BY <2>1 DEF OpenInv, Path
  <2>3. ~listed => Cleared'
    BY <2>1, <2>2 DEF Cleared
  <2> QED
    BY <1>0, <2>1, <2>2, <2>3 DEF OpenInv
<1>5. CASE OpenInput
  <2>1. /\ at = "input" /\ KernelOpen /\ UNCHANGED <<flags, before, listed, virus_flag, blacklist>>
        /\ at' = IF Outcome(exists, flags) = "fd" /\ kind' # "device" THEN "scan" ELSE "orig"
        /\ readable' = (kind' = "regular" /\ "write" \notin flags)
    BY <1>5 DEF OpenInput
  <2>2. Path = before /\ listed
    BY <2>1 DEF OpenInv
  <2>3. /\ Found.opened = Outcome(exists, flags) /\ Found' = Found
        /\ Found.opened = "fd" => Open'
        /\ Found.opened # "fd" => Path' = before'
    BY <1>0, <2>1, <2>2, OpensPath
  <2>4. ~Has(file', Nul)
    BY <1>0, <2>1, KernelFile
  <2>5. ~virus_flag'
    <3>1. pc = "idle"
      BY <1>0, <2>1 DEF Inv, Sized
    <3>2. ~virus_flag
      BY <1>0, <3>1 DEF Inv, Flagged
    <3> QED
      BY Zenon, <2>1, <3>2
  <2>6. CASE Found.opened = "fd" /\ kind' # "device"
    <3>1. at' = "scan" /\ Open' /\ listed'
      BY <2>1, <2>2, <2>3, <2>6
    <3>2. Scannable'
      BY Zenon, <2>1, <2>5, <2>6, <3>1 DEF Scannable
    <3> QED
      BY <2>4, <3>1, <3>2 DEF OpenInv
  <2>7. CASE ~(Found.opened = "fd" /\ kind' # "device")
    <3>1. at' = "orig"
      BY <2>1, <2>3, <2>7
    <3>2. CASE Found.opened = "fd"
      <4>1. Open' /\ kind' = "device"
        BY <2>3, <2>7, <3>2
      <4>2. kind' # "regular"
        BY <4>1
      <4>3. Cleared'
        BY Zenon, <4>1, <4>2 DEF Cleared
      <4> QED
        BY <2>4, <3>1, <4>3 DEF OpenInv
    <3>3. CASE Found.opened # "fd"
      <4>1. Path' = before' /\ Found'.opened # "fd"
        BY <2>3, <3>3
      <4>2. Cleared'
        BY Zenon, <4>1 DEF Cleared
      <4> QED
        BY <2>4, <3>1, <4>2 DEF OpenInv
    <3> QED
      BY <3>2, <3>3
  <2> QED
    BY <2>6, <2>7
<1>6. CASE Scanning
  <2>1. at = "scan" /\ at' = "scan" /\ UNCHANGED <<exists, kind, listed, flags, before>>
    BY <1>6 DEF Scanning, path, call
  <2>2. UNCHANGED <<file, readable>>
    BY <1>6 DEF Scanning, Start, Scan, LoadPage, NextLine, EndOfList, ScanPage, ReadFails, EndOfFile, files
  <2>3. virus_flag' => virus_flag \/ readable
    BY Zenon, <1>6 DEF Scanning, Start, Scan, LoadPage, NextLine, EndOfList, ScanPage, ReadFails, EndOfFile, Out
  <2>4. Scannable
    BY <2>1 DEF OpenInv
  <2>5. UNCHANGED <<Found, Entered>>
    BY <2>1 DEF Found, Entered
  <2>6. Scannable'
    BY Zenon, <2>1, <2>2, <2>3, <2>4, <2>5 DEF Scannable, Open
  <2> QED
    BY <1>0, <2>1, <2>2, <2>6 DEF OpenInv
<1>7. CASE Verdict
  <2>1. /\ at = "scan" /\ pc = "done" /\ UNCHANGED <<file, blacklist, exists, kind, listed>>
        /\ IF virus_flag THEN at' = "user" ELSE at' = "orig" /\ UNCHANGED <<flags, before>>
    BY Zenon, <1>7 DEF Verdict, Answer, files, path, Return
  <2>2. CASE virus_flag
    <3>1. at' = "user"
      BY Zenon, <2>1, <2>2
    <3> QED
      BY <1>0, <2>1, <3>1 DEF OpenInv
  <2>3. CASE ~virus_flag
    <3>1. at' = "orig" /\ UNCHANGED <<flags, before>>
      BY Zenon, <2>1, <2>3
    <3>2. VerdictExact
      BY <1>0, Concludes DEF ScanInv
    <3>3. WellFormed(blacklist) => ~Infected(file, blacklist)
      BY Zenon, <1>0, <2>1, <2>3, <3>2 DEF VerdictExact
    <3>4. Open
      BY <2>1 DEF OpenInv, Scannable
    <3>5. UNCHANGED <<Found, Entered>>
      BY <2>1, <3>1 DEF Found, Entered
    <3>6. Cleared'
      BY Zenon, <2>1, <3>1, <3>3, <3>4, <3>5 DEF Cleared, Open
    <3> QED
      BY <1>0, <2>1, <3>1, <3>6 DEF OpenInv
  <2> QED
    BY <2>2, <2>3
<1>8. CASE OriginalOpen
  <2>1. at' = "user" /\ KernelOpen
    BY <1>8 DEF OriginalOpen, Return
  <2> QED
    BY <1>0, <2>1, KernelFile DEF OpenInv
<1> QED
  BY <1>1, <1>2, <1>3, <1>4, <1>5, <1>6, <1>7, <1>8 DEF OpenNext, Step

LEMMA ReturnStep ==
  ASSUME "change" \notin Hazards, "oom" \notin Hazards, ScanInv, OpenInv, OpenNext,
         Returns, WellFormed(blacklist), "excl" \in flags => before.exists
  PROVE  ReturnsAsUsual
<1> DEFINE f == Found
           denied == f.scanned /\ f.opened = "fd" /\ Infected(f.file, blacklist)
<1>0. /\ OpenTypeOK /\ Texts /\ Marks /\ Inv /\ ~Has(file, Nul)
      /\ exists \in BOOLEAN /\ before.exists \in BOOLEAN /\ listed \in BOOLEAN
  BY InParts DEF ScanInv, OpenTypeOK, OpenInv
<1>1. CASE Verdict /\ virus_flag
  <2>1. /\ at = "scan" /\ pc = "done" /\ result' = "EPERM" /\ UNCHANGED <<file, exists>>
    BY Zenon, <1>1 DEF Verdict, Answer, files, path, Return
  <2>2. VerdictExact
    BY <1>0, Concludes DEF ScanInv
  <2>3. Infected(file, blacklist)
    BY Zenon, <1>0, <1>1, <2>1, <2>2 DEF VerdictExact
  <2>4. Scannable /\ readable
    BY Zenon, <1>1, <2>1 DEF OpenInv, Scannable
  <2>5. f.opened = "fd" /\ file = f.file /\ listed /\ kind = "regular" /\ kind = Entered /\ exists
    BY Zenon, <2>4 DEF Scannable, Open
  <2>6. f.scanned = TRUE
    BY <2>5 DEF Found, Entered
  <2>7. f.exists = TRUE
    BY <2>5 DEF Found
  <2>8. denied
    BY Zenon, <2>3, <2>5, <2>6
  <2>9. exists' = f.exists
    BY Zenon, <1>0, <2>1, <2>5, <2>7
  <2> HIDE DEF f
  <2> QED
    BY Zenon, <2>1, <2>5, <2>8, <2>9 DEF ReturnsAsUsual, f
<1>2. CASE OriginalOpen
  <2>1. /\ at = "orig" /\ result' = Outcome(exists, flags)
        /\ exists' = (exists \/ Outcome(exists, flags) = "fd")
        /\ file' = IF Truncates(exists, flags) THEN <<>> ELSE file
    BY <1>2 DEF OriginalOpen, Return, KernelOpen
  <2>2. Cleared
    BY <2>1 DEF OpenInv
  <2>3. CASE Path = before /\ ~(listed /\ f.opened = "fd")
    <3>1. exists = before.exists /\ kind = before.kind /\ file = before.file
      BY <1>0, <2>3, PathFact
    <3>2. f.opened = Outcome(exists, flags) /\ exists' = f.exists /\ file' = f.file
      BY <2>1, <3>1 DEF Found
    <3>3. ~denied
      BY <2>3 DEF Found
    <3> QED
      BY Zenon, <2>1, <3>2, <3>3 DEF ReturnsAsUsual
  <2>4. CASE Open /\ (kind = "regular" /\ listed => ~Infected(file, blacklist))
    <3>1. /\ f.opened = "fd" /\ exists = TRUE /\ file = f.file /\ kind = Entered
          /\ Outcome(before.exists, flags) = "fd"
      BY <1>0, <2>4 DEF Open, Found
    <3>2. ~({"creat", "excl"} \subseteq flags)
      BY <1>0, <3>1 DEF Outcome
    <3>3. Outcome(exists, flags) = "fd"
      BY <3>1, <3>2 DEF Outcome
    <3>4. result' = f.opened /\ exists' = TRUE /\ f.exists = TRUE
      BY <2>1, <3>1, <3>3 DEF Found
    <3>5. file' = f.file
      <4>1. CASE "trunc" \in flags
        <5>1. f.file = <<>>
          BY <3>1, <4>1 DEF Found, Truncates
        <5>2. Truncates(exists, flags)
          BY <3>3, <4>1 DEF Truncates
        <5> QED
          BY <2>1, <5>1, <5>2
      <4>2. CASE "trunc" \notin flags
        <5>1. ~Truncates(exists, flags)
          BY <3>1, <4>2 DEF Truncates
        <5> QED
          BY <2>1, <3>1, <5>1
      <4> QED
        BY <4>1, <4>2
    <3>6. ~denied
      <4>1. f.scanned => listed /\ kind = "regular"
        BY <3>1 DEF Found, Entered
      <4> QED
        BY Zenon, <2>4, <3>1, <4>1
    <3> QED
      BY Zenon, <3>4, <3>5, <3>6 DEF ReturnsAsUsual
  <2> QED
    BY Zenon, <2>2, <2>3, <2>4 DEF Cleared
<1>3. ~Others /\ ~CallOpen /\ ~OpenBlacklist /\ ~OpenInput /\ ~Scanning
  BY DEF Returns, Others, call, CallOpen, OpenBlacklist, OpenInput, Scanning, WriteFile, EditBlacklist
<1>4. Verdict => virus_flag
  <2>1. ASSUME Verdict, ~virus_flag
        PROVE  FALSE
    <3>1. at' = "orig"
      BY Zenon, <2>1 DEF Verdict
    <3> QED
      BY <3>1 DEF Returns
  <2> QED
    BY <2>1
<1> QED
  BY Zenon, <1>1, <1>2, <1>3, <1>4 DEF OpenNext, Step

(* As long as nobody writes the file during its open, kmalloc succeeds and *)
(* the file has no NULs: an open under a well-formed blacklist returns     *)
(* EPERM for an infected file and what the kernel's open alone returns for *)
(* any other, and leaves the path as that open would, but for an open that *)
(* creates a file with O_EXCL; over any sequence of opens.                 *)
THEOREM OpensAsUsualButExclAlways ==
  ASSUME "change" \notin Hazards, "oom" \notin Hazards, Nul \notin Byte
  PROVE  OpenSpec => OpensAsUsualButExcl
<1> DEFINE A == Returns /\ WellFormed(blacklist) /\ ("excl" \in flags => before.exists) => ReturnsAsUsual
<1>1. OpenInit => OpenInv
  BY DEF OpenInit, Init, OpenInv, Has
<1>2. ScanInv /\ OpenInv /\ [OpenNext]_allVars => OpenInv'
  BY OpenInvStep
<1>3. ScanInv /\ OpenInv /\ [OpenNext]_allVars => [A]_allVars
  BY ReturnStep
<1> HIDE DEF A
<1>4. OpenSpec => [][A]_allVars
  BY <1>1, <1>2, <1>3, ScanInvHolds, PTL DEF OpenSpec
<1> QED
  BY <1>4 DEF OpensAsUsualButExcl, A
=============================================================================
