--------------------------- MODULE TraceLogProofs ---------------------------
(***************************************************************************)
(* Theorems about TraceLog for every size of the page, any set of record   *)
(* lengths below it and any number of processes and calls.                 *)
(***************************************************************************)
EXTENDS TraceLog, SequenceTheorems, TLAPS

LEMMA TypeInit == Init => TypeOK
BY TraceAssumption DEF Init, TypeOK, Junk, Cell

LEMMA TypeWrite ==
  ASSUME TypeOK, WriteToFile
  PROVE  log' \in Seq(Int)
<1>1. PICK n \in 0 .. Size + 1 : log' = log \o Text(n)
  BY DEF WriteToFile
<1>2. Text(n) \in Seq(Int)
  BY <1>1, TraceAssumption DEF TypeOK, Text, Junk, Cell
<1> QED
  BY <1>1, <1>2 DEF TypeOK

LEMMA TypeStep ==
  ASSUME TypeOK, Next
  PROVE  TypeOK'
<1> USE TraceAssumption DEF TypeOK, Goto, statics
<1>1. CASE RegisterModule \/ OpenFile
  BY <1>1 DEF RegisterModule, OpenFile
<1>2. CASE AllocPage \/ ResetVacant
  <2>1. CASE AllocPage
    BY <2>1 DEF AllocPage, Cell, Nul, Junk
  <2>2. CASE ResetVacant
    <3>1. Len(traced) \in 0 .. Len(traced)
      OBVIOUS
    <3> QED
      BY <2>2, <3>1 DEF ResetVacant
  <2> QED
    BY <1>2, <2>1, <2>2
<1>3. ASSUME NEW t \in Task, NEW n \in Length, Call(t, n)
      PROVE  TypeOK'
  <2>1. traced' \in Seq(Length) /\ Len(traced) \in Nat /\ Len(traced') = Len(traced) + 1
    BY <1>3 DEF Call
  <2>2. early' \in 0 .. Len(traced')
    BY <1>3, <2>1 DEF Call
  <2> QED
    BY <1>3, <2>1, <2>2 DEF Call
<1>4. ASSUME NEW t \in Task, TestFull(t)
      PROVE  TypeOK'
  BY <1>4 DEF TestFull
<1>5. ASSUME NEW t \in Task, WriteOut(t)
      PROVE  TypeOK'
  BY <1>5, TypeWrite DEF WriteOut
<1>6. ASSUME NEW t \in Task, SetVacant(t) \/ ClearPage(t)
      PROVE  TypeOK'
  <2>1. CASE SetVacant(t)
    BY <2>1 DEF SetVacant
  <2>2. CASE ClearPage(t)
    <3>1. page' = [page EXCEPT ![0] = 0]
      BY <2>2 DEF ClearPage, Nul
    <3>2. page' \in [Cell -> Int]
      BY <3>1 DEF Cell
    <3>3. pc' = [pc EXCEPT ![t] = "copy"]
      BY <2>2 DEF ClearPage
    <3> QED
      BY <2>2, <3>2, <3>3 DEF ClearPage
  <2> QED
    BY <1>6, <2>1, <2>2
<1>7. ASSUME NEW t \in Task, CopyRecord(t)
      PROVE  TypeOK'
  BY <1>7 DEF CopyRecord
<1>8. ASSUME NEW t \in Task, Count(t)
      PROVE  TypeOK'
  BY <1>8 DEF Count
<1>9. ASSUME NEW t \in Task, Oops(t)
      PROVE  TypeOK'
  BY <1>9 DEF Oops
<1>10. CASE Rmmod
  BY <1>10, TypeWrite DEF Rmmod
<1> QED
  BY <1>1, <1>2, <1>3, <1>4, <1>5, <1>6, <1>7, <1>8, <1>9, <1>10 DEF Next, Load, Trace

(* Every variable of the trace module holds a value of its type, whatever  *)
(* overlaps and fails.                                                     *)
THEOREM TypeCorrect == Spec => []TypeOK
<1>1. TypeOK /\ [Next]_vars => TypeOK'
  <2>1. TypeOK /\ UNCHANGED vars => TypeOK'
    BY DEF TypeOK, vars, statics
  <2> QED
    BY <2>1, TypeStep
<1> QED
  BY <1>1, TypeInit, PTL DEF Spec

-----------------------------------------------------------------------------
(* What keeps the records inside the page when calls do not overlap: there *)
(* is always room for one more byte, and a process on its way to the copy  *)
(* has made sure that its record is shorter than the room.  trace_init may *)
(* reset vacant under a process that calls too early: it only grows.       *)
Busy(t) == pc[t] \notin {"user", "oops"}
Room ==
  /\ vacant \in 1 .. Size
  /\ \A t, u \in Task : Busy(t) /\ Busy(u) => t = u
  /\ \A t \in Task : Busy(t) => len[t] \in Length
  /\ \A t \in Task : pc[t] = "nul" => vacant = Size
  /\ \A t \in Task : pc[t] \in {"copy", "count"} => len[t] < vacant

LEMMA LengthFact == \A n \in Length : n \in Nat /\ 0 < n /\ n < Size
BY TraceAssumption

LEMMA RoomInit == Init => Room
BY TraceAssumption DEF Init, Room, Busy

(* While t is busy, Room is about t alone.                                 *)
LEMMA RoomOfOne ==
  ASSUME TypeOK, Room, NEW t \in Task, Busy(t),
         UNCHANGED len,
         pc' = [pc EXCEPT ![t] = pc'[t]],
         vacant' \in 1 .. Size,
         pc'[t] = "nul" => vacant' = Size,
         pc'[t] \in {"copy", "count"} => len[t] < vacant'
  PROVE  Room'
<1>1. \A u \in Task \ {t} : ~Busy(u) /\ pc'[u] = pc[u]
  BY DEF Room, TypeOK
<1>2. \A u \in Task \ {t} : ~Busy(u)' /\ pc'[u] \notin {"nul", "copy", "count"}
  BY <1>1 DEF Busy
<1> QED
  BY <1>1, <1>2 DEF Room

LEMMA RoomStep ==
  ASSUME "callers" \notin Hazards, TypeOK, Room, Next
  PROVE  Room'
<1> USE TraceAssumption DEF TypeOK, Goto, statics
<1>1. CASE Load
  <2>1. UNCHANGED <<pc, len>> /\ vacant' \in {vacant, Size}
    BY <1>1 DEF Load, RegisterModule, OpenFile, AllocPage, ResetVacant
  <2>2. vacant' \in 1 .. Size /\ vacant <= vacant'
    BY <2>1 DEF Room
  <2>3. \A t \in Task : pc'[t] \in {"copy", "count"} => len'[t] < vacant'
    <3> SUFFICES ASSUME NEW t \in Task, pc[t] \in {"copy", "count"}
                 PROVE  len[t] < vacant'
      BY <2>1
    <3>1. len[t] < vacant /\ len[t] \in Nat
      BY LengthFact DEF Room, Busy
    <3> QED
      BY <3>1, <2>2
  <2>4. \A t \in Task : pc'[t] = "nul" => vacant' = Size
    BY <2>1 DEF Room
  <2> QED
    BY <2>1, <2>2, <2>3, <2>4 DEF Room, Busy
<1>2. ASSUME NEW t \in Task, NEW n \in Length, Call(t, n)
      PROVE  Room'
  <2>1. \A u \in Task : ~Busy(u)
    BY <1>2 DEF Call, Idle, Busy
  <2>2. /\ vacant' = vacant
        /\ pc' = [pc EXCEPT ![t] = "test"] /\ len' = [len EXCEPT ![t] = n]
    BY <1>2 DEF Call
  <2> QED
    BY <2>1, <2>2 DEF Room, Busy
<1>3. ASSUME NEW t \in Task, TestFull(t)
      PROVE  Room'
  <2>1. len[t] \in Nat
    BY <1>3, LengthFact DEF TestFull, Room, Busy
  <2>2. pc'[t] = "copy" => len[t] < vacant
    BY <1>3, <2>1 DEF TestFull, Full, Room
  <2> QED
    BY <1>3, <2>2, RoomOfOne DEF TestFull, Busy, Room
<1>4. ASSUME NEW t \in Task, WriteOut(t)
      PROVE  Room'
  BY <1>4, RoomOfOne DEF WriteOut, Busy, Room
<1>5. ASSUME NEW t \in Task, SetVacant(t)
      PROVE  Room'
  <2>1. Busy(t) /\ UNCHANGED len
    BY <1>5 DEF SetVacant, Busy
  <2>2. pc' = [pc EXCEPT ![t] = "nul"] /\ pc'[t] = "nul"
    BY <1>5 DEF SetVacant
  <2>3. vacant' = Size /\ Size \in 1 .. Size
    BY <1>5 DEF SetVacant
  <2> QED
    BY <2>1, <2>2, <2>3, RoomOfOne
<1>6. ASSUME NEW t \in Task, ClearPage(t)
      PROVE  Room'
  <2>1. len[t] < Size /\ vacant = Size
    BY <1>6, LengthFact DEF ClearPage, Room, Busy
  <2>2. Busy(t) /\ UNCHANGED <<len, vacant>>
    BY <1>6 DEF ClearPage, Busy
  <2>3. pc' = [pc EXCEPT ![t] = "copy"] /\ pc'[t] = "copy"
    BY <1>6 DEF ClearPage
  <2> QED
    BY <2>1, <2>2, <2>3, RoomOfOne DEF Room
<1>7. ASSUME NEW t \in Task, CopyRecord(t)
      PROVE  Room'
  BY <1>7, RoomOfOne DEF CopyRecord, Busy, Room
<1>8. ASSUME NEW t \in Task, Count(t)
      PROVE  Room'
  <2>1. len[t] \in Nat /\ 0 < len[t] /\ len[t] < vacant
    BY <1>8, LengthFact DEF Count, Room, Busy
  <2>2. vacant - len[t] \in 1 .. Size
    BY <2>1 DEF Room
  <2> QED
    BY <1>8, <2>2, RoomOfOne DEF Count, Busy
<1>9. ASSUME NEW t \in Task, Oops(t)
      PROVE  Room'
  BY <1>9, RoomOfOne DEF Oops, Busy, Room
<1>10. CASE Rmmod
  <2>1. \A t \in Task : ~Busy(t)
    BY <1>10 DEF Rmmod, Idle, Busy
  <2> QED
    BY <1>10, <2>1 DEF Rmmod, Room, Busy
<1> QED
  BY <1>1, <1>2, <1>3, <1>4, <1>5, <1>6, <1>7, <1>8, <1>9, <1>10 DEF Next, Trace

LEMMA RoomImplies == TypeOK /\ Room => InPage
<1> SUFFICES ASSUME TypeOK, Room, NEW t \in Task, pc[t] = "copy"
             PROVE  Offset >= 0 /\ Offset + len[t] <= Size
  BY DEF InPage
<1>1. len[t] \in Nat /\ len[t] < vacant /\ vacant \in 1 .. Size
  BY LengthFact DEF Room, Busy
<1> QED
  BY <1>1, TraceAssumption DEF Offset

(* When calls do not overlap no record is written outside the page, for    *)
(* every size of the page and all records shorter than it, and also when   *)
(* calls come early and allocations or opens fail.                         *)
THEOREM StaysInPage ==
  ASSUME "callers" \notin Hazards
  PROVE  Spec => []InPage
<1>1. TypeOK /\ Room /\ [Next]_vars => Room'
  <2>1. Room /\ UNCHANGED vars => Room'
    BY DEF Room, Busy, vars, statics
  <2> QED
    BY <2>1, RoomStep
<1> QED
  BY <1>1, RoomInit, RoomImplies, TypeCorrect, PTL DEF Spec

-----------------------------------------------------------------------------
(***************************************************************************)
(* NothingLost and InOrder, when calls do not overlap.  The records of the *)
(* calls that returned are in the filled part of the page in the order of  *)
(* the calls, and move to the log together.  What lies beyond is junk, or  *)
(* has been logged: the page is written up to its first NUL, which may be  *)
(* beyond the part that is filled.                                         *)
(***************************************************************************)
Logged(v) == \E i \in DOMAIN log : log[i] = v
Flushed == \E t \in Task : pc[t] \in {"full", "nul"}
Calls ==
  /\ \A t \in Task : Busy(t) =>
       /\ Len(traced) > 0 /\ rec[t] = Len(traced) /\ len[t] = traced[rec[t]]
       /\ state # "gone"
  /\ state \in {"register", "open", "alloc"} => write_file_buff # "ok"
  /\ state \in {"register", "open", "alloc", "vacant"} => early = 0
  /\ state \notin {"register", "open"} => filp_out # "null"
  /\ write_file_buff # "ok" =>
       /\ vacant = Size /\ DOMAIN traced \subseteq InFlight
       /\ \A t \in Task : pc[t] \notin {"write", "full", "nul", "count"}
Sorted ==
  /\ \A j \in Cell : j < Offset => page[j] \in 1 .. Len(traced)
  /\ \A i, j \in Cell : i <= j /\ j < Offset => page[i] <= page[j] \/ page[i] <= early
  /\ \A t \in Task : pc[t] = "count" =>
       \A j \in Offset .. Offset + len[t] - 1 :
         page[j] = rec[t] \/ (rec[t] <= early /\ page[j] \in 1 .. early)
Stale ==
  \A j \in Cell : page[j] > early =>
    \/ Logged(page[j])
    \/ j < Offset /\ ~Flushed
    \/ \E t \in Task : pc[t] = "count" /\ j \in Offset .. Offset + len[t] - 1
Kept ==
  \A r \in DOMAIN traced \ InFlight : r > early =>
    \/ Occurs(log, r, traced[r])
    \/ state # "gone" /\ ~Flushed /\ Occurs(Filled, r, traced[r])
Ordered == InOrder /\ \A i \in DOMAIN log : log[i] <= Len(traced)
LogInv == Calls /\ Sorted /\ Stale /\ Kept /\ Ordered

(* A record in a string is in every string that holds it.                  *)
LEMMA OccursIn ==
  ASSUME NEW s, NEW u, Len(s) \in Nat, Len(u) \in Nat, NEW d \in Nat, d + Len(s) <= Len(u),
         \A k \in 1 .. Len(s) : u[d + k] = s[k],
         NEW r, NEW n \in Nat, Occurs(s, r, n)
  PROVE  Occurs(u, r, n)
<1>1. PICK j \in 0 .. Len(s) - n : \A k \in 1 .. n : s[j + k] = r
  BY DEF Occurs
<1>2. d + j \in 0 .. Len(u) - n
  BY <1>1
<1>3. ASSUME NEW k \in 1 .. n
      PROVE  u[(d + j) + k] = r
  <2>1. j + k \in 1 .. Len(s) /\ d + (j + k) = (d + j) + k
    BY <1>1
  <2> QED
    BY <1>1, <2>1
<1> QED
  BY <1>2, <1>3 DEF Occurs

LEMMA OccursHas ==
  ASSUME NEW s, Len(s) \in Nat, NEW r, NEW n \in Nat, n > 0, Occurs(s, r, n)
  PROVE  \E i \in 1 .. Len(s) : s[i] = r
<1>1. PICK j \in 0 .. Len(s) - n : \A k \in 1 .. n : s[j + k] = r
  BY DEF Occurs
<1>2. j + 1 \in 1 .. Len(s) /\ s[j + 1] = r
  BY <1>1
<1> QED
  BY <1>2

LEMMA LogFact ==
  ASSUME TypeOK
  PROVE  /\ Len(log) \in Nat /\ DOMAIN log = 1 .. Len(log) /\ \A i \in 1 .. Len(log) : log[i] \in Int
         /\ Len(traced) \in Nat /\ DOMAIN traced = 1 .. Len(traced) /\ early \in 0 .. Len(traced)
         /\ \A r \in 1 .. Len(traced) : traced[r] \in Nat /\ traced[r] > 0
<1>1. log \in Seq(Int) /\ traced \in Seq(Length) /\ early \in 0 .. Len(traced)
  BY DEF TypeOK
<1>2. \A r \in 1 .. Len(traced) : traced[r] \in Length
  BY <1>1
<1> QED
  BY <1>1, <1>2, LengthFact

LEMMA FilledFact ==
  ASSUME TypeOK, Room
  PROVE  /\ Offset \in 0 .. Size - 1 /\ Len(Filled) = Offset
         /\ \A j \in 1 .. Offset : Filled[j] = page[j - 1]
         /\ Size \in Nat /\ Size > 0
         /\ \A j \in Cell : j \in Int /\ 0 <= j /\ j < Size /\ page[j] \in Int
         /\ \A j \in Int : 0 <= j /\ j < Size => j \in Cell
<1>1. Size \in Nat /\ Size > 0 /\ vacant \in 1 .. Size
  BY TraceAssumption DEF Room
<1>2. Offset \in 0 .. Size - 1
  BY <1>1 DEF Offset
<1>3. /\ \A j \in Cell : j \in Int /\ 0 <= j /\ j < Size /\ page[j] \in Int
      /\ \A j \in Int : 0 <= j /\ j < Size => j \in Cell
  BY <1>1 DEF Cell, TypeOK
<1>4. Len(Filled) = Offset /\ \A j \in 1 .. Offset : Filled[j] = page[j - 1]
  <2> HIDE DEF Offset
  <2>1. Offset \in Nat
    BY <1>1, <1>2
  <2> QED
    BY <2>1 DEF Filled
<1> QED
  BY <1>1, <1>2, <1>3, <1>4

(* What is written to the log: all of the filled part, and no NUL.         *)
LEMMA WriteFact ==
  ASSUME TypeOK, Room, Sorted, WriteToFile
  PROVE  \E n \in Nat :
           /\ Offset <= n /\ Len(log') = Len(log) + n /\ DOMAIN log' = 1 .. Len(log) + n
           /\ \A i \in 1 .. Len(log) : log'[i] = log[i]
           /\ \A k \in 1 .. n : log'[Len(log) + k] = IF k <= Size THEN page[k - 1] ELSE Junk
<1>0. /\ Offset \in 0 .. Size - 1 /\ Size \in Nat /\ Size > 0
      /\ \A j \in Int : 0 <= j /\ j < Size => j \in Cell
      /\ \A j \in Cell : j \in Int /\ 0 <= j /\ j < Size /\ page[j] \in Int
  BY FilledFact
<1>1. PICK n \in 0 .. Size + 1 : IsStrLen(n) /\ log' = log \o Text(n)
  BY DEF WriteToFile
<1>2. n \in Nat /\ Offset <= n
  <2>1. n \in Cell => page[n] = 0
    BY <1>1 DEF IsStrLen, Nul
  <2>2. n \in Cell \/ n = Size + 1
    BY <1>1 DEF IsStrLen
  <2>3. n \in Cell /\ n < Offset => page[n] \in 1 .. Len(traced)
    BY DEF Sorted
  <2>4. Len(traced) \in Nat
    BY LogFact
  <2> HIDE DEF Offset
  <2> QED
    BY <1>0, <2>1, <2>2, <2>3, <2>4
<1>3. /\ Text(n) \in Seq(Int) /\ Len(Text(n)) = n
      /\ \A k \in 1 .. n : Text(n)[k] = IF k <= Size THEN page[k - 1] ELSE Junk
  <2>1. \A k \in 1 .. n : (IF k <= Size THEN page[k - 1] ELSE Junk) \in Int
    <3> TAKE k \in 1 .. n
    <3>1. CASE k <= Size
      <4>1. k - 1 \in Cell
        BY <1>0, <1>2, <3>1
      <4> QED
        BY <1>0, <3>1, <4>1
    <3>2. CASE ~(k <= Size)
      BY <3>2 DEF Junk
    <3> QED
      BY <3>1, <3>2
  <2> QED
    BY <1>2, <2>1 DEF Text
<1>4. log \in Seq(Int) /\ Len(log) \in Nat
  BY LogFact DEF TypeOK
<1>5. /\ log' \in Seq(Int) /\ Len(log') = Len(log) + n
      /\ \A i \in 1 .. Len(log) + n : log'[i] = IF i <= Len(log) THEN log[i] ELSE Text(n)[i - Len(log)]
  <2> DEFINE T == Text(n)
  <2>1. T \in Seq(Int) /\ Len(T) = n
    BY <1>3
  <2> HIDE DEF T
  <2>2. /\ log \o T \in Seq(Int) /\ Len(log \o T) = Len(log) + Len(T)
        /\ \A i \in 1 .. Len(log) + Len(T) : (log \o T)[i] = IF i <= Len(log) THEN log[i] ELSE T[i - Len(log)]
    BY <1>4, <2>1, ConcatProperties, Zenon
  <2>3. /\ log \o T \in Seq(Int) /\ Len(log \o T) = Len(log) + n
        /\ \A i \in 1 .. Len(log) + n : (log \o T)[i] = IF i <= Len(log) THEN log[i] ELSE T[i - Len(log)]
    BY <2>1, <2>2, Zenon
  <2> QED
    BY <1>1, <2>3, Zenon DEF T
<1>6. DOMAIN log' = 1 .. Len(log) + n
  BY <1>5
<1>7. \A i \in 1 .. Len(log) : log'[i] = log[i]
  BY <1>2, <1>4, <1>5
<1>8. ASSUME NEW k \in 1 .. n
      PROVE  log'[Len(log) + k] = IF k <= Size THEN page[k - 1] ELSE Junk
  <2>1. Len(log) + k \in 1 .. Len(log) + n /\ ~(Len(log) + k <= Len(log)) /\ Len(log) + k - Len(log) = k
    BY <1>2, <1>4
  <2>2. log'[Len(log) + k] = Text(n)[k]
    BY <1>5, <2>1
  <2> QED
    BY <1>3, <2>2
<1> QED
  BY <1>2, <1>5, <1>6, <1>7, <1>8

(* After it every returned record is in the log, which is still in order.  *)
LEMMA WriteKeeps ==
  ASSUME TypeOK, Room, LogInv, WriteToFile, ~Flushed, state # "gone",
         \A t \in Task : pc[t] # "count",
         UNCHANGED <<traced, early, InFlight>>
  PROVE  /\ \A r \in DOMAIN traced \ InFlight : r > early => Occurs(log', r, traced[r])
         /\ Ordered'
         /\ \A j \in Cell : page[j] > early => \E i \in DOMAIN log' : log'[i] = page[j]
<1>0. Calls /\ Sorted /\ Stale /\ Kept /\ InOrder /\ \A i \in DOMAIN log : log[i] <= Len(traced)
  BY DEF LogInv, Ordered
<1>1. PICK n \in Nat :
           /\ Offset <= n /\ Len(log') = Len(log) + n /\ DOMAIN log' = 1 .. Len(log) + n
           /\ \A i \in 1 .. Len(log) : log'[i] = log[i]
           /\ \A k \in 1 .. n : log'[Len(log) + k] = IF k <= Size THEN page[k - 1] ELSE Junk
  BY <1>0, WriteFact
<1>2. /\ Len(log) \in Nat /\ DOMAIN log = 1 .. Len(log) /\ \A i \in 1 .. Len(log) : log[i] \in Int
      /\ Len(traced) \in Nat /\ DOMAIN traced = 1 .. Len(traced) /\ early \in 0 .. Len(traced)
      /\ \A r \in 1 .. Len(traced) : traced[r] \in Nat /\ traced[r] > 0
  BY LogFact
<1>3. /\ Offset \in 0 .. Size - 1 /\ Len(Filled) = Offset
      /\ \A j \in 1 .. Offset : Filled[j] = page[j - 1]
      /\ Size \in Nat /\ Size > 0
      /\ \A j \in Cell : j \in Int /\ 0 <= j /\ j < Size /\ page[j] \in Int
      /\ \A j \in Int : 0 <= j /\ j < Size => j \in Cell
  BY FilledFact
<1> HIDE DEF Offset
<1>4. ASSUME NEW r \in DOMAIN traced \ InFlight, r > early
      PROVE  Occurs(log', r, traced[r])
  <2>1. traced[r] \in Nat
    BY <1>2
  <2>2. Len(log') \in Nat
    BY <1>1, <1>2
  <2>3. CASE Occurs(log, r, traced[r])
    <3>1. 0 + Len(log) <= Len(log') /\ \A k \in 1 .. Len(log) : log'[0 + k] = log[k]
      BY <1>1, <1>2
    <3> QED
      BY <1>2, <2>1, <2>2, <2>3, <3>1, OccursIn
  <2>4. CASE Occurs(Filled, r, traced[r])
    <3>1. ASSUME NEW k \in 1 .. Len(Filled)
          PROVE  log'[Len(log) + k] = Filled[k]
      <4>1. k \in 1 .. Offset /\ k \in 1 .. n /\ k <= Size
        BY <1>1, <1>3
      <4>2. log'[Len(log) + k] = IF k <= Size THEN page[k - 1] ELSE Junk
        BY <1>1, <4>1
      <4>3. Filled[k] = page[k - 1]
        BY <1>3, <4>1
      <4> QED
        BY <4>1, <4>2, <4>3
    <3>2. Len(log) + Len(Filled) <= Len(log') /\ Len(Filled) \in Nat
      BY <1>1, <1>2, <1>3
    <3> QED
      BY <1>2, <2>1, <2>2, <2>4, <3>1, <3>2, OccursIn
  <2> QED
    BY <1>0, <1>4, <2>3, <2>4 DEF Kept
<1>5. ASSUME NEW v, Logged(v)
      PROVE  \E i \in 1 .. Len(log) : log'[i] = v
  BY <1>1, <1>2, <1>5 DEF Logged
<1>6. ASSUME NEW j \in Cell, page[j] > early
      PROVE  \E i \in DOMAIN log' : log'[i] = page[j]
  <2>1. CASE Logged(page[j])
    <3>1. PICK i \in 1 .. Len(log) : log'[i] = page[j]
      BY <1>5, <2>1
    <3>2. i \in DOMAIN log'
      BY <1>1, <1>2
    <3> QED
      BY <3>1, <3>2
  <2>2. CASE j < Offset
    <3>1. j + 1 \in 1 .. n /\ j + 1 <= Size /\ (j + 1) - 1 = j
      BY <1>1, <1>3, <2>2
    <3>2. log'[Len(log) + (j + 1)] = IF j + 1 <= Size THEN page[(j + 1) - 1] ELSE Junk
      BY <1>1, <3>1
    <3>4. log'[Len(log) + (j + 1)] = page[j]
      BY <3>1, <3>2
    <3>3. Len(log) + (j + 1) \in DOMAIN log'
      BY <1>1, <1>2, <3>1
    <3> QED
      BY <3>3, <3>4
  <2> QED
    BY <1>0, <1>6, <2>1, <2>2 DEF Stale
<1>7. ASSUME NEW i \in DOMAIN log'
      PROVE  log'[i] <= Len(traced')
  <2>1. CASE i <= Len(log)
    BY <1>0, <1>1, <1>2, <2>1
  <2>2. CASE i > Len(log)
    <3> DEFINE k == i - Len(log)
    <3>1. k \in 1 .. n /\ Len(log) + k = i
      BY <1>1, <1>2, <2>2
    <3>2. CASE k <= Size
      <4>1. k - 1 \in Cell /\ log'[i] = page[k - 1]
        BY <1>1, <1>3, <3>1, <3>2
      <4>2. CASE k - 1 < Offset
        BY <1>0, <1>2, <4>1, <4>2 DEF Sorted
      <4>3. CASE Logged(page[k - 1])
        BY <1>0, <1>2, <4>1, <4>3 DEF Logged
      <4>4. CASE ~(page[k - 1] > early)
        BY <1>2, <1>3, <4>1, <4>4
      <4> QED
        BY <1>0, <4>1, <4>2, <4>3, <4>4 DEF Stale
    <3>3. CASE ~(k <= Size)
      <4>1. log'[i] = -1
        BY <1>1, <3>1, <3>3 DEF Junk
      <4> QED
        BY <1>2, <4>1
    <3> QED
      BY <3>2, <3>3
  <2> QED
    BY <1>1, <1>2, <2>1, <2>2
<1>8. ASSUME NEW i \in DOMAIN log', log'[i] > early + 1, log'[i] - 1 \notin InFlight
      PROVE  \E j \in 1 .. i : log'[j] = log'[i] - 1
  <2> DEFINE w == log'[i] - 1
  <2>1. ASSUME NEW a \in DOMAIN log, log[a] = log'[i], a <= i
        PROVE  \E j \in 1 .. i : log'[j] = w
    <3>1. log[a] > early + 1 /\ log[a] - 1 = w /\ w \notin InFlight
      BY <1>8, <2>1
    <3>2. PICK j \in 1 .. a : log[j] = w
      BY <1>0, <3>1 DEF InOrder
    <3> QED
      BY <1>1, <1>2, <2>1, <3>2, SMTT(30)
  <2>2. CASE i <= Len(log)
    <3>1. i \in DOMAIN log /\ log[i] = log'[i]
      BY <1>1, <1>2, <2>2
    <3> QED
      BY <1>1, <2>1, <3>1
  <2>3. CASE i > Len(log)
    <3> DEFINE k == i - Len(log)
    <3>1. k \in 1 .. n /\ Len(log) + k = i
      BY <1>1, <1>2, <2>3
    <3>2. k <= Size
      <4>1. log'[i] # -1
        BY <1>2, <1>8
      <4> QED
        BY <1>1, <3>1, <4>1 DEF Junk
    <3>3. k - 1 \in Cell /\ log'[i] = page[k - 1] /\ page[k - 1] \in Int
      BY <1>1, <1>3, <3>1, <3>2
    <3>4. CASE Logged(page[k - 1])
      <4>1. PICK a \in DOMAIN log : log[a] = log'[i]
        BY <3>3, <3>4 DEF Logged
      <4>2. a <= i
        <5>1. a \in 1 .. Len(log) /\ Len(log) \in Nat
          BY <1>2
        <5>2. i \in Nat
          BY <1>1, <1>2
        <5> QED
          BY <2>3, <5>1, <5>2
      <4> QED
        BY <2>1, <4>1, <4>2
    <3>5. CASE k - 1 < Offset
      <4>1. log'[i] \in 1 .. Len(traced) /\ w \in 1 .. Len(traced) /\ w > early
        BY <1>0, <1>2, <1>8, <3>3, <3>5 DEF Sorted
      <4>2. w \in DOMAIN traced \ InFlight /\ traced[w] \in Nat /\ traced[w] > 0
        BY <1>2, <1>8, <4>1
      <4>3. Occurs(log, w, traced[w]) \/ Occurs(Filled, w, traced[w])
        BY <1>0, <4>1, <4>2 DEF Kept
      <4>4. CASE Occurs(log, w, traced[w])
        <5>1. PICK a \in 1 .. Len(log) : log[a] = w
          BY <1>2, <4>2, <4>4, OccursHas
        <5>2. a \in 1 .. i /\ log'[a] = w
          BY <1>1, <1>2, <2>3, <5>1
        <5> QED
          BY <5>2
      <4>5. CASE Occurs(Filled, w, traced[w])
        <5>1. PICK b \in 1 .. Len(Filled) : Filled[b] = w
          BY <1>3, <4>2, <4>5, OccursHas
        <5>2. b \in 1 .. Offset /\ page[b - 1] = w /\ b - 1 \in Cell /\ b - 1 < Offset
          BY <1>3, <5>1
        <5>3. b < k
          <6>1. k - 1 <= b - 1 => page[k - 1] <= page[b - 1] \/ page[k - 1] <= early
            BY Zenon, <1>0, <3>3, <5>2 DEF Sorted
          <6>2. page[k - 1] = w + 1 /\ page[b - 1] = w /\ w \in Int /\ w > early /\ early \in Int
            BY <1>2, <3>3, <4>1, <5>2
          <6>3. ~(page[k - 1] <= page[b - 1]) /\ ~(page[k - 1] <= early)
            BY <6>2
          <6>4. b \in Int /\ k \in Int
            BY <1>3, <3>1, <5>2
          <6> QED
            BY <6>1, <6>3, <6>4
        <5>4. b \in 1 .. n /\ b <= Size
          BY <1>1, <1>3, <3>1, <5>2, <5>3
        <5>5. log'[Len(log) + b] = w
          BY <1>1, <5>2, <5>4
        <5>6. Len(log) + b \in 1 .. i
          BY <1>2, <3>1, <5>3, <5>4
        <5> QED
          BY <5>5, <5>6
      <4> QED
        BY <4>3, <4>4, <4>5
    <3>6. page[k - 1] > early
      BY <1>2, <1>8, <3>3
    <3> QED
      BY <1>0, <3>3, <3>4, <3>5, <3>6 DEF Stale
  <2> QED
    BY <1>1, <1>2, <2>2, <2>3
<1>9. InOrder'
  BY <1>8 DEF InOrder
<1>10. Ordered'
  BY <1>7, <1>9 DEF Ordered
<1> QED
  BY <1>4, <1>6, <1>10

LEMMA Alone ==
  ASSUME Room, NEW t \in Task, Busy(t)
  PROVE  \A u \in Task : u # t => pc[u] \in {"user", "oops"}
BY DEF Room, Busy

LEMMA SameFlight ==
  ASSUME TypeOK, NEW t \in Task, Busy(t), pc' = [pc EXCEPT ![t] = pc'[t]], pc'[t] # "user", UNCHANGED rec
  PROVE  InFlight' = InFlight
<1>1. \A u \in Task : pc'[u] # "user" <=> pc[u] # "user"
  BY DEF TypeOK, Busy
<1> QED
  BY <1>1 DEF InFlight

(* A step of t that leaves the page, its filled part and the log alone.    *)
LEMMA QuietLog ==
  ASSUME TypeOK, Room, LogInv, NEW t \in Task, Busy(t),
         pc[t] \notin {"full", "nul", "count"}, pc' = [pc EXCEPT ![t] = pc'[t]],
         pc'[t] \notin {"user", "full", "nul", "count"}, pc'[t] = "write" => write_file_buff = "ok",
         UNCHANGED <<state, statics, page, vacant, log, traced, early, rec, len>>
  PROVE  LogInv'
<1>1. InFlight' = InFlight
  BY SameFlight
<1>2. \A u \in Task : u # t => pc'[u] = pc[u] /\ pc[u] \in {"user", "oops"}
  BY Alone DEF TypeOK
<1>3. UNCHANGED <<Offset, Filled>>
  BY DEF Offset, Filled
<1>4. ~Flushed /\ ~Flushed' /\ \A u \in Task : pc'[u] # "count"
  BY <1>2 DEF Flushed
<1>5. Calls /\ Sorted /\ Stale /\ Kept /\ Ordered
  BY DEF LogInv
<1>6. Calls'
  <2>1. \A u \in Task : Busy(u)' => Busy(u)
    BY <1>2 DEF Busy
  <2>2. write_file_buff # "ok" => \A u \in Task : pc'[u] \notin {"write", "full", "nul", "count"}
    BY <1>2
  <2> QED
    BY <1>1, <1>5, <2>1, <2>2 DEF Calls, statics
<1>7. Sorted'
  BY <1>3, <1>4, <1>5 DEF Sorted
<1>8. Stale'
  <2>1. \A u \in Task : pc[u] # "count"
    BY <1>2
  <2> QED
    BY <1>3, <1>4, <1>5, <2>1 DEF Stale, Logged
<1>9. Kept'
  BY <1>1, <1>3, <1>4, <1>5 DEF Kept
<1>10. Ordered'
  BY <1>1, <1>5 DEF Ordered, InOrder
<1> QED
  BY <1>6, <1>7, <1>8, <1>9, <1>10 DEF LogInv

(* A step of trace_init up to the allocation.                              *)
LEMMA LoadLog ==
  ASSUME TypeOK, Room, LogInv, RegisterModule \/ OpenFile
  PROVE  LogInv'
<1>1. /\ state \in {"register", "open"} /\ state' \in {"open", "alloc"}
      /\ UNCHANGED <<write_file_buff, page, vacant, log, traced, early, pc, rec, len>>
      /\ state' = "alloc" => filp_out' # "null"
  BY DEF RegisterModule, OpenFile, statics
<1>2. UNCHANGED <<Offset, Filled, InFlight, Flushed>>
  BY <1>1 DEF Offset, Filled, InFlight, Flushed
<1>3. Calls /\ Sorted /\ Stale /\ Kept /\ Ordered
  BY DEF LogInv
<1>4. Calls'
  BY <1>1, <1>2, <1>3 DEF Calls, Busy
<1>5. Sorted' /\ Stale'
  BY <1>1, <1>2, <1>3 DEF Sorted, Stale, Logged
<1>6. Kept'
  BY <1>1, <1>2, <1>3 DEF Kept
<1>7. Ordered'
  BY <1>1, <1>2, <1>3 DEF Ordered, InOrder
<1> QED
  BY <1>4, <1>5, <1>6, <1>7 DEF LogInv

(* The allocation: whoever called early has not touched the page.          *)
LEMMA AllocLog ==
  ASSUME TypeOK, Room, LogInv, AllocPage
  PROVE  LogInv'
<1>1. /\ state = "alloc" /\ state' = "vacant" /\ vacant' = vacant
      /\ \A j \in Cell : page'[j] \in {0, -1}
      /\ UNCHANGED <<filp_out, log, traced, early, pc, rec, len>>
  BY DEF AllocPage, Nul, Junk
<1>2. Calls /\ Ordered
  BY DEF LogInv
<1>3. /\ write_file_buff # "ok" /\ vacant = Size /\ DOMAIN traced \subseteq InFlight
      /\ \A t \in Task : pc[t] \notin {"write", "full", "nul", "count"}
  BY <1>1, <1>2 DEF Calls
<1>4. InFlight' = InFlight
  BY <1>1 DEF InFlight
<1>5. Offset' = 0
  BY <1>1, <1>3, TraceAssumption DEF Offset
<1>6. Calls'
  <2>1. filp_out # "null"
    BY <1>1, <1>2 DEF Calls
  <2> QED
    BY <1>1, <1>2, <1>3, <1>4, <2>1 DEF Calls, Busy
<1>7. Sorted'
  <2>1. \A j \in Cell : ~(j < Offset')
    BY <1>5, FilledFact
  <2> QED
    BY <1>1, <1>3, <2>1 DEF Sorted
<1>8. Stale'
  BY <1>1, LogFact DEF Stale
<1>9. Kept'
  BY <1>1, <1>3, <1>4 DEF Kept
<1>10. Ordered'
  BY <1>1, <1>2, <1>4 DEF Ordered, InOrder
<1> QED
  BY <1>6, <1>7, <1>8, <1>9, <1>10 DEF LogInv

(* The reset of vacant: what early callers have copied is counted in no    *)
(* longer.  One that is about to count its record then counts in the first *)
(* bytes of the page, whosever they are.                                   *)
LEMMA ResetLog ==
  ASSUME TypeOK, Room, LogInv, ResetVacant
  PROVE  LogInv'
<1>1. /\ state = "vacant" /\ state' = "live" /\ vacant' = Size /\ early' = Len(traced)
      /\ UNCHANGED <<write_file_buff, filp_out, page, log, traced, pc, rec, len>>
  BY DEF ResetVacant, statics
<1>2. UNCHANGED <<InFlight, Flushed>>
  BY <1>1 DEF InFlight, Flushed
<1>3. Calls /\ Sorted /\ Stale /\ Kept /\ Ordered /\ early = 0
  BY <1>1 DEF LogInv, Calls
<1>4. Offset' = 0
  BY <1>1, TraceAssumption DEF Offset
<1>5. /\ Len(traced) \in Nat /\ DOMAIN traced = 1 .. Len(traced)
      /\ \A i \in DOMAIN log : log[i] \in Int
  BY LogFact
<1>6. /\ Offset \in 0 .. Size - 1 /\ Size \in Nat
      /\ \A j \in Cell : j \in Int /\ 0 <= j /\ j < Size
      /\ \A j \in Int : 0 <= j /\ j < Size => j \in Cell
  BY FilledFact
<1>7. Calls'
  BY <1>1, <1>2, <1>3 DEF Calls, Busy
<1>8. Sorted'
  <2>1. \A j \in Cell : ~(j < Offset')
    BY <1>4, <1>6
  <2>2. ASSUME NEW t \in Task, pc[t] = "count", NEW j \in 0 .. len[t] - 1
        PROVE  rec[t] <= Len(traced) /\ page[j] \in 1 .. Len(traced)
    <3>1. Busy(t) /\ len[t] \in Nat /\ len[t] < Size
      BY <2>2, LengthFact DEF Busy, Room
    <3>2. rec[t] = Len(traced) /\ Len(traced) > 0
      BY <1>3, <3>1 DEF Calls
    <3>3. j \in Cell
      BY <1>6, <3>1
    <3>4. CASE j < Offset
      BY <1>3, <1>5, <3>2, <3>3, <3>4 DEF Sorted
    <3>5. CASE ~(j < Offset)
      <4> HIDE DEF Offset
      <4>1. j \in Offset .. Offset + len[t] - 1
        BY <1>6, <3>1, <3>5
      <4>2. page[j] = rec[t] \/ (rec[t] <= 0 /\ page[j] \in 1 .. 0)
        BY <1>3, <2>2, <4>1 DEF Sorted
      <4> QED
        BY <1>5, <3>2, <4>2
    <3> QED
      BY <1>5, <3>2, <3>4, <3>5
  <2>3. ASSUME NEW t \in Task, pc'[t] = "count", NEW j \in Offset' .. Offset' + len'[t] - 1
        PROVE  rec'[t] <= early' /\ page'[j] \in 1 .. early'
    <3>1. j \in 0 .. len[t] - 1
      <4>1. len[t] \in Nat
        BY <1>1, <2>3, LengthFact DEF Busy, Room
      <4> QED
        BY <1>1, <1>4, <2>3, <4>1
    <3> QED
      BY <1>1, <2>2, <2>3, <3>1
  <2> QED
    BY Zenon, <2>1, <2>3 DEF Sorted
<1>9. Stale'
  <2> SUFFICES ASSUME NEW j \in Cell, page[j] > Len(traced)
               PROVE  Logged(page[j])
    BY <1>1 DEF Stale, Logged
  <2>1. page[j] \in Int /\ page[j] > early
    BY <1>3, <1>5 DEF TypeOK
  <2>2. ~(j < Offset)
    BY <1>3, <1>5 DEF Sorted
  <2>3. ASSUME NEW t \in Task, pc[t] = "count", j \in Offset .. Offset + len[t] - 1
        PROVE  FALSE
    <3>1. rec[t] = Len(traced)
      BY <1>3, <2>3 DEF Calls, Busy
    <3>2. page[j] = rec[t] \/ rec[t] <= 0
      BY Zenon, <1>3, <2>3 DEF Sorted
    <3>3. Len(traced) > 0
      BY <1>3, <2>3 DEF Calls, Busy
    <3> QED
      BY <1>5, <2>1, <3>1, <3>2, <3>3
  <2> QED
    BY Zenon, <1>3, <2>1, <2>2, <2>3 DEF Stale
<1>10. Kept'
  BY <1>1, <1>5 DEF Kept
<1>11. Ordered'
  <2>1. \A i \in DOMAIN log : ~(log[i] > Len(traced) + 1)
    BY <1>3, <1>5 DEF Ordered
  <2> QED
    BY <1>1, <1>3, <2>1 DEF Ordered, InOrder
<1> QED
  BY <1>7, <1>8, <1>9, <1>10, <1>11 DEF LogInv

(* A call: its record is the next number, and in flight.                   *)
LEMMA CallLog ==
  ASSUME "callers" \notin Hazards, TypeOK, Room, LogInv, NEW t \in Task, NEW n \in Length, Call(t, n)
  PROVE  LogInv'
<1> DEFINE L == Len(traced)
<1>1. /\ pc[t] = "user" /\ (\A u \in Task : pc[u] \in {"user", "oops"})
      /\ state \in {"live", "open", "alloc", "vacant"}
      /\ traced' = Append(traced, n)
      /\ rec' = [rec EXCEPT ![t] = L + 1] /\ len' = [len EXCEPT ![t] = n]
      /\ pc' = [pc EXCEPT ![t] = "test"]
      /\ UNCHANGED <<state, write_file_buff, filp_out, page, vacant, log, early>>
  BY DEF Call, Idle, Goto, statics
<1>2. L \in Nat /\ Len(traced') = L + 1 /\ DOMAIN traced = 1 .. L /\ DOMAIN traced' = 1 .. L + 1
      /\ traced'[L + 1] = n /\ \A r \in 1 .. L : traced'[r] = traced[r]
  <2>1. traced \in Seq(Length) /\ L \in Nat
    BY LogFact DEF TypeOK
  <2>2. /\ traced' \in Seq(Length) /\ Len(traced') = L + 1
        /\ \A i \in 1 .. L : traced'[i] = traced[i]
        /\ traced'[L + 1] = n
    BY <1>1, <2>1, AppendProperties
  <2> QED
    BY <2>1, <2>2
<1> HIDE DEF L
<1>3. /\ pc'[t] = "test" /\ rec'[t] = L + 1 /\ len'[t] = n
      /\ \A u \in Task : u # t => pc'[u] = pc[u] /\ rec'[u] = rec[u] /\ len'[u] = len[u]
  BY <1>1 DEF TypeOK
<1>4. InFlight' = InFlight \cup {L + 1}
  BY <1>1, <1>3 DEF InFlight
<1>5. UNCHANGED <<Offset, Filled>>
  BY <1>1 DEF Offset, Filled
<1>6. ~Flushed /\ ~Flushed' /\ \A u \in Task : pc'[u] # "count" /\ pc[u] # "count"
  BY <1>1, <1>3 DEF Flushed
<1>7. Calls /\ Sorted /\ Stale /\ Kept /\ Ordered
  BY DEF LogInv
<1>8. Calls'
  <2>1. \A u \in Task : Busy(u)' => u = t
    BY <1>1, <1>3 DEF Busy
  <2>2. \A u \in Task : Busy(u)' =>
          /\ Len(traced') > 0 /\ rec'[u] = Len(traced') /\ len'[u] = traced'[rec'[u]]
          /\ state' # "gone"
    BY <1>1, <1>2, <1>3, <2>1
  <2>3. \A u \in Task : pc'[u] \notin {"write", "full", "nul", "count"}
    BY <1>1, <1>3
  <2>4. write_file_buff # "ok" => DOMAIN traced' \subseteq InFlight'
    BY <1>2, <1>4, <1>7 DEF Calls
  <2> QED
    BY <1>1, <1>7, <2>2, <2>3, <2>4 DEF Calls
<1>9. Sorted'
  <2>1. \A j \in Cell : j < Offset => page[j] \in 1 .. L
    BY <1>7 DEF Sorted, L
  <2>2. \A j \in Cell : j < Offset' => page'[j] \in 1 .. Len(traced')
    BY <1>1, <1>2, <1>5, <2>1
  <2>3. \A i, j \in Cell : i <= j /\ j < Offset' => page'[i] <= page'[j] \/ page'[i] <= early'
    BY <1>1, <1>5, <1>7 DEF Sorted
  <2> QED
    BY <1>6, <2>2, <2>3 DEF Sorted
<1>10. Stale'
  BY <1>1, <1>5, <1>6, <1>7 DEF Stale, Logged
<1>11. Kept'
  <2>1. \A r \in DOMAIN traced' \ InFlight' : r \in DOMAIN traced \ InFlight /\ traced'[r] = traced[r]
    BY <1>2, <1>4
  <2> QED
    BY <1>1, <1>5, <1>6, <1>7, <2>1 DEF Kept
<1>12. Ordered'
  <2>1. \A i \in DOMAIN log : log[i] <= L /\ log[i] \in Int
    BY <1>7, LogFact DEF Ordered, L
  <2>2. \A i \in DOMAIN log' : log'[i] <= Len(traced')
    BY <1>1, <1>2, <2>1
  <2>3. InOrder'
    BY <1>1, <1>4, <1>7 DEF Ordered, InOrder
  <2> QED
    BY <2>2, <2>3 DEF Ordered
<1> QED
  BY <1>8, <1>9, <1>10, <1>11, <1>12 DEF LogInv

LEMMA WriteLog ==
  ASSUME TypeOK, Room, LogInv, NEW t \in Task, WriteOut(t)
  PROVE  LogInv'
<1>1. /\ pc[t] = "write" /\ write_file_buff = "ok" /\ WriteToFile /\ pc' = [pc EXCEPT ![t] = "full"]
      /\ UNCHANGED <<state, write_file_buff, filp_out, page, vacant, traced, early, rec, len>>
  BY DEF WriteOut, Goto, statics
<1>2. Busy(t) /\ pc'[t] = "full"
  BY <1>1 DEF Busy, TypeOK
<1>3. \A u \in Task : u # t => pc'[u] = pc[u] /\ pc[u] \in {"user", "oops"}
  BY <1>1, <1>2, Alone DEF TypeOK
<1>4. InFlight' = InFlight
  BY <1>1, <1>2, SameFlight
<1>5. ~Flushed /\ \A u \in Task : pc[u] # "count" /\ pc'[u] # "count"
  BY <1>1, <1>2, <1>3 DEF Flushed
<1>6. Calls /\ Sorted
  BY DEF LogInv
<1>7. Calls'
  <2>1. \A u \in Task : Busy(u)' => Busy(u)
    BY <1>2, <1>3 DEF Busy
  <2> QED
    BY <1>1, <1>6, <2>1 DEF Calls
<1>8. Sorted'
  <2>1. UNCHANGED Offset
    BY <1>1 DEF Offset
  <2> QED
    BY <1>1, <1>5, <1>6, <2>1 DEF Sorted
<1>9. /\ \A r \in DOMAIN traced \ InFlight : r > early => Occurs(log', r, traced[r])
      /\ Ordered'
      /\ \A j \in Cell : page[j] > early => \E i \in DOMAIN log' : log'[i] = page[j]
  <2>1. state # "gone"
    BY <1>2, <1>6 DEF Calls
  <2> QED
    BY <1>1, <1>4, <1>5, <2>1, WriteKeeps
<1>10. Stale' /\ Kept'
  <2>1. Stale'
    BY <1>1, <1>9 DEF Stale, Logged
  <2>2. Kept'
    BY <1>1, <1>4, <1>9 DEF Kept
  <2> QED
    BY <2>1, <2>2
<1> QED
  BY <1>7, <1>8, <1>9, <1>10 DEF LogInv

(* The page is empty once the log holds it.                                *)
LEMMA EmptyLog ==
  ASSUME TypeOK, Room, LogInv, NEW t \in Task, SetVacant(t) \/ ClearPage(t)
  PROVE  LogInv'
<1>1. /\ pc[t] \in {"full", "nul"} /\ pc'[t] \in {"nul", "copy"} /\ pc' = [pc EXCEPT ![t] = pc'[t]]
      /\ vacant' = Size
      /\ \A j \in Cell : page'[j] \in {page[j], 0}
      /\ UNCHANGED <<state, write_file_buff, filp_out, log, traced, early, rec, len>>
  BY DEF SetVacant, ClearPage, Goto, statics, Nul, TypeOK, Room
<1>2. Busy(t)
  BY <1>1 DEF Busy
<1>3. \A u \in Task : u # t => pc'[u] = pc[u] /\ pc[u] \in {"user", "oops"}
  BY <1>1, <1>2, Alone DEF TypeOK
<1>4. InFlight' = InFlight
  BY <1>1, <1>2, SameFlight
<1>5. Flushed /\ \A u \in Task : pc[u] # "count" /\ pc'[u] # "count"
  BY <1>1, <1>3 DEF Flushed
<1>6. Calls /\ Sorted /\ Stale /\ Kept /\ Ordered
  BY DEF LogInv
<1>7. Calls'
  <2>1. \A u \in Task : Busy(u)' => Busy(u)
    BY <1>2, <1>3 DEF Busy
  <2>2. write_file_buff = "ok"
    BY <1>1, <1>6 DEF Calls
  <2> QED
    BY <1>1, <1>6, <2>1, <2>2 DEF Calls
<1>8. Sorted'
  <2>1. Offset' = 0
    BY <1>1, TraceAssumption DEF Offset
  <2>2. \A j \in Cell : ~(j < Offset')
    BY <2>1, FilledFact
  <2> QED
    BY <1>5, <2>2 DEF Sorted
<1>9. Stale'
  <2>1. \A j \in Cell : page[j] > early => Logged(page[j])
    BY <1>5, <1>6 DEF Stale
  <2>2. \A j \in Cell : page'[j] > early => Logged(page'[j])
    BY <1>1, <2>1, LogFact
  <2> QED
    BY <1>1, <2>2 DEF Stale, Logged
<1>10. Kept'
  BY <1>1, <1>4, <1>5, <1>6 DEF Kept
<1>11. Ordered'
  BY <1>1, <1>4, <1>6 DEF Ordered, InOrder
<1> QED
  BY <1>7, <1>8, <1>9, <1>10, <1>11 DEF LogInv

LEMMA CopyLog ==
  ASSUME TypeOK, Room, LogInv, NEW t \in Task, CopyRecord(t)
  PROVE  LogInv'
<1>1. /\ pc[t] = "copy" /\ pc'[t] = "count" /\ pc' = [pc EXCEPT ![t] = pc'[t]] /\ write_file_buff = "ok"
      /\ page' = [j \in Cell |-> IF j \in Offset .. Offset + len[t] - 1 THEN rec[t] ELSE page[j]]
      /\ UNCHANGED <<state, write_file_buff, filp_out, vacant, log, traced, early, rec, len>>
  BY DEF CopyRecord, Goto, statics, TypeOK
<1>2. Busy(t)
  BY <1>1 DEF Busy
<1>3. \A u \in Task : u # t => pc'[u] = pc[u] /\ pc[u] \in {"user", "oops"}
  BY <1>1, <1>2, Alone DEF TypeOK
<1>4. InFlight' = InFlight
  BY <1>1, <1>2, SameFlight
<1>5. ~Flushed /\ ~Flushed' /\ \A u \in Task : pc[u] # "count"
  BY <1>1, <1>3 DEF Flushed
<1>6. Calls /\ Sorted /\ Stale /\ Kept /\ Ordered
  BY DEF LogInv
<1>7. /\ Offset \in 0 .. Size - 1 /\ Len(Filled) = Offset
      /\ \A j \in 1 .. Offset : Filled[j] = page[j - 1]
      /\ \A j \in Cell : j \in Int /\ 0 <= j /\ j < Size
      /\ \A j \in Int : 0 <= j /\ j < Size => j \in Cell
      /\ Size \in Nat /\ len[t] \in Nat /\ len[t] > 0 /\ Offset + len[t] <= Size
  <2>1. len[t] \in Nat /\ len[t] > 0 /\ len[t] < vacant
    BY <1>1, <1>2, LengthFact DEF Room
  <2>2. vacant \in 1 .. Size /\ Size \in Nat
    BY TraceAssumption DEF Room
  <2>3. Offset + len[t] <= Size
    BY <2>1, <2>2 DEF Offset
  <2> QED
    BY <2>1, <2>2, <2>3, FilledFact
<1>8. UNCHANGED Offset
  BY <1>1 DEF Offset
<1> HIDE DEF Offset
<1>9. \A j \in Cell : j < Offset => page'[j] = page[j]
  BY <1>1, <1>7
<1>10. Calls'
  <2>1. \A u \in Task : Busy(u)' => Busy(u)
    BY <1>2, <1>3 DEF Busy
  <2> QED
    BY <1>1, <1>6, <2>1 DEF Calls
<1>11. Sorted'
  <2>1. \A j \in Cell : j < Offset' => page'[j] \in 1 .. Len(traced')
    BY <1>1, <1>6, <1>8, <1>9 DEF Sorted
  <2>2. ASSUME NEW i \in Cell, NEW j \in Cell, i <= j, j < Offset
        PROVE  page'[i] <= page'[j] \/ page'[i] <= early
    <3>1. i < Offset
      BY <1>7, <2>2
    <3>2. page[i] <= page[j] \/ page[i] <= early
      BY <1>6, <2>2 DEF Sorted
    <3> QED
      BY <1>9, <2>2, <3>1, <3>2
  <2>3. ASSUME NEW u \in Task, pc'[u] = "count", NEW j \in Offset' .. Offset' + len'[u] - 1
        PROVE  page'[j] = rec'[u]
    <3>1. u = t
      BY <1>3, <2>3
    <3>2. j \in Offset .. Offset + len[t] - 1
      BY <1>1, <1>8, <3>1
    <3>3. j \in Cell
      BY <1>7, <3>2
    <3> QED
      BY <1>1, <3>1, <3>2, <3>3
  <2> QED
    <3>1. \A i, j \in Cell : i <= j /\ j < Offset' => page'[i] <= page'[j] \/ page'[i] <= early'
      BY <1>1, <1>8, <2>2
    <3> QED
      BY Zenon, <2>1, <2>3, <3>1 DEF Sorted
<1>12. Stale'
  <2> SUFFICES ASSUME NEW j \in Cell, page'[j] > early
               PROVE  \/ Logged(page'[j])
                      \/ j < Offset
                      \/ pc'[t] = "count" /\ j \in Offset .. Offset + len[t] - 1
    BY <1>1, <1>5, <1>8 DEF Stale, Logged
  <2>1. CASE j \in Offset .. Offset + len[t] - 1
    BY <1>1, <2>1
  <2>2. CASE j \notin Offset .. Offset + len[t] - 1
    <3>1. page'[j] = page[j]
      BY <1>1, <2>2
    <3> QED
      BY <1>5, <1>6, <3>1 DEF Stale
  <2> QED
    BY <2>1, <2>2
<1>13. Kept'
  <2>1. Len(Filled') = Offset /\ \A j \in 1 .. Offset : Filled'[j] = page'[j - 1]
    BY <1>7, <1>8 DEF Filled
  <2>2. ASSUME NEW j \in 1 .. Offset
        PROVE  Filled'[0 + j] = Filled[j]
    <3>1. j - 1 \in Cell /\ j - 1 < Offset /\ 0 + j = j
      BY <1>7
    <3> QED
      BY <1>7, <1>9, <2>1, <3>1
  <2>3. ASSUME NEW r \in DOMAIN traced, Occurs(Filled, r, traced[r])
        PROVE  Occurs(Filled', r, traced[r])
    <3>1. traced[r] \in Nat
      BY LogFact
    <3>2. Len(Filled) \in Nat /\ Len(Filled') \in Nat /\ 0 + Len(Filled) <= Len(Filled')
      BY <1>7, <2>1
    <3>3. \A j \in 1 .. Len(Filled) : Filled'[0 + j] = Filled[j]
      BY <1>7, <2>2
    <3> QED
      BY <2>3, <3>1, <3>2, <3>3, OccursIn
  <2>4. \A r \in DOMAIN traced \ InFlight : r > early =>
          \/ Occurs(log, r, traced[r])
          \/ state # "gone" /\ Occurs(Filled', r, traced[r])
    BY Zenon, <1>6, <2>3 DEF Kept
  <2> QED
    BY <1>1, <1>4, <1>5, <2>4 DEF Kept
<1>14. Ordered'
  BY <1>1, <1>4, <1>6 DEF Ordered, InOrder
<1> QED
  BY <1>10, <1>11, <1>12, <1>13, <1>14 DEF LogInv

(* The record has been counted: it is filled in, and the last of all.      *)
LEMMA CountLog ==
  ASSUME TypeOK, Room, LogInv, NEW t \in Task, Count(t)
  PROVE  LogInv'
<1> DEFINE L == Len(traced)
           n == len[t]
<1>1. /\ pc[t] = "count" /\ pc'[t] = "user" /\ pc' = [pc EXCEPT ![t] = pc'[t]]
      /\ vacant' = vacant - n
      /\ UNCHANGED <<state, write_file_buff, filp_out, page, log, traced, early, rec, len>>
  BY DEF Count, Goto, statics, TypeOK
<1>2. Busy(t)
  BY <1>1 DEF Busy
<1>3. \A u \in Task : u # t => pc'[u] = pc[u] /\ pc[u] \in {"user", "oops"}
  BY <1>1, <1>2, Alone DEF TypeOK
<1>4. \A r \in InFlight : r # rec[t] => r \in InFlight'
  <2> SUFFICES ASSUME NEW u \in Task, pc[u] # "user", rec[u] # rec[t]
               PROVE  rec[u] \in InFlight'
    BY DEF InFlight
  <2>1. pc'[u] # "user"
    BY <1>3
  <2> QED
    BY <1>1, <2>1 DEF InFlight
<1>5. ~Flushed /\ ~Flushed' /\ \A u \in Task : pc'[u] # "count"
  BY <1>1, <1>3 DEF Flushed
<1>6. Calls /\ Sorted /\ Stale /\ Kept /\ Ordered
  BY DEF LogInv
<1>7. /\ Offset \in 0 .. Size - 1 /\ Len(Filled) = Offset
      /\ \A j \in 1 .. Offset : Filled[j] = page[j - 1]
      /\ \A j \in Cell : j \in Int /\ 0 <= j /\ j < Size /\ page[j] \in Int
      /\ \A j \in Int : 0 <= j /\ j < Size => j \in Cell
      /\ Size \in Nat /\ n \in Nat /\ n > 0 /\ Offset + n <= Size
  <2>1. n \in Nat /\ n > 0 /\ n < vacant
    BY <1>1, <1>2, LengthFact DEF Room
  <2>2. vacant \in 1 .. Size /\ Size \in Nat
    BY TraceAssumption DEF Room
  <2>3. Offset + n <= Size
    BY <2>1, <2>2 DEF Offset
  <2> QED
    BY <2>1, <2>2, <2>3, FilledFact
<1>8. Offset' = Offset + n
  <2>1. vacant \in Int /\ Size \in Int /\ n \in Int
    BY <1>7 DEF TypeOK
  <2> QED
    BY <1>1, <2>1 DEF Offset
<1>9. L \in Nat /\ L > 0 /\ rec[t] = L /\ n = traced[L] /\ write_file_buff = "ok" /\ state # "gone"
      /\ DOMAIN traced = 1 .. L /\ early \in 0 .. L
  BY <1>1, <1>2, <1>6, LogFact DEF Calls
<1> HIDE DEF Offset, L, n
<1>10. Calls'
  <2>1. \A u \in Task : ~Busy(u)'
    BY <1>1, <1>3 DEF Busy
  <2> QED
    BY <1>1, <1>6, <1>9, <2>1 DEF Calls
<1>11. \A j \in Offset .. Offset + n - 1 : page[j] = L \/ (L <= early /\ page[j] \in 1 .. early)
  BY <1>1, <1>6, <1>9 DEF Sorted, n
<1>12. Sorted'
  <2>1. \A j \in Cell : j < Offset' => page[j] \in 1 .. L
    <3> SUFFICES ASSUME NEW j \in Cell, j < Offset'
                 PROVE  page[j] \in 1 .. L
      OBVIOUS
    <3>1. CASE j < Offset
      BY <1>6, <3>1 DEF Sorted, L
    <3>2. CASE ~(j < Offset)
      <4>1. j \in Offset .. Offset + n - 1
        BY <1>7, <1>8, <3>2
      <4> QED
        BY <1>9, <1>11, <4>1
    <3> QED
      BY <3>1, <3>2
  <2>2. ASSUME NEW i \in Cell, NEW j \in Cell, i <= j, j < Offset'
        PROVE  page[i] <= page[j] \/ page[i] <= early
    <3>1. CASE j < Offset
      BY <1>6, <2>2, <3>1 DEF Sorted
    <3>2. CASE ~(j < Offset)
      <4>1. j \in Offset .. Offset + n - 1 /\ i < Offset'
        BY <1>7, <1>8, <2>2, <3>2
      <4>2. (page[j] = L \/ L <= early) /\ page[i] \in 1 .. L
        BY <1>11, <2>1, <4>1
      <4> QED
        BY <1>9, <4>2
    <3> QED
      BY <3>1, <3>2
  <2>3. \A j \in Cell : j < Offset' => page'[j] \in 1 .. Len(traced')
    BY <1>1, <2>1 DEF L
  <2> QED
    BY <1>1, <1>5, <2>2, <2>3 DEF Sorted
<1>13. Stale'
  <2> SUFFICES ASSUME NEW j \in Cell, page[j] > early
               PROVE  Logged(page[j]) \/ j < Offset'
    BY <1>1, <1>5 DEF Stale, Logged
  <2>1. \/ Logged(page[j]) \/ j < Offset
        \/ \E u \in Task : pc[u] = "count" /\ j \in Offset .. Offset + len[u] - 1
    BY <1>6 DEF Stale
  <2>2. ASSUME NEW u \in Task, pc[u] = "count", j \in Offset .. Offset + len[u] - 1
        PROVE  j < Offset'
    <3>1. u = t
      BY <1>3, <2>2
    <3> QED
      BY <1>7, <1>8, <2>2, <3>1 DEF n
  <2>3. j < Offset => j < Offset'
    BY <1>7, <1>8
  <2> QED
    BY <2>1, <2>2, <2>3
<1>14. Len(Filled') = Offset + n /\ \A j \in 1 .. Offset + n : Filled'[j] = page[j - 1]
  <2>1. Offset + n \in Nat
    BY <1>7
  <2> QED
    BY <1>1, <1>8, <2>1 DEF Filled
<1>15. ASSUME NEW r \in DOMAIN traced, Occurs(Filled, r, traced[r])
       PROVE  Occurs(Filled', r, traced[r])
  <2>1. traced[r] \in Nat
    BY LogFact
  <2>2. Len(Filled) \in Nat /\ Len(Filled') \in Nat /\ 0 + Len(Filled) <= Len(Filled')
    BY <1>7, <1>14
  <2>3. \A j \in 1 .. Len(Filled) : Filled'[0 + j] = Filled[j]
    BY <1>7, <1>14, SMTT(30)
  <2> QED
    BY <1>15, <2>1, <2>2, <2>3, OccursIn
<1>16. L > early => Occurs(Filled', L, n)
  <2> SUFFICES ASSUME L > early PROVE Occurs(Filled', L, n)
    OBVIOUS
  <2>1. Offset \in 0 .. Len(Filled') - n
    BY <1>7, <1>14
  <2>2. ASSUME NEW k \in 1 .. n
        PROVE  Filled'[Offset + k] = L
    <3> DEFINE m == Offset + k
    <3>1. m \in 1 .. Offset + n /\ m - 1 \in Offset .. Offset + n - 1
      BY <1>7
    <3> HIDE DEF m
    <3>2. Filled'[m] = page[m - 1]
      BY Zenon, <1>14, <3>1
    <3>3. page[m - 1] = L
      BY <1>9, <1>11, <3>1
    <3> QED
      BY <3>2, <3>3 DEF m
  <2> QED
    BY <2>1, <2>2 DEF Occurs
<1>17. Kept'
  <2>1. ASSUME NEW r \in DOMAIN traced \ InFlight', r > early
        PROVE  \/ Occurs(log, r, traced[r])
               \/ Occurs(Filled', r, traced[r])
    <3>1. CASE r = L
      BY <1>9, <1>16, <2>1, <3>1
    <3>2. CASE r # L
      <4>1. r \in DOMAIN traced \ InFlight
        BY <1>4, <1>9, <3>2
      <4>2. Occurs(log, r, traced[r]) \/ Occurs(Filled, r, traced[r])
        BY Zenon, <1>6, <2>1, <4>1 DEF Kept
      <4> QED
        BY Zenon, <1>15, <4>1, <4>2
    <3> QED
      BY <3>1, <3>2
  <2> QED
    BY <1>1, <1>5, <1>9, <2>1 DEF Kept
<1>18. Ordered'
  <2>1. ASSUME NEW i \in DOMAIN log, log[i] > early + 1, log[i] - 1 \notin InFlight'
        PROVE  \E j \in 1 .. i : log[j] = log[i] - 1
    <3>1. log[i] <= L /\ log[i] \in Int
      BY <1>6, LogFact DEF Ordered, L
    <3>2. log[i] - 1 # rec[t]
      BY <1>9, <3>1
    <3>3. log[i] - 1 \notin InFlight
      BY <1>4, <2>1, <3>2
    <3> QED
      BY <1>6, <2>1, <3>3 DEF Ordered, InOrder
  <2> QED
    BY <1>1, <1>6, <2>1 DEF Ordered, InOrder
<1> QED
  BY <1>10, <1>12, <1>13, <1>17, <1>18 DEF LogInv

LEMMA RmmodLog ==
  ASSUME TypeOK, Room, LogInv, Rmmod
  PROVE  LogInv'
<1>1. /\ state = "live" /\ (\A u \in Task : pc[u] \in {"user", "oops"})
      /\ state' = IF filp_out = "err" THEN "oops" ELSE "gone"
      /\ IF write_file_buff = "ok" /\ filp_out = "ok" /\ vacant < Size
         THEN WriteToFile ELSE UNCHANGED log
      /\ UNCHANGED <<write_file_buff, filp_out, page, vacant, traced, early, pc, rec, len>>
  BY DEF Rmmod, Idle, statics
<1>2. UNCHANGED <<Offset, Filled, InFlight>>
  BY <1>1 DEF Offset, Filled, InFlight
<1>3. ~Flushed /\ ~Flushed' /\ \A u \in Task : pc[u] # "count"
  BY <1>1 DEF Flushed
<1>4. Calls /\ Sorted /\ Stale /\ Kept /\ Ordered
  BY DEF LogInv
<1>5. filp_out \in {"ok", "err"} /\ write_file_buff \in {"ok", "null"}
  BY <1>1, <1>4 DEF Calls, TypeOK
<1>6. Calls'
  <2>1. \A u \in Task : ~Busy(u)'
    BY <1>1 DEF Busy
  <2> QED
    BY <1>1, <1>2, <1>4, <1>5, <2>1 DEF Calls
<1>7. Sorted'
  BY <1>1, <1>2, <1>3, <1>4 DEF Sorted
<1>8. CASE write_file_buff = "ok" /\ filp_out = "ok" /\ vacant < Size
  <2>1. /\ \A r \in DOMAIN traced \ InFlight : r > early => Occurs(log', r, traced[r])
        /\ Ordered'
        /\ \A j \in Cell : page[j] > early => \E i \in DOMAIN log' : log'[i] = page[j]
    BY <1>1, <1>2, <1>3, <1>8, WriteKeeps
  <2>2. Stale'
    BY <1>1, <2>1 DEF Stale, Logged
  <2>3. Kept'
    BY <1>1, <1>2, <2>1 DEF Kept
  <2> QED
    BY <1>6, <1>7, <2>1, <2>2, <2>3 DEF LogInv
<1>9. CASE ~(write_file_buff = "ok" /\ filp_out = "ok" /\ vacant < Size)
  <2>1. UNCHANGED log
    BY <1>1, <1>9
  <2>2. Stale'
    BY <1>1, <1>2, <1>3, <1>4, <2>1 DEF Stale, Logged
  <2>3. Ordered'
    BY <1>1, <1>2, <1>4, <2>1 DEF Ordered, InOrder
  <2>4. Kept'
    <3>1. ASSUME NEW r \in DOMAIN traced \ InFlight, r > early, state' = "gone"
          PROVE  Occurs(log, r, traced[r])
      <4>1. write_file_buff = "ok"
        BY <1>4, <3>1 DEF Calls
      <4>2. ~(vacant < Size) /\ vacant \in 1 .. Size /\ Size \in Nat
        BY <1>1, <1>5, <1>9, <3>1, <4>1, TraceAssumption DEF Room
      <4>3. Offset = 0
        BY <4>2 DEF Offset
      <4>4. ~Occurs(Filled, r, traced[r])
        <5>1. Len(Filled) = 0
          BY <4>3, FilledFact
        <5>2. traced[r] \in Nat /\ traced[r] > 0
          BY LogFact
        <5> QED
          BY <5>1, <5>2, OccursHas
      <4> QED
        BY Zenon, <1>4, <3>1, <4>4 DEF Kept
    <3>2. state' # "gone" => Kept'
      BY <1>1, <1>2, <1>3, <1>4, <2>1 DEF Kept
    <3>3. state' = "gone" => Kept'
      BY <1>1, <1>2, <2>1, <3>1 DEF Kept
    <3> QED
      BY <3>2, <3>3
  <2> QED
    BY <1>6, <1>7, <2>2, <2>3, <2>4 DEF LogInv
<1> QED
  BY <1>8, <1>9

LEMMA LogStep ==
  ASSUME "callers" \notin Hazards, TypeOK, Room, LogInv, [Next]_vars
  PROVE  LogInv'
<1>1. CASE UNCHANGED vars
  <2>1. UNCHANGED <<state, write_file_buff, filp_out, page, vacant, log, traced, early, pc, rec, len>>
    BY <1>1 DEF vars, statics
  <2>2. UNCHANGED <<Offset, Filled, InFlight, Flushed>>
    BY <2>1 DEF Offset, Filled, InFlight, Flushed
  <2>3. Calls' /\ Sorted'
    BY <2>1, <2>2 DEF LogInv, Calls, Sorted, Busy
  <2>4. Stale'
    BY <2>1, <2>2 DEF LogInv, Stale, Logged
  <2>5. Kept'
    BY <2>1, <2>2 DEF LogInv, Kept
  <2>6. Ordered'
    BY <2>1, <2>2 DEF LogInv, Ordered, InOrder
  <2> QED
    BY <2>3, <2>4, <2>5, <2>6 DEF LogInv
<1>2. ASSUME NEW t \in Task, TestFull(t)
      PROVE  LogInv'
  <2>1. /\ pc[t] = "test" /\ pc'[t] \in {"write", "copy"} /\ pc' = [pc EXCEPT ![t] = pc'[t]]
        /\ UNCHANGED <<state, statics, page, vacant, log, traced, early, rec, len>>
        /\ pc'[t] = "write" => vacant <= len[t]
    BY <1>2 DEF TestFull, Goto, TypeOK, Full
  <2>2. Busy(t)
    BY <2>1 DEF Busy
  <2>3. write_file_buff # "ok" => vacant = Size
    BY DEF LogInv, Calls
  <2>4. len[t] < Size /\ len[t] \in Nat /\ Size \in Nat
    BY <2>2, LengthFact, TraceAssumption DEF Room
  <2>5. pc'[t] = "write" => write_file_buff = "ok"
    BY <2>1, <2>3, <2>4
  <2> QED
    BY <2>1, <2>2, <2>5, QuietLog
<1>3. ASSUME NEW t \in Task, Oops(t)
      PROVE  LogInv'
  <2>1. /\ pc[t] \in {"write", "nul", "copy"} /\ pc'[t] = "oops" /\ pc' = [pc EXCEPT ![t] = pc'[t]]
        /\ UNCHANGED <<state, statics, page, vacant, log, traced, early, rec, len>>
        /\ pc[t] = "nul" => write_file_buff # "ok"
    BY <1>3 DEF Oops, Goto, TypeOK
  <2>2. Busy(t)
    BY <2>1 DEF Busy
  <2>3. pc[t] # "nul"
    BY <2>1 DEF LogInv, Calls
  <2> QED
    BY <2>1, <2>2, <2>3, QuietLog
<1> QED
  BY <1>1, <1>2, <1>3, LoadLog, AllocLog, ResetLog, CallLog, WriteLog, EmptyLog, CopyLog, CountLog, RmmodLog
     DEF Next, Load, Trace

LEMMA LogInit == Init => Room /\ LogInv
<1> SUFFICES ASSUME Init PROVE LogInv
  BY RoomInit
<1>1. /\ state = "register" /\ write_file_buff = "null" /\ filp_out = "null" /\ vacant = Size /\ early = 0
      /\ page = [j \in Cell |-> -1] /\ log = <<>> /\ traced = <<>>
      /\ \A t \in Task : pc[t] = "user"
  BY DEF Init, Junk
<1>2. Offset = 0 /\ DOMAIN traced = {} /\ DOMAIN log = {}
  BY <1>1, TraceAssumption DEF Offset
<1>3. Calls
  BY <1>1, <1>2 DEF Calls, Busy
<1>4. Sorted
  <2>1. \A j \in Cell : ~(j < Offset)
    BY <1>2, TraceAssumption DEF Cell
  <2> QED
    BY <1>1, <2>1 DEF Sorted
<1>5. Stale
  BY <1>1 DEF Stale
<1>6. Kept /\ Ordered
  BY <1>2 DEF Kept, Ordered, InOrder
<1> QED
  BY <1>3, <1>4, <1>5, <1>6 DEF LogInv

LEMMA LogHolds ==
  ASSUME "callers" \notin Hazards
  PROVE  Spec => [](TypeOK /\ Room /\ LogInv)
<1>1. TypeOK /\ Room /\ [Next]_vars => Room'
  <2>1. Room /\ UNCHANGED vars => Room'
    BY DEF Room, Busy, vars, statics
  <2> QED
    BY <2>1, RoomStep
<1>2. TypeOK /\ Room /\ LogInv /\ [Next]_vars => LogInv'
  BY LogStep
<1> QED
  BY <1>1, <1>2, LogInit, TypeCorrect, PTL DEF Spec

(* When calls do not overlap, the record of every call that has returned   *)
(* and did not begin before trace_init was over is whole, in the log or in *)
(* the filled part of the page, and in the log once the module is removed; *)
(* for every size of the page, any records and any number of calls, also   *)
(* after calls that came early and when allocations or opens fail.         *)
THEOREM NothingLostAlways ==
  ASSUME "callers" \notin Hazards
  PROVE  Spec => []NothingLost
<1>1. TypeOK /\ Room /\ LogInv => NothingLost
  <2> SUFFICES ASSUME TypeOK, Room, Kept PROVE NothingLost
    BY DEF LogInv
  <2>1. Offset \in Cell
    BY FilledFact
  <2> QED
    BY Zenon, <2>1 DEF Kept, NothingLost, Whole
<1> QED
  BY <1>1, LogHolds, PTL

(* Under the same hypothesis the records of such calls reach the log in    *)
(* the order of the calls: where one occurs, the one before it has         *)
(* occurred, unless its call crashed.                                      *)
THEOREM InOrderAlways ==
  ASSUME "callers" \notin Hazards
  PROVE  Spec => []InOrder
<1>1. LogInv => InOrder
  BY DEF LogInv, Ordered
<1> QED
  BY <1>1, LogHolds, PTL
=============================================================================
