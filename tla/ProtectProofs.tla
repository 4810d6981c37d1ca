--------------------------- MODULE ProtectProofs ---------------------------
(***************************************************************************)
(* Types, Sealed, NamesStay and NoneForged of Protect, for any processes,  *)
(* names and files, whatever the second read of the names finds.           *)
(***************************************************************************)
EXTENDS Protect, TLAPS

(* What an entry holds, by its type.                                       *)
LEMMA EntryFact ==
  ASSUME NEW e \in Entry
  PROVE  /\ e.type = "file" => e.file \in Inode /\ e = File(e.file)
         /\ e.type = "symlink" => e.to \in Name /\ e = Link(e.to)
         /\ Nothing \in Entry /\ Directory \in Entry
  BY DEF Entry, Nothing, File, Link, Directory

(* What a call that is under way has been given.                           *)
LEMMA PendingFact ==
  ASSUME NEW c \in Pending
  PROVE  /\ c.call \in OneName \cup TwoNames => c.name \in Name
         /\ c.call \in TwoNames => c.new \in Name
         /\ c.call = "write" => c.file \in Inode
  BY DEF Pending, NoCall, OneName, TwoNames

(* What it has been given after the second read.                           *)
LEMMA FetchFact ==
  ASSUME TypeOK, NEW t \in Task, NEW n \in Name, NEW new \in Name \cup {None}, Fetch(t, n, new)
  PROVE  /\ pending[t].call \in OneName \cup TwoNames
         /\ pending[t].call \in TwoNames => new \in Name
         /\ [pending[t] EXCEPT !.name = n, !.new = new, !.stage = "fetched"] \in Pending
         /\ pending' = [pending EXCEPT ![t] = [pending[t] EXCEPT !.name = n, !.new = new, !.stage = "fetched"]]
         /\ pending'[t].call = pending[t].call /\ pending'[t].name = n /\ pending'[t].new = new
         /\ \A u \in Task \ {t} : pending'[u] = pending[u]
<1> DEFINE c == pending[t]
           d == [pending[t] EXCEPT !.name = n, !.new = new, !.stage = "fetched"]
<1>1. c \in Pending /\ c.stage = "tested" /\ (c.new = None) = (new = None)
  BY DEF TypeOK, Fetch
<1>2. None \notin Name
  BY ProtectAssumption DEF Name
<1>3. \/ c \in [call : OneName, name : Name, new : {None}, file : {None}, stage : Stage]
      \/ c \in [call : TwoNames, name : Name, new : Name, file : {None}, stage : Stage]
  BY <1>1 DEF Pending, NoCall
<1>4. \/ d \in [call : OneName, name : Name, new : {None}, file : {None}, stage : Stage]
      \/ d \in [call : TwoNames, name : Name, new : Name, file : {None}, stage : Stage]
  BY <1>1, <1>2, <1>3 DEF Stage
<1>5. d \in Pending
  BY <1>4 DEF Pending
<1>6. c.call \in OneName \cup TwoNames /\ (c.call \in TwoNames => new \in Name)
  BY <1>1, <1>2, <1>3 DEF OneName, TwoNames
<1>7. pending' = [pending EXCEPT ![t] = d]
  BY DEF Fetch
<1>8. d.call = c.call /\ d.name = n /\ d.new = new
  BY <1>3
<1>9. pending'[t] = d /\ \A u \in Task \ {t} : pending'[u] = pending[u]
  BY <1>7 DEF TypeOK
<1> QED
  BY <1>5, <1>6, <1>7, <1>8, <1>9

(* The build stays as it is, and a swap is never taken back.               *)
LEMMA Lasting ==
  ASSUME TypeOK, [Next]_vars
  PROVE  order' = order /\ born' = born /\ (swapped => swapped')
<1>1. ASSUME NEW t \in Task, NEW n \in Name, NEW new \in Name \cup {None}, Fetch(t, n, new)
      PROVE  order' = order /\ born' = born /\ (swapped => swapped')
  <2>1. swapped' = (swapped \/ Swap(pending[t], n, new))
    BY <1>1 DEF Fetch
  <2>2. swapped => swapped'
    BY <2>1
  <2> QED
    BY <1>1, <2>2 DEF Fetch
<1>2. ASSUME NEW t \in Task,
             \/ \E c, n, new : Pass(t, c, n, new)
             \/ \E i : PassWrite(t, i)
             \/ Follow(t) \/ Open(t) \/ Write(t) \/ Unlink(t) \/ Rmdir(t) \/ Make(t) \/ Rename(t) \/ Fail(t)
      PROVE  order' = order /\ born' = born /\ swapped' = swapped
  BY <1>2 DEF Pass, PassWrite, Follow, Open, Write, Unlink, Rmdir, Make, Rename, Fail, Finish
<1> QED
  BY <1>1, <1>2 DEF Next, vars

LEMMA TypeStep ==
  ASSUME TypeOK, [Next]_vars
  PROVE  TypeOK'
<1>1. CASE UNCHANGED vars
  BY <1>1 DEF TypeOK, vars
<1>2. ASSUME NEW t \in Task,
             \/ \E c \in OneName, n \in Name : Pass(t, c, n, None)
             \/ \E c \in TwoNames, n, new \in Name : Pass(t, c, n, new)
      PROVE  TypeOK'
  <2>1. CASE \E c \in OneName, n \in Name : Pass(t, c, n, None)
    <3>1. PICK c \in OneName, n \in Name : Pass(t, c, n, None)
      BY <2>1
    <3>2. [NoCall EXCEPT !.call = c, !.name = n, !.new = None, !.stage = "tested"] \in Pending
      BY DEF NoCall, Pending, Stage
    <3> QED
      BY <3>1, <3>2 DEF TypeOK, Pass
  <2>2. CASE \E c \in TwoNames, n, new \in Name : Pass(t, c, n, new)
    <3>1. PICK c \in TwoNames, n \in Name, new \in Name : Pass(t, c, n, new)
      BY <2>2
    <3>2. [NoCall EXCEPT !.call = c, !.name = n, !.new = new, !.stage = "tested"] \in Pending
      BY DEF NoCall, Pending, Stage
    <3> QED
      BY <3>1, <3>2 DEF TypeOK, Pass
  <2> QED
    BY <1>2, <2>1, <2>2
<1>3. ASSUME NEW t \in Task, NEW i \in Inode, PassWrite(t, i)
      PROVE  TypeOK'
  <2>1. [NoCall EXCEPT !.call = "write", !.file = i, !.stage = "fetched"] \in Pending
    BY DEF NoCall, Pending
  <2> QED
    BY <1>3, <2>1 DEF TypeOK, PassWrite
<1>4. ASSUME NEW t \in Task, Finish(t)
      PROVE  /\ pending' \in [Task -> Pending]
             /\ order' = order /\ swapped' = swapped /\ born' = born
  BY <1>4 DEF TypeOK, Finish, Pending
<1>5. ASSUME NEW t \in Task, Follow(t)
      PROVE  TypeOK'
  <2>1. pending[t] \in Pending /\ pending[t].call = "open" /\ entry[pending[t].name].to \in Name
    BY <1>5, PendingFact, EntryFact DEF TypeOK, Follow, Doing, OneName
  <2>2. [pending[t] EXCEPT !.name = entry[pending[t].name].to] \in Pending
    BY <2>1 DEF Pending, NoCall, OneName, TwoNames
  <2> QED
    BY <1>5, <2>2 DEF TypeOK, Follow
<1>6. ASSUME NEW t \in Task, Open(t)
      PROVE  TypeOK'
  <2>1. pending[t].name \in Name /\ entry[pending[t].name] \in Entry
    BY <1>6, PendingFact DEF TypeOK, Open, Doing, OneName
  <2>2. \A i \in Inode : File(i) \in Entry
    BY DEF Entry
  <2> QED
    BY <1>4, <1>6, <2>1, <2>2, EntryFact DEF TypeOK, Open
<1>7. ASSUME NEW t \in Task, Write(t)
      PROVE  TypeOK'
  BY <1>4, <1>7, PendingFact DEF TypeOK, Write, Doing
<1>8. ASSUME NEW t \in Task, Unlink(t) \/ Rmdir(t) \/ Fail(t)
      PROVE  TypeOK'
  BY <1>4, <1>8 DEF TypeOK, Unlink, Rmdir, Fail, Entry
<1>9. ASSUME NEW t \in Task, Make(t)
      PROVE  TypeOK'
  <2>1. pending[t].name \in Name
    BY <1>9, PendingFact DEF TypeOK, Make, OneName, TwoNames
  <2>2. Directory \in Entry /\ Link(pending[t].name) \in Entry /\ entry[pending[t].name] \in Entry
    BY <2>1 DEF TypeOK, Entry
  <2> QED
    BY <1>4, <1>9, <2>2 DEF TypeOK, Make
<1>10. ASSUME NEW t \in Task, Rename(t)
       PROVE  TypeOK'
  <2>1. entry[pending[t].name] \in Entry
    BY <1>10, PendingFact DEF TypeOK, Rename, Doing, OneName, TwoNames
  <2> QED
    BY <1>4, <1>10, <2>1 DEF TypeOK, Rename, Entry
<1>11. ASSUME NEW t \in Task, NEW n \in Name, NEW new \in Name \cup {None}, Fetch(t, n, new)
       PROVE  TypeOK'
  <2>1. swapped' = (swapped \/ Swap(pending[t], n, new))
    BY <1>11 DEF Fetch
  <2>2. swapped' \in BOOLEAN
    BY <2>1
  <2> QED
    BY <1>11, <2>2, FetchFact DEF TypeOK, Fetch
<1> QED
  BY <1>1, <1>2, <1>3, <1>5, <1>6, <1>7, <1>8, <1>9, <1>10, <1>11 DEF Next

(* Every variable keeps its type.                                          *)
THEOREM TypeCorrect == Spec => []TypeOK
<1>1. Init => TypeOK
  BY DEF Init, TypeOK, Pending
<1> QED
  BY <1>1, TypeStep, PTL DEF Spec

-----------------------------------------------------------------------------
(* Sealed says nothing of the names through which a file could be opened,  *)
(* nor of the calls that have been let pass and not made yet.  Names that  *)
(* are not protected lead to no file that is born protected, and to no     *)
(* protected name, and all calls under way are about such names, before    *)
(* the second read of their names and, unless one was swapped, after it.   *)
PlainClean ==
  \A n \in Plain :
    /\ entry[n].type = "file" => entry[n].file \notin born
    /\ entry[n].type = "symlink" => entry[n].to \in Plain
PendingClean ==
  \A t \in Task :
    /\ pending[t].call \in Guarded => pending[t].name \in Plain
    /\ pending[t].call = "write" => pending[t].file \notin born
Clean == order = "first" /\ ~swapped => PlainClean /\ PendingClean /\ Sealed

(* A call that has been let pass is about a name that is not protected.    *)
LEMMA Judged ==
  ASSUME order = "first", NEW c \in Guarded, NEW name \in Name, NEW new, Allows(c, name, new)
  PROVE  name \in Plain
  BY DEF Allows, Tested, Name

LEMMA CleanStep ==
  ASSUME TypeOK, Clean, [Next]_vars
  PROVE  Clean'
<1> SUFFICES ASSUME order' = "first", ~swapped'
             PROVE  PlainClean' /\ PendingClean' /\ Sealed'
  BY DEF Clean
<1> USE DEF Sealed
<1>0. order = "first" /\ ~swapped /\ born' = born
  BY Lasting
<1>a. PlainClean /\ PendingClean /\ Sealed
  BY <1>0 DEF Clean
<1>1. CASE UNCHANGED vars
  BY <1>1, <1>a DEF vars, PlainClean, PendingClean
<1>2. ASSUME NEW t \in Task, NEW c \in OneName \cup TwoNames, NEW n \in Name, NEW new, Pass(t, c, n, new)
      PROVE  PlainClean' /\ PendingClean' /\ Sealed'
  <2>1. c \in Guarded => n \in Plain
    BY <1>0, <1>2, Judged DEF Pass
  <2>2. c # "write"
    BY DEF OneName, TwoNames
  <2>3. PendingClean'
    BY <1>0, <1>a, <1>2, <2>1, <2>2 DEF PendingClean, Pass, NoCall, TypeOK
  <2> QED
    BY <1>0, <1>a, <1>2, <2>3 DEF Pass, PlainClean
<1>3. ASSUME NEW t \in Task, NEW i \in Inode, PassWrite(t, i)
      PROVE  PlainClean' /\ PendingClean' /\ Sealed'
  <2>1. i \notin born
    BY <1>0, <1>a, <1>3 DEF PassWrite
  <2>2. PendingClean'
    BY <1>0, <1>a, <1>3, <2>1 DEF PendingClean, PassWrite, NoCall, TypeOK, Guarded, TwoNames
  <2> QED
    BY <1>0, <1>a, <1>3, <2>2 DEF PassWrite, PlainClean
<1>4. ASSUME NEW t \in Task, Finish(t)
      PROVE  PendingClean'
  BY <1>0, <1>a, <1>4 DEF PendingClean, Finish, NoCall, TypeOK, Guarded, TwoNames
<1>5. ASSUME NEW t \in Task, pending[t].call \in Guarded
      PROVE  pending[t].name \in Plain /\ pending[t].name \in Name
  BY <1>a, <1>5 DEF PendingClean, Name
<1>6. ASSUME NEW t \in Task, Follow(t)
      PROVE  PlainClean' /\ PendingClean' /\ Sealed'
  <2>1. entry[pending[t].name].to \in Plain
    BY <1>a, <1>5, <1>6 DEF Follow, Doing, Guarded, PlainClean
  <2>2. PendingClean'
    BY <1>0, <1>a, <1>6, <2>1 DEF PendingClean, Follow, Doing, TypeOK, Pending
  <2> QED
    BY <1>0, <1>a, <1>6, <2>2 DEF Follow, PlainClean
<1>7. ASSUME NEW t \in Task, Open(t)
      PROVE  PlainClean' /\ PendingClean' /\ Sealed'
  <2> DEFINE n == pending[t].name
  <2>1. n \in Plain /\ n \in Name
    BY <1>5, <1>7 DEF Open, Doing, Guarded
  <2>2. CASE entry[n].type = "file" /\ UNCHANGED entry
    <3>1. entry[n].file \in Inode /\ entry[n].file \notin born
      BY <1>a, <2>1, <2>2, EntryFact DEF PlainClean, TypeOK
    <3>2. \A i \in born : i \in Inode /\ content'[i] = content[i]
      BY <1>7, <2>2, <3>1 DEF Open, TypeOK, Nothing
    <3>3. open' \cap born = {}
      BY <1>0, <1>a, <1>7, <2>2, <3>1 DEF Open
    <3> QED
      BY <1>0, <1>4, <1>7, <1>a, <2>2, <3>2, <3>3 DEF Open, PlainClean
  <2>3. ASSUME NEW i \in Inode, content[i] = "free", entry' = [entry EXCEPT ![n] = File(i)],
               content' = [content EXCEPT ![i] = "new"], open' = open \cup {i}
        PROVE  PlainClean' /\ PendingClean' /\ Sealed'
    <3>1. i \notin born
      BY <1>0, <1>a, <2>3
    <3>2. PlainClean'
      BY <1>0, <1>a, <2>1, <2>3, <3>1 DEF PlainClean, TypeOK, File, Name
    <3>3. \A j \in born : j \in Inode /\ content'[j] = content[j]
      BY <2>3, <3>1 DEF TypeOK
    <3> QED
      BY <1>0, <1>4, <1>7, <1>a, <2>3, <3>1, <3>2, <3>3 DEF Open
  <2> QED
    BY <1>7, <2>2, <2>3 DEF Open
<1>8. ASSUME NEW t \in Task, Write(t)
      PROVE  PlainClean' /\ PendingClean' /\ Sealed'
  <2>1. pending[t].file \notin born
    BY <1>a, <1>8 DEF PendingClean, Write, Doing
  <2>2. \A i \in born : i \in Inode /\ content'[i] = content[i]
    BY <1>8, <2>1 DEF Write, TypeOK
  <2> QED
    BY <1>0, <1>4, <1>8, <1>a, <2>2 DEF Write, PlainClean
<1>9. ASSUME NEW t \in Task, Unlink(t) \/ Rmdir(t) \/ Fail(t)
      PROVE  PlainClean' /\ PendingClean' /\ Sealed'
  <2>1. \A n \in Plain : entry'[n] \in {entry[n], Nothing}
    BY <1>9 DEF Unlink, Rmdir, Fail, TypeOK, Name
  <2>2. PlainClean'
    BY <1>0, <1>a, <2>1 DEF PlainClean, Nothing
  <2> QED
    BY <1>0, <1>4, <1>9, <1>a, <2>2 DEF Unlink, Rmdir, Fail
<1>10. ASSUME NEW t \in Task, Make(t)
       PROVE  PlainClean' /\ PendingClean' /\ Sealed'
  <2>1. pending[t].call \in {"symlink", "link"} => pending[t].name \in Plain
    BY <1>5 DEF Guarded, TwoNames
  <2>2. PlainClean'
    <3>1. \A n \in Plain : \/ entry'[n] \in {entry[n], Directory}
                           \/ pending[t].name \in Plain /\ entry'[n] \in {Link(pending[t].name), entry[pending[t].name]}
      BY <1>10, <2>1 DEF Make, TypeOK, Name
    <3> QED
      BY <1>0, <1>a, <3>1 DEF PlainClean, Directory, Link
  <2> QED
    BY <1>0, <1>4, <1>10, <1>a, <2>2 DEF Make
<1>11. ASSUME NEW t \in Task, Rename(t)
       PROVE  PlainClean' /\ PendingClean' /\ Sealed'
  <2>1. pending[t].name \in Plain
    BY <1>5, <1>11 DEF Rename, Doing, Guarded, TwoNames
  <2>2. \A n \in Plain : entry'[n] \in {entry[n], entry[pending[t].name], Nothing}
    BY <1>11 DEF Rename, TypeOK, Name
  <2>3. PlainClean'
    BY <1>0, <1>a, <2>1, <2>2 DEF PlainClean, Nothing
  <2> QED
    BY <1>0, <1>4, <1>11, <1>a, <2>3 DEF Rename
<1>12. ASSUME NEW t \in Task, NEW n \in Name, NEW new \in Name \cup {None}, Fetch(t, n, new)
       PROVE  PlainClean' /\ PendingClean' /\ Sealed'
  <2> DEFINE c == pending[t]
  <2>1. \A m, other : Tested(c.call, m, other) = m
    BY <1>0 DEF Tested
  <2>2. c.call \in Guarded => c.name \in Plain /\ c.name \notin Protected
    BY <1>a, ProtectAssumption DEF PendingClean
  <2>3. c.call \in Guarded => ~(n \in Protected /\ n # c.name)
    <3>1. swapped' = (swapped \/ Swap(c, n, new))
      BY <1>12 DEF Fetch
    <3>2. ~Swap(c, n, new)
      BY <3>1
    <3> QED
      BY <2>1, <3>2 DEF Swap
  <2>4. c.call \in Guarded => n \in Plain
    BY <2>2, <2>3 DEF Name
  <2>5. c.call # "write"
    BY <1>12, FetchFact DEF OneName, TwoNames
  <2>6. pending'[t].call = c.call /\ pending'[t].name = n /\ \A u \in Task \ {t} : pending'[u] = pending[u]
    BY <1>12, FetchFact
  <2>7. PendingClean'
    BY <1>0, <1>a, <2>4, <2>5, <2>6 DEF PendingClean
  <2> QED
    BY <1>0, <1>a, <1>12, <2>7 DEF Fetch, PlainClean
<1> QED
  BY <1>1, <1>2, <1>3, <1>6, <1>7, <1>8, <1>9, <1>10, <1>11, <1>12 DEF Next

LEMMA CleanAlways == Spec => [](TypeOK /\ Clean)
<1>1. Init => TypeOK
  BY DEF Init, TypeOK, Pending
<1>2. Init => Clean
  BY DEF Init, Clean, PlainClean, PendingClean, Sealed, Nothing, NoCall, Guarded, TwoNames, Name
<1>3. TypeOK /\ Clean /\ [Next]_vars => (TypeOK /\ Clean)'
  BY TypeStep, CleanStep
<1> QED
  BY <1>1, <1>2, <1>3, PTL DEF Spec

(* Where the old names are tested and none has been swapped for a          *)
(* protected one, a file that only protected names lead to is never opened *)
(* and never changed.                                                      *)
THEOREM SealedAlways == Spec => []Sealed
<1>1. Clean => Sealed
  BY DEF Clean, Sealed
<1> QED
  BY <1>1, CleanAlways, PTL

(* ... and no protected name that is there goes away.                      *)
THEOREM NamesStayAlways == Spec => NamesStay
<1> DEFINE Stays == order = "first" /\ ~swapped => \A n \in Protected : entry[n] # Nothing => entry'[n] # Nothing
<1>1. ASSUME TypeOK, Clean, [Next]_vars
      PROVE  [Stays]_vars
  <2> SUFFICES ASSUME Next, order = "first", ~swapped, NEW n \in Protected, entry[n] # Nothing
               PROVE  entry'[n] # Nothing
    BY <1>1
  <2>1. n \in Name /\ n \notin Plain
    BY ProtectAssumption DEF Name
  <2>2. \A t \in Task : pending[t].call \in Guarded => pending[t].name # n
    BY <1>1, <2>1 DEF Clean, PendingClean
  <2>3. ASSUME NEW t \in Task, Open(t)
        PROVE  entry'[n] # Nothing
    BY <1>1, <2>1, <2>2, <2>3 DEF Open, Doing, Guarded, TypeOK
  <2>4. ASSUME NEW t \in Task, Unlink(t) \/ Rmdir(t) \/ Rename(t)
        PROVE  entry'[n] # Nothing
    BY <1>1, <2>1, <2>2, <2>4 DEF Unlink, Rmdir, Rename, Doing, Guarded, TwoNames, TypeOK
  <2>5. ASSUME NEW t \in Task, Make(t)
        PROVE  entry'[n] # Nothing
    BY <1>1, <2>1, <2>5 DEF Make, TypeOK
  <2>6. ASSUME NEW t \in Task,
               \/ \E c, m, new : Pass(t, c, m, new)
               \/ \E i : PassWrite(t, i)
               \/ \E m, new : Fetch(t, m, new)
               \/ Follow(t) \/ Write(t) \/ Fail(t)
        PROVE  entry'[n] # Nothing
    BY <2>6 DEF Pass, PassWrite, Fetch, Follow, Write, Fail
  <2> QED
    BY <2>3, <2>4, <2>5, <2>6 DEF Next
<1> QED
  BY <1>1, CleanAlways, PTL DEF Spec, NamesStay

-----------------------------------------------------------------------------
(* Where the new names are tested and none has been swapped for a          *)
(* protected one, no call under way makes a protected one.                 *)
NewClean ==
  order = "second" /\ ~swapped => \A t \in Task : pending[t].call \in TwoNames => pending[t].new \in Plain

LEMMA NewCleanStep ==
  ASSUME TypeOK, NewClean, [Next]_vars
  PROVE  NewClean'
<1>0. /\ order' = order
      /\ swapped => swapped'
  BY Lasting
<1>1. CASE UNCHANGED vars
  BY <1>1 DEF NewClean, vars
<1>2. ASSUME NEW t \in Task, NEW c \in OneName \cup TwoNames, NEW n \in Name, NEW new,
             c \in TwoNames => new \in Name, Pass(t, c, n, new)
      PROVE  NewClean'
  <2>1. order = "second" /\ c \in TwoNames => new \in Plain
    BY <1>2 DEF Pass, Allows, Tested, Guarded, Name
  <2> QED
    BY <1>2, <2>1 DEF NewClean, Pass, NoCall, TypeOK
<1>3. ASSUME NEW t \in Task, NEW i \in Inode, PassWrite(t, i)
      PROVE  NewClean'
  BY <1>3 DEF NewClean, PassWrite, NoCall, TypeOK, TwoNames
<1>4. ASSUME NEW t \in Task, Follow(t)
      PROVE  NewClean'
  BY <1>4 DEF NewClean, Follow, Doing, TypeOK, Pending, TwoNames
<1>5. ASSUME NEW t \in Task, Finish(t)
      PROVE  NewClean'
  BY <1>5 DEF NewClean, Finish, NoCall, TypeOK, TwoNames
<1>6. ASSUME NEW t \in Task,
             Open(t) \/ Write(t) \/ Unlink(t) \/ Rmdir(t) \/ Make(t) \/ Rename(t) \/ Fail(t)
      PROVE  NewClean'
  BY <1>5, <1>6 DEF Open, Write, Unlink, Rmdir, Make, Rename, Fail
<1>7. ASSUME NEW t \in Task, NEW n \in Name, NEW new \in Name \cup {None}, Fetch(t, n, new)
      PROVE  NewClean'
  <2> SUFFICES ASSUME order' = "second", ~swapped'
               PROVE  NewClean'
    BY DEF NewClean
  <2> DEFINE c == pending[t]
  <2>1. c.call \in TwoNames => /\ \A m, other : Tested(c.call, m, other) = other
                              /\ c.call \in Guarded
    BY <1>0 DEF Tested, Guarded
  <2>2. c.call \in TwoNames => c.new \in Plain /\ c.new \notin Protected
    BY <1>0, ProtectAssumption DEF NewClean
  <2>3. c.call \in TwoNames => ~(new \in Protected /\ new # c.new)
    <3>1. swapped' = (swapped \/ Swap(c, n, new))
      BY <1>7 DEF Fetch
    <3>2. ~Swap(c, n, new)
      BY <3>1
    <3> QED
      BY <2>1, <3>2 DEF Swap
  <2>4. c.call \in TwoNames => new \in Plain
    BY <1>7, <2>2, <2>3, FetchFact DEF Name
  <2>5. pending'[t].call = c.call /\ pending'[t].new = new /\ \A u \in Task \ {t} : pending'[u] = pending[u]
    BY <1>7, FetchFact
  <2> QED
    BY <1>0, <2>4, <2>5 DEF NewClean
<1> QED
  BY <1>1, <1>2, <1>3, <1>4, <1>6, <1>7 DEF Next, OneName, TwoNames

(* Where the new names are tested and none has been swapped for a          *)
(* protected one, no protected name comes to mean a file that was there    *)
(* before.                                                                 *)
THEOREM NoneForgedAlways == Spec => NoneForged
<1> DEFINE Kept(n) == \/ entry'[n] \in {entry[n], Nothing, Directory}
                      \/ entry'[n].type = "file" /\ content[entry'[n].file] = "free"
           Unforged == order = "second" /\ ~swapped => \A n \in Protected : Kept(n)
<1>1. ASSUME TypeOK, NewClean, [Next]_vars
      PROVE  [Unforged]_vars
  <2> SUFFICES ASSUME Next, order = "second", ~swapped, NEW n \in Protected
               PROVE  Kept(n)
    BY <1>1
  <2>1. n \in Name /\ n \notin Plain
    BY ProtectAssumption DEF Name
  <2>2. \A t \in Task : pending[t].call \in TwoNames => pending[t].new # n
    BY <1>1, <2>1 DEF NewClean
  <2>3. ASSUME NEW t \in Task, Open(t)
        PROVE  Kept(n)
    <3>1. CASE UNCHANGED entry
      BY <3>1
    <3>2. ASSUME NEW i \in Inode, content[i] = "free", entry' = [entry EXCEPT ![pending[t].name] = File(i)]
          PROVE  Kept(n)
      <4>1. File(i).type = "file" /\ File(i).file = i
        BY DEF File
      <4>2. entry'[n] \in {entry[n], File(i)}
        BY <1>1, <2>1, <3>2 DEF TypeOK
      <4> QED
        BY <3>2, <4>1, <4>2
    <3> QED
      BY <2>3, <3>1, <3>2 DEF Open
  <2>4. ASSUME NEW t \in Task, Unlink(t) \/ Rmdir(t)
        PROVE  Kept(n)
    BY <1>1, <2>1, <2>4 DEF Unlink, Rmdir, TypeOK
  <2>5. ASSUME NEW t \in Task, Make(t)
        PROVE  Kept(n)
    BY <1>1, <2>1, <2>2, <2>5 DEF Make, TypeOK, TwoNames
  <2>6. ASSUME NEW t \in Task, Rename(t)
        PROVE  Kept(n)
    BY <1>1, <2>1, <2>2, <2>6 DEF Rename, Doing, TypeOK, TwoNames
  <2>7. ASSUME NEW t \in Task,
               \/ \E c, m, new : Pass(t, c, m, new)
               \/ \E i : PassWrite(t, i)
               \/ \E m, new : Fetch(t, m, new)
               \/ Follow(t) \/ Write(t) \/ Fail(t)
        PROVE  Kept(n)
    BY <2>7 DEF Pass, PassWrite, Fetch, Follow, Write, Fail
  <2> QED
    BY <2>3, <2>4, <2>5, <2>6, <2>7 DEF Next
<1>2. Init => NewClean
  BY DEF Init, NewClean, NoCall, TwoNames
<1>3. TypeOK /\ NewClean /\ [Next]_vars => NewClean'
  BY NewCleanStep
<1> QED
  BY <1>1, <1>2, <1>3, TypeCorrect, PTL DEF Spec, NoneForged
=============================================================================
