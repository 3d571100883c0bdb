------------------------- MODULE SchemaDump_proofs -------------------------
(***************************************************************************)
(* The schema file is whole at any moment, and a dump whose reads          *)
(* succeeded lists every class; and the dump implements AtomicDump: for an *)
(* object array, a cap and batches of any size and any number of dumps,    *)
(* full disks and kills.                                                   *)
(***************************************************************************)
EXTENDS SchemaDump, TLAPS

Walking == pc \in {"batch", "object", "class", "close"}

(***************************************************************************)
(* The invariant.                                                          *)
(***************************************************************************)

\* The counters are numbers and the files are files, as far as it matters.
DumpType ==
  /\ found \in Int /\ next \in Nat \ {0}
  /\ due \subseteq Indices /\ buffered \subseteq Indices
  /\ Walking \/ pc \in {"rename", "remove"} => pending \in File
  /\ due \subseteq classes /\ classes \subseteq Indices

\* What was lost of the pending file while classes went to it, the stream
\* knows of; a close that reported no error left a whole file.
GapIsError == Walking => (pending.damaged => err)
ClosedIsWhole == pc = "rename" /\ written # -1 => pending.ended /\ ~pending.damaged

\* The classes that went to the stream, and the batch an object belongs to.
Given == pending.body \cup buffered
BatchOf(i) == (i - 1) \div BatchSize

\* The walk begins at the first object, and a batch behind the one before it.
AtStart == pc \in {"idle", "attached"} => next = 1
AtBatch == pc = "batch" => next > Capped \/ (next - 1) % BatchSize = 0

\* The batch read holds what is still to come of it.
BatchHolds ==
  pc \in {"object", "class"} =>
    /\ next <= Capped
    /\ batch # None => \A i \in due : next <= i /\ i <= Capped /\ BatchOf(i) = BatchOf(next)
                                        => i \in batch

\* As long as every read and every write succeeded, the classes that were there
\* are given to the stream up to the object looked at, and in the end all.
GivenSoFar ==
  /\ pc \in {"batch", "object", "class"} /\ ~missed /\ ~err =>
       \A i \in due : i < next => i \in Given
  /\ pc = "close" /\ ~missed /\ ~err => \A i \in due : i <= MaxObjects => i \in Given
  /\ pc = "rename" /\ ~missed /\ written # -1 =>
       \A i \in due : i <= MaxObjects => i \in pending.body

DumpInv == /\ DumpType
           /\ GapIsError /\ ClosedIsWhole /\ OutputWhole
           /\ AtStart /\ AtBatch /\ BatchHolds /\ GivenSoFar

(***************************************************************************)
(* Arithmetic of the batches.                                              *)
(***************************************************************************)

\* Quotient and remainder.
LEMMA Division ==
  ASSUME NEW n \in Nat, NEW m \in Nat, m > 0
  PROVE /\ n \div m \in Nat /\ n % m \in 0..(m-1)
        /\ n = m * (n \div m) + (n % m)
  OBVIOUS

\* A multiple that lies strictly between -m and m is zero.
LEMMA SmallMultiple ==
  ASSUME NEW m \in Nat, m > 0, NEW k \in Int, m * k < m, m * k > -m
  PROVE  k = 0
<1>1. CASE k >= 1
  <2>1. PICK j \in Nat : k = j + 1
    <3>1. k - 1 \in Nat BY <1>1
    <3> QED BY <3>1
  <2>2. m * k = m * j + m /\ m * j >= 0
    BY <2>1
  <2> QED BY <2>2
<1>2. CASE k <= -1
  <2>1. PICK j \in Nat : k = -j - 1
    <3>1. -k - 1 \in Nat BY <1>2
    <3> QED BY <3>1
  <2>2. m * k = -(m * j) - m /\ m * j >= 0
    BY <2>1
  <2> QED BY <2>2
<1> QED BY <1>1, <1>2

\* The object behind one that does not end its batch is in the same batch.
LEMMA SameBatchNext ==
  ASSUME NEW n \in Nat \ {0}, n % BatchSize # 0
  PROVE  BatchOf(n + 1) = BatchOf(n)
<1> DEFINE B == BatchSize
           q == n \div B
           p == (n - 1) \div B
<1>0. B \in Nat /\ B > 0
  BY DumpAssumption
<1>1. q \in Nat /\ n % B \in 0..(B-1) /\ n = B * q + (n % B)
  BY <1>0, Division
<1>2. p \in Nat /\ (n - 1) % B \in 0..(B-1) /\ n - 1 = B * p + ((n - 1) % B)
  BY <1>0, Division
<1>3. n % B \in 1..(B-1)
  BY <1>0, <1>1
<1> HIDE DEF p, q, B
<1>4. B * (q - p) = B * q - B * p
  BY <1>0, <1>1, <1>2
<1>5. B * (q - p) < B /\ B * (q - p) > -B
  BY <1>0, <1>1, <1>2, <1>3, <1>4
<1>6. q - p = 0
  BY <1>0, <1>1, <1>2, <1>5, SmallMultiple
<1>7. q = p
  BY <1>1, <1>2, <1>6
<1> QED BY <1>7 DEF q, p, B, BatchOf

\* What shares the batch that begins at n lies in the BatchSize objects from n.
LEMMA BatchFrom ==
  ASSUME NEW n \in Nat \ {0}, (n - 1) % BatchSize = 0,
         NEW i \in Nat, n <= i, BatchOf(i) = BatchOf(n)
  PROVE  i <= n + BatchSize - 1
<1>0. BatchSize \in Nat /\ BatchSize > 0
  BY DumpAssumption
<1>1. n - 1 = BatchSize * ((n - 1) \div BatchSize)
  BY <1>0, Division
<1>2. i - 1 \in Nat
  OBVIOUS
<1>3. /\ (i - 1) % BatchSize \in 0..(BatchSize - 1)
      /\ i - 1 = BatchSize * ((i - 1) \div BatchSize) + ((i - 1) % BatchSize)
  BY <1>0, <1>2, Division
<1>4. i - 1 = (n - 1) + ((i - 1) % BatchSize)
  BY <1>1, <1>3 DEF BatchOf
<1> QED BY <1>0, <1>3, <1>4

\* The cap is a positive number not above either of the two it is the less of.
LEMMA CapNat ==
  /\ Capped \in Nat \ {0} /\ Capped <= Length /\ Capped <= MaxObjects
  /\ Capped = Length \/ Capped = MaxObjects
  BY DumpAssumption DEF Capped, Lesser

(***************************************************************************)
(* The invariant is inductive.                                             *)
(***************************************************************************)

\* No file is there in the beginning, and nothing runs.
LEMMA DumpInit == Init => DumpInv
<1> SUFFICES ASSUME Init PROVE DumpInv
  OBVIOUS
<1>1. DumpType
  BY DEF Init, DumpType, Walking
<1>2. GapIsError /\ ClosedIsWhole /\ OutputWhole
  BY DEF Init, GapIsError, ClosedIsWhole, OutputWhole, Walking
<1>3. AtStart /\ AtBatch /\ BatchHolds
  BY DEF Init, AtStart, AtBatch, BatchHolds
<1>4. GivenSoFar
  BY DEF Init, GivenSoFar
<1> QED BY <1>1, <1>2, <1>3, <1>4 DEF DumpInv

\* After a return nothing runs any more.
LEMMA ReturnKeeps ==
  ASSUME DumpInv, NEW r, Return(r), output' = output
  PROVE  DumpInv'
<1> USE DEF Return
<1>1. DumpType'
  <2>1. Indices' = Indices /\ classes' = classes
    BY DEF Indices, gameVars
  <2> QED BY <2>1 DEF DumpInv, DumpType, Walking
<1>2. GapIsError' /\ ClosedIsWhole'
  BY DEF GapIsError, ClosedIsWhole, Walking
<1>3. OutputWhole'
  BY DEF DumpInv, OutputWhole
<1>4. AtStart' /\ AtBatch' /\ BatchHolds'
  BY DEF AtStart, AtBatch, BatchHolds
<1>5. GivenSoFar'
  BY DEF GivenSoFar
<1> QED BY <1>1, <1>2, <1>3, <1>4, <1>5 DEF DumpInv

\* A class handed to the writer is in the stream, or the stream has an error.
LEMMA WriteKeeps ==
  ASSUME DumpInv, Walking, NEW i \in Indices, WriteClass(i)
  PROVE  /\ pending' \in File
         /\ buffered' \subseteq Indices
         /\ pending'.damaged => err'
         /\ ~err' => ~err /\ Given \cup {i} \subseteq Given'
<1> USE DEF DumpInv, DumpType, File
<1>1. pending \in File /\ (pending.damaged => err)
  BY DEF GapIsError
<1>2. CASE /\ buffered' = buffered \cup {i} /\ count' = count + 1
           /\ UNCHANGED <<pending, err>>
  BY <1>1, <1>2 DEF Given
<1>3. CASE /\ room /\ count' = count + 1
           /\ buffered' = {} /\ pending' = [pending EXCEPT !.body = @ \cup buffered \cup {i}]
           /\ UNCHANGED err
  BY <1>1, <1>3 DEF Given
<1>4. CASE /\ ~room /\ count' \in {count, count + 1}
           /\ buffered' = {} /\ pending' = [pending EXCEPT !.damaged = TRUE]
           /\ err' = TRUE
  <2>1. err'
    BY <1>4
  <2>2. pending' \in File
    BY <1>1, <1>4
  <2>3. buffered' \subseteq Indices
    BY <1>4
  <2> QED BY <2>1, <2>2, <2>3
<1> QED BY <1>2, <1>3, <1>4 DEF WriteClass

\* One step on in the array: the batch goes on, or the next one begins.
LEMMA StepKeeps ==
  ASSUME DumpInv, pc \in {"object", "class"}, Step, UNCHANGED <<batch, due>>
  PROVE  /\ next' \in Nat \ {0} /\ AtBatch' /\ BatchHolds'
         /\ pc' \in {"batch", "object"} /\ next' = next + 1
<1> USE DEF DumpInv, DumpType
<1>0. BatchSize \in Nat /\ BatchSize > 0 /\ Capped \in Nat /\ Capped' = Capped
  BY DumpAssumption, CapNat DEF Capped, Lesser
<1>1. next <= Capped
  BY DEF BatchHolds
<1>2. CASE LastOfBatch
  <2>1. AtBatch'
    BY <1>0, <1>1, <1>2 DEF Step, AtBatch, LastOfBatch
  <2> QED BY <1>2, <2>1 DEF Step, BatchHolds
<1>3. CASE ~LastOfBatch
  <2>1. BatchOf(next + 1) = BatchOf(next)
    BY <1>3, SameBatchNext DEF LastOfBatch
  <2>2. next + 1 <= Capped
    BY <1>0, <1>1, <1>3 DEF LastOfBatch
  <2>3. ASSUME batch # None, NEW i \in due, next + 1 <= i, i <= Capped,
               BatchOf(i) = BatchOf(next + 1)
        PROVE  i \in batch
    <3>1. i \in Nat
      BY DEF Indices
    <3> QED BY <2>1, <2>3, <3>1 DEF BatchHolds
  <2>4. BatchHolds'
    BY <1>0, <1>3, <2>2, <2>3 DEF Step, BatchHolds, BatchOf
  <2> QED BY <1>3, <2>4 DEF Step, AtBatch
<1> QED BY <1>2, <1>3

\* Of the classes that were there when the walk began, the one looked at is
\* seen if the batch or the object reads.
LEMMA DueIsSeen ==
  ASSUME DumpInv, pc = "object", next \in due
  PROVE  Seen(next)
<1> USE DEF DumpInv, DumpType
<1>1. CASE batch = None
  BY <1>1 DEF Seen
<1>2. CASE batch # None
  BY <1>2 DEF Seen, BatchHolds
<1> QED BY <1>1, <1>2

\* Every step of the dump and of its surroundings keeps the invariant.
LEMMA DumpNext == DumpInv /\ [Next]_vars => DumpInv'
<1> SUFFICES ASSUME DumpInv, [Next]_vars PROVE DumpInv'
  OBVIOUS
<1> USE DEF gameVars, walkVars, streamVars, fileVars, ghostVars, dumpVars
<1>0. Indices' = Indices /\ Capped' = Capped /\ Capped \in Nat \ {0}
  BY CapNat DEF Indices, Capped, Lesser
<1>1. ASSUME UNCHANGED dumpVars, classes \subseteq classes', classes' \subseteq Indices PROVE DumpInv'
  <2>1. DumpType'
    BY <1>0, <1>1 DEF DumpInv, DumpType, Walking
  <2>2. GapIsError' /\ ClosedIsWhole' /\ OutputWhole'
    BY <1>1 DEF DumpInv, GapIsError, ClosedIsWhole, OutputWhole, Walking
  <2>3. AtStart' /\ AtBatch' /\ BatchHolds'
    BY <1>0, <1>1 DEF DumpInv, AtStart, AtBatch, BatchHolds, BatchOf
  <2>4. GivenSoFar'
    BY <1>1 DEF DumpInv, GivenSoFar, Given
  <2> QED BY <2>1, <2>2, <2>3, <2>4 DEF DumpInv
<1>2. CASE Surroundings
  <2>0. classes \subseteq Indices
    BY DEF DumpInv, DumpType
  <2>1. ASSUME NEW i \in Indices, LoadClass(i) PROVE DumpInv'
    BY <1>1, <2>0, <2>1 DEF LoadClass
  <2>2. CASE GameExit
    BY <1>1, <2>0, <2>2 DEF GameExit
  <2>3. CASE GameLaunch
    BY <1>1, <2>0, <2>3 DEF GameLaunch
  <2>4. CASE DiskChanges
    BY <1>1, <2>0, <2>4 DEF DiskChanges
  <2>5. CASE Killed
    BY <2>5, ReturnKeeps DEF Killed
  <2> QED BY <1>2, <2>1, <2>2, <2>3, <2>4, <2>5 DEF Surroundings
<1>3. CASE Attach
  <2>1. DumpType'
    BY <1>0, <1>3 DEF Attach, DumpInv, DumpType, Walking
  <2>2. GapIsError' /\ ClosedIsWhole' /\ OutputWhole'
    BY <1>3 DEF Attach, DumpInv, GapIsError, ClosedIsWhole, OutputWhole, Walking
  <2>3. AtStart' /\ AtBatch' /\ BatchHolds' /\ GivenSoFar'
    BY <1>3 DEF Attach, DumpInv, AtStart, AtBatch, BatchHolds, GivenSoFar
  <2> QED BY <2>1, <2>2, <2>3 DEF DumpInv
<1>4. CASE AttachFails \/ OpenFails \/ Remove
  BY <1>4, ReturnKeeps DEF AttachFails, OpenFails, Remove
<1>5. CASE OpenWriter
  <2>1. DumpType'
    <3>1. pending' \in File
      BY <1>5 DEF OpenWriter, File
    <3> QED BY <1>0, <1>5, <3>1 DEF OpenWriter, DumpInv, DumpType, Walking
  <2>2. GapIsError' /\ ClosedIsWhole' /\ OutputWhole'
    BY <1>5 DEF OpenWriter, DumpInv, GapIsError, ClosedIsWhole, OutputWhole, Walking
  <2>3. AtStart' /\ AtBatch' /\ BatchHolds'
    BY <1>5, DumpAssumption DEF OpenWriter, DumpInv, AtStart, AtBatch, BatchHolds
  <2>4. GivenSoFar'
    BY <1>5, <2>1 DEF OpenWriter, DumpInv, AtStart, GivenSoFar, DumpType, Indices
  <2> QED BY <2>1, <2>2, <2>3, <2>4 DEF DumpInv
<1>6. CASE NoObjects
  <2>1. DumpType'
    BY <1>0, <1>6 DEF NoObjects, DumpInv, DumpType, Walking
  <2>2. GapIsError' /\ ClosedIsWhole' /\ OutputWhole'
    BY <1>6 DEF NoObjects, DumpInv, GapIsError, ClosedIsWhole, OutputWhole, Walking
  <2>3. AtStart' /\ AtBatch' /\ BatchHolds' /\ GivenSoFar'
    BY <1>6 DEF NoObjects, AtStart, AtBatch, BatchHolds, GivenSoFar
  <2> QED BY <2>1, <2>2, <2>3 DEF DumpInv
<1>7. CASE ReadBatch
  <2>1. DumpType'
    BY <1>0, <1>7 DEF ReadBatch, DumpInv, DumpType, Walking
  <2>2. GapIsError' /\ ClosedIsWhole' /\ OutputWhole'
    BY <1>7 DEF ReadBatch, DumpInv, GapIsError, ClosedIsWhole, OutputWhole, Walking
  <2>3. next <= Capped /\ next \in Nat \ {0} /\ (next - 1) % BatchSize = 0
    BY <1>0, <1>7 DEF ReadBatch, DumpInv, DumpType, AtBatch
  <2>4. ASSUME batch' # None, NEW i \in due, next <= i, i <= Capped, BatchOf(i) = BatchOf(next)
        PROVE  i \in batch'
    <3>1. i \in Nat /\ i \in classes
      BY DEF DumpInv, DumpType, Indices
    <3>2. i <= next + BatchSize - 1
      BY <2>3, <2>4, <3>1, BatchFrom
    <3>3. i \in next..BatchEnd(next)
      BY <1>0, <2>3, <2>4, <3>1, <3>2, DumpAssumption DEF BatchEnd, Lesser
    <3> QED BY <1>7, <2>4, <3>1, <3>3 DEF ReadBatch
  <2>5. AtStart' /\ AtBatch' /\ BatchHolds'
    BY <1>0, <1>7, <2>3, <2>4 DEF ReadBatch, AtStart, AtBatch, BatchHolds, BatchOf
  <2>6. GivenSoFar'
    BY <1>7 DEF ReadBatch, DumpInv, GivenSoFar, Given
  <2> QED BY <2>1, <2>2, <2>5, <2>6 DEF DumpInv
<1>8. CASE TakeClass
  <2>1. next \in Indices
    BY <1>0, <1>8, CapNat, DumpAssumption DEF TakeClass, DumpInv, DumpType, BatchHolds, Indices
  <2>2. /\ pending' \in File /\ buffered' \subseteq Indices
        /\ pending'.damaged => err'
        /\ ~err' => ~err /\ Given \cup {next} \subseteq Given'
    BY <1>8, <2>1, WriteKeeps DEF TakeClass, Walking
  <2>3. /\ next' \in Nat \ {0} /\ AtBatch' /\ BatchHolds'
        /\ pc' \in {"batch", "object"} /\ next' = next + 1
    BY <1>8, StepKeeps DEF TakeClass
  <2>4. DumpType'
    BY <1>0, <1>8, <2>2, <2>3 DEF TakeClass, DumpInv, DumpType
  <2>5. GapIsError' /\ ClosedIsWhole' /\ OutputWhole' /\ AtStart'
    BY <1>8, <2>2, <2>3 DEF TakeClass, DumpInv, GapIsError, ClosedIsWhole, OutputWhole, AtStart
  <2>6. GivenSoFar'
    <3>1. ASSUME ~missed, ~err', NEW i \in due, i < next + 1 PROVE i \in Given'
      <4>1. i \in Nat /\ next \in Nat
        BY DEF DumpInv, DumpType, Indices
      <4>2. CASE i = next
        BY <2>2, <3>1, <4>2
      <4>3. CASE i < next
        BY <1>8, <2>2, <3>1, <4>3 DEF TakeClass, DumpInv, GivenSoFar
      <4> QED BY <3>1, <4>1, <4>2, <4>3
    <3>2. ~missed' => ~missed
      BY <1>8 DEF TakeClass
    <3> QED BY <1>8, <2>3, <3>1, <3>2 DEF TakeClass, GivenSoFar
  <2> QED BY <2>3, <2>4, <2>5, <2>6 DEF DumpInv
<1>9. CASE MeetsClass
  <2>1. DumpType'
    BY <1>0, <1>9 DEF MeetsClass, DumpInv, DumpType, Walking
  <2>2. GapIsError' /\ ClosedIsWhole' /\ OutputWhole'
    BY <1>9 DEF MeetsClass, DumpInv, GapIsError, ClosedIsWhole, OutputWhole, Walking
  <2>3. AtStart' /\ AtBatch' /\ BatchHolds' /\ GivenSoFar'
    BY <1>0, <1>9 DEF MeetsClass, DumpInv, AtStart, AtBatch, BatchHolds, BatchOf, GivenSoFar, Given
  <2> QED BY <2>1, <2>2, <2>3 DEF DumpInv
<1>10. CASE SkipObject \/ MissClass
  <2>1. /\ next' \in Nat \ {0} /\ AtBatch' /\ BatchHolds'
        /\ pc' \in {"batch", "object"} /\ next' = next + 1
    BY <1>10, StepKeeps DEF SkipObject, MissClass
  <2>2. UNCHANGED <<classes, due, pending, buffered, found, output, err, written>> /\ pc = "object"
    BY <1>10 DEF SkipObject, MissClass
  <2>3. DumpType'
    BY <1>0, <2>1, <2>2 DEF DumpInv, DumpType, Walking
  <2>4. GapIsError' /\ ClosedIsWhole' /\ OutputWhole' /\ AtStart'
    BY <2>1, <2>2 DEF DumpInv, GapIsError, ClosedIsWhole, OutputWhole, AtStart, Walking
  <2>5. ~missed' => ~missed /\ next \notin due
    BY <1>10, <2>2, DueIsSeen DEF SkipObject, MissClass
  <2>6. GivenSoFar'
    <3>1. ASSUME ~missed', ~err, NEW i \in due, i < next + 1 PROVE i \in Given
      <4>1. i \in Nat /\ next \in Nat
        BY DEF DumpInv, DumpType, Indices
      <4>2. i < next
        BY <2>5, <3>1, <4>1
      <4> QED BY <2>2, <2>5, <3>1, <4>2 DEF DumpInv, GivenSoFar
    <3> QED BY <2>1, <2>2, <3>1 DEF GivenSoFar, Given
  <2> QED BY <2>1, <2>3, <2>4, <2>6 DEF DumpInv
<1>11. CASE WalkEnds
  <2>1. DumpType'
    BY <1>0, <1>11 DEF WalkEnds, DumpInv, DumpType, Walking
  <2>2. GapIsError' /\ ClosedIsWhole' /\ OutputWhole'
    BY <1>11 DEF WalkEnds, DumpInv, GapIsError, ClosedIsWhole, OutputWhole, Walking
  <2>3. AtStart' /\ AtBatch' /\ BatchHolds'
    BY <1>11 DEF WalkEnds, AtStart, AtBatch, BatchHolds
  <2>4. ASSUME NEW i \in due, i <= MaxObjects PROVE i < next
    BY <1>0, <1>11, <2>4, CapNat, DumpAssumption DEF WalkEnds, DumpInv, DumpType, Indices
  <2>5. GivenSoFar'
    BY <1>11, <2>4 DEF WalkEnds, DumpInv, GivenSoFar, Given
  <2> QED BY <2>1, <2>2, <2>3, <2>5 DEF DumpInv
<1>12. CASE CloseWriter
  <2>1. pending \in File /\ (pending.damaged => err)
    BY <1>12 DEF CloseWriter, DumpInv, DumpType, GapIsError, Walking
  <2>2. pending' \in File
    BY <1>12, <2>1 DEF CloseWriter, DumpInv, DumpType, File
  <2>3. DumpType'
    BY <1>0, <1>12, <2>2 DEF CloseWriter, DumpInv, DumpType, Walking
  <2>4. written' # -1 => room /\ ~err
    BY <1>12 DEF CloseWriter, StreamFailed
  <2>5. room => pending' = [pending EXCEPT !.body = @ \cup buffered, !.ended = TRUE]
    BY <1>12 DEF CloseWriter
  <2>6. ClosedIsWhole'
    BY <2>1, <2>4, <2>5 DEF ClosedIsWhole, File
  <2>7. GapIsError' /\ OutputWhole' /\ AtStart' /\ AtBatch' /\ BatchHolds'
    BY <1>12 DEF CloseWriter, DumpInv, GapIsError, OutputWhole, AtStart, AtBatch,
                 BatchHolds, Walking
  <2>8. room => pending'.body = Given
    BY <2>1, <2>5 DEF File, Given
  <2>9. GivenSoFar'
    BY <1>12, <2>4, <2>8 DEF CloseWriter, DumpInv, GivenSoFar
  <2> QED BY <2>3, <2>6, <2>7, <2>9 DEF DumpInv
<1>13. CASE Rename
  <2>1. output'.ended /\ ~output'.damaged
    BY <1>13 DEF Rename, DumpInv, DumpType, ClosedIsWhole
  <2>2. DumpType'
    BY <1>0, <1>13 DEF Rename, Return, DumpInv, DumpType, Walking
  <2>3. GapIsError' /\ ClosedIsWhole' /\ OutputWhole'
    BY <1>13, <2>1 DEF Rename, Return, GapIsError, ClosedIsWhole, OutputWhole, Walking
  <2>4. AtStart' /\ AtBatch' /\ BatchHolds' /\ GivenSoFar'
    BY <1>13 DEF Rename, Return, AtStart, AtBatch, BatchHolds, GivenSoFar
  <2> QED BY <2>2, <2>3, <2>4 DEF DumpInv
<1>14. CASE GiveUp
  <2>1. DumpType'
    BY <1>0, <1>14 DEF GiveUp, DumpInv, DumpType, Walking
  <2>2. GapIsError' /\ ClosedIsWhole' /\ OutputWhole'
    BY <1>14 DEF GiveUp, DumpInv, GapIsError, ClosedIsWhole, OutputWhole, Walking
  <2>3. AtStart' /\ AtBatch' /\ BatchHolds' /\ GivenSoFar'
    BY <1>14 DEF GiveUp, AtStart, AtBatch, BatchHolds, GivenSoFar
  <2> QED BY <2>1, <2>2, <2>3 DEF DumpInv
<1>15. CASE UNCHANGED vars
  BY <1>1, <1>15 DEF vars, DumpInv, DumpType
<1> QED
  BY <1>2, <1>3, <1>4, <1>5, <1>6, <1>7, <1>8, <1>9, <1>10, <1>11, <1>12, <1>13, <1>14, <1>15
  DEF Next, Dumping, Walk

(***************************************************************************)
(* The theorems.                                                           *)
(***************************************************************************)

\* The schema that other programs read is a whole document at any moment.
THEOREM AlwaysWhole == Spec => []OutputWhole
<1>1. DumpInv => OutputWhole
  BY DEF DumpInv
<1> QED BY <1>1, DumpInit, DumpNext, PTL DEF Spec

\* Only the rename changes the output, and with a walk that missed nothing it
\* brings every class there was.
LEMMA ListsStep ==
  DumpInv /\ [Next]_vars =>
    (output' # output /\ ~missed => due \cap 1..MaxObjects \subseteq output'.body)
<1> SUFFICES ASSUME DumpInv, [Next]_vars, output' # output, ~missed
             PROVE  due \cap 1..MaxObjects \subseteq output'.body
  OBVIOUS
<1>1. Rename
  BY DEF Next, Dumping, Walk, Surroundings, vars, gameVars, walkVars, streamVars, fileVars,
         ghostVars, dumpVars, LoadClass, GameExit, GameLaunch, DiskChanges, Killed, Attach,
         AttachFails, OpenWriter, OpenFails, NoObjects, ReadBatch, MeetsClass, TakeClass, SkipObject,
         MissClass, WalkEnds, CloseWriter, GiveUp, Remove
<1>2. written # -1 /\ pc = "rename" /\ output' = pending
  BY <1>1 DEF Rename, DumpInv, DumpType
<1> QED BY <1>2, DumpAssumption DEF DumpInv, GivenSoFar

\* A dump that met no failed read lists every class that was there when its
\* walk began, whatever the size of the array and of the batches.
THEOREM Complete == Spec => ListsEveryClass
<1>1. DumpInv /\ [Next]_vars =>
        [output' # output /\ ~missed => due \cap 1..MaxObjects \subseteq output'.body]_vars
  BY ListsStep
<1> QED BY <1>1, DumpInit, DumpNext, PTL DEF Spec, ListsEveryClass

(***************************************************************************)
(* Type correctness.                                                       *)
(***************************************************************************)

\* Before the walk has ended, each object behind it gave one class at most.
Counts ==
  /\ next \in 1..(MaxObjects + 1)
  /\ found \in -1..MaxObjects /\ count \in 0..MaxObjects /\ written \in -1..MaxObjects
  /\ pc \in {"idle", "attached", "batch", "object", "class"} => found < next /\ count < next

Flags == {up, room, err, missed} \subseteq BOOLEAN

Places ==
  /\ pc \in {"idle", "attached", "batch", "object", "class", "close", "rename", "remove"}
  /\ batch = None \/ batch \subseteq Indices
  /\ result \in {"ok", "failed", "killed"} /\ dumps \in 0..MaxDumps

Files == pending \in File \cup {None} /\ output \in File \cup {None}

\* The counters start anew with each dump.
LEMMA ReturnCounts ==
  ASSUME NEW r, Return(r)
  PROVE  Counts'
BY DumpAssumption DEF Return, Counts

\* A step of the walk moves next by one and each count by one at most.
LEMMA CountsNext == DumpInv /\ Counts /\ [Next]_vars => Counts'
<1> SUFFICES ASSUME DumpInv, Counts, [Next]_vars PROVE Counts'
  OBVIOUS
<1> USE DumpAssumption DEF gameVars, walkVars, streamVars, fileVars, ghostVars, dumpVars
<1>1. CASE UNCHANGED vars \/ UNCHANGED dumpVars
  BY <1>1 DEF vars, Counts
<1>2. CASE Killed \/ AttachFails \/ OpenFails \/ Rename \/ Remove
  BY <1>2, ReturnCounts DEF Killed, AttachFails, OpenFails, Rename, Remove
<1>3. CASE Attach \/ OpenWriter
  BY <1>3 DEF Attach, OpenWriter, Counts
<1>4. CASE NoObjects \/ MeetsClass \/ WalkEnds \/ GiveUp
  BY <1>4 DEF NoObjects, MeetsClass, WalkEnds, GiveUp, Counts
<1>5. CASE ReadBatch
  BY <1>5 DEF ReadBatch, Counts
<1>6. CASE TakeClass \/ SkipObject \/ MissClass
  <2>0. pc \in {"object", "class"}
    BY <1>6 DEF TakeClass, SkipObject, MissClass
  <2>1. next <= MaxObjects
    BY <2>0, CapNat DEF DumpInv, DumpType, BatchHolds
  <2>2. next' = next + 1 /\ written' = written
    BY <1>6 DEF TakeClass, SkipObject, MissClass, Step
  <2>3. found' \in {found, found + 1} /\ count' \in {count, count + 1}
    BY <1>6 DEF TakeClass, SkipObject, MissClass, WriteClass
  <2> QED BY <2>0, <2>1, <2>2, <2>3 DEF Counts
<1>7. CASE CloseWriter
  BY <1>7 DEF CloseWriter, Counts
<1> QED
  BY <1>1, <1>2, <1>3, <1>4, <1>5, <1>6, <1>7
  DEF Next, Dumping, Walk, Surroundings, LoadClass, GameExit, GameLaunch, DiskChanges

\* The flags stay truth values.
LEMMA FlagsNext == Flags /\ [Next]_vars => Flags'
<1> SUFFICES ASSUME Flags, [Next]_vars PROVE Flags'
  OBVIOUS
<1> USE DEF gameVars, walkVars, streamVars, fileVars, ghostVars, dumpVars, Flags
<1>1. CASE UNCHANGED vars
  BY <1>1 DEF vars
<1>2. CASE Surroundings \/ Attach \/ AttachFails
  BY <1>2 DEF Surroundings, LoadClass, GameExit, GameLaunch, DiskChanges, Killed, Attach,
              AttachFails, Return
<1>3. CASE OpenWriter \/ OpenFails \/ CloseWriter \/ Rename \/ GiveUp \/ Remove
  BY <1>3 DEF OpenWriter, OpenFails, CloseWriter, Rename, GiveUp, Remove, Return
<1>4. CASE Walk
  BY <1>4 DEF Walk, NoObjects, ReadBatch, MeetsClass, TakeClass, SkipObject, MissClass, WalkEnds, WriteClass
<1> QED BY <1>1, <1>2, <1>3, <1>4 DEF Next, Dumping

\* The dump is at one of its places, and what it read are indices.
LEMMA PlacesNext == DumpInv /\ Places /\ [Next]_vars => Places'
<1> SUFFICES ASSUME DumpInv, Places, [Next]_vars PROVE Places'
  OBVIOUS
<1> USE DumpAssumption DEF gameVars, walkVars, streamVars, fileVars, ghostVars, dumpVars, Places
<1>0. Indices' = Indices /\ classes \subseteq Indices
  BY DEF Indices, DumpInv, DumpType
<1>1. CASE UNCHANGED vars \/ UNCHANGED dumpVars
  BY <1>0, <1>1 DEF vars
<1>2. CASE Killed \/ AttachFails \/ OpenFails \/ Rename \/ Remove
  BY <1>2 DEF Killed, AttachFails, OpenFails, Rename, Remove, Return
<1>3. CASE Attach \/ OpenWriter \/ CloseWriter \/ GiveUp
  BY <1>0, <1>3 DEF Attach, OpenWriter, CloseWriter, GiveUp
<1>4. CASE Walk
  BY <1>0, <1>4 DEF Walk, NoObjects, ReadBatch, MeetsClass, TakeClass, SkipObject, MissClass, WalkEnds, Step
<1> QED
  BY <1>1, <1>2, <1>3, <1>4
  DEF Next, Dumping, Surroundings, LoadClass, GameExit, GameLaunch, DiskChanges

\* What is written and renamed are files.
LEMMA FilesNext == DumpInv /\ Files /\ [Next]_vars => Files'
<1> SUFFICES ASSUME DumpInv, Files, [Next]_vars PROVE Files'
  OBVIOUS
<1> USE DEF gameVars, walkVars, streamVars, fileVars, ghostVars, dumpVars, Files
<1>0. Indices' = Indices /\ File' = File
  BY DEF Indices, File
<1>1. CASE UNCHANGED <<pending, output>>
  BY <1>0, <1>1
<1>2. CASE OpenFails \/ Rename \/ Remove
  BY <1>0, <1>2 DEF OpenFails, Rename, Remove
<1>3. CASE OpenWriter \/ TakeClass \/ CloseWriter
  <2>1. Walking' \/ pc' = "rename"
    BY <1>3 DEF OpenWriter, TakeClass, CloseWriter, Walking, Step
  <2>2. pending' \in File
    BY <1>0, <2>1, DumpNext DEF DumpInv, DumpType
  <2>3. output' = output
    BY <1>3 DEF OpenWriter, TakeClass, CloseWriter
  <2> QED BY <1>0, <2>2, <2>3
<1> QED
  BY <1>1, <1>2, <1>3
  DEF Next, Dumping, Walk, Surroundings, LoadClass, GameExit, GameLaunch, DiskChanges, Killed,
      Attach, AttachFails, NoObjects, ReadBatch, MeetsClass, SkipObject, MissClass, WalkEnds, GiveUp, vars

\* Counters and files keep their types, the counts of a dump within the cap,
\* for an array, a cap and batches of any size.
THEOREM DumpTypes == Spec => []DumpTypeOK
<1>1. Init => Counts /\ Flags /\ Places /\ Files
  <2> SUFFICES ASSUME Init PROVE Counts /\ Flags /\ Places /\ Files
    OBVIOUS
  <2>1. Counts
    BY DumpAssumption DEF Init, Counts
  <2>2. Flags
    BY DEF Init, Flags
  <2>3. Places
    BY DumpAssumption DEF Init, Places
  <2>4. Files
    BY DEF Init, Files
  <2> QED BY <2>1, <2>2, <2>3, <2>4
<1>2. DumpInv /\ Counts /\ Flags /\ Places /\ Files => DumpTypeOK
  <2> SUFFICES ASSUME DumpInv, Counts, Flags, Places, Files PROVE DumpTypeOK
    OBVIOUS
  <2>1. classes \subseteq Indices /\ buffered \subseteq Indices /\ due \subseteq Indices
    BY DEF DumpInv, DumpType
  <2>2. {pending, output} \subseteq File \cup {None}
    BY DEF Files
  <2> QED BY <2>1, <2>2 DEF Counts, Flags, Places, DumpTypeOK
<1> QED BY <1>1, <1>2, DumpInit, DumpNext, CountsNext, FlagsNext, PlacesNext, FilesNext, PTL DEF Spec

(***************************************************************************)
(* The schema file is replaced as a whole: AtomicDump.                     *)
(***************************************************************************)

\* The stream is given classes of the game only, from a batch or read one by one.
GivenLoaded ==
  /\ Walking => Given \subseteq classes
  /\ pc = "rename" => pending.body \subseteq classes
  /\ pc \in {"object", "class"} /\ batch # None => batch \subseteq classes
  /\ pc = "class" => next \in classes

\* A class that was counted and not lost is there.
CountedGiven ==
  /\ pc \in {"idle", "attached"} => count = 0 /\ buffered = {}
  /\ Walking /\ ~err /\ count > 0 => Given # {}
  /\ pc = "rename" /\ written > 0 => pending.body # {}

ListInv == GivenLoaded /\ CountedGiven

LEMMA ListInit == Init => ListInv
  BY DEF Init, ListInv, GivenLoaded, CountedGiven, Walking

LEMMA ReturnLists ==
  ASSUME NEW r, Return(r)
  PROVE  ListInv'
  BY DEF Return, ListInv, GivenLoaded, CountedGiven, Walking

\* A class that is written is the only one that comes to those given, and is there
\* unless the stream has an error.
LEMMA WriteGives ==
  ASSUME pending \in File, NEW i, WriteClass(i)
  PROVE  Given' \subseteq Given \cup {i} /\ (~err' => i \in Given')
<1>1. CASE buffered' = buffered \cup {i} /\ UNCHANGED <<pending, err>>
  BY <1>1 DEF Given
<1>2. CASE /\ buffered' = {} /\ pending' = [pending EXCEPT !.body = @ \cup buffered \cup {i}]
  BY <1>2 DEF Given, File
<1>3. CASE buffered' = {} /\ pending' = [pending EXCEPT !.damaged = TRUE] /\ err' = TRUE
  BY <1>3 DEF Given, File
<1> QED BY <1>1, <1>2, <1>3 DEF WriteClass

LEMMA ListNext == DumpInv /\ ListInv /\ [Next]_vars => ListInv'
<1> SUFFICES ASSUME DumpInv, ListInv, [Next]_vars PROVE ListInv'
  OBVIOUS
<1> USE DEF gameVars, walkVars, streamVars, fileVars, ghostVars, dumpVars
<1>1. CASE UNCHANGED vars \/ (UNCHANGED dumpVars /\ classes \subseteq classes')
  BY <1>1 DEF vars, ListInv, GivenLoaded, CountedGiven, Given, Walking
<1>2. CASE Killed \/ AttachFails \/ OpenFails \/ Rename \/ Remove
  BY <1>2, ReturnLists DEF Killed, AttachFails, OpenFails, Rename, Remove
<1>3. CASE Attach \/ GiveUp
  BY <1>3 DEF Attach, GiveUp, ListInv, GivenLoaded, CountedGiven, Walking
<1>4. CASE OpenWriter
  BY <1>4 DEF OpenWriter, ListInv, GivenLoaded, CountedGiven, Given, Walking
<1>5. CASE NoObjects \/ WalkEnds \/ SkipObject \/ MissClass
  <2>1. /\ UNCHANGED <<classes, batch, count, buffered, err, pending>>
        /\ pc' # "rename" /\ pc' \notin {"idle", "attached"} /\ Walking
        /\ pc' = "object" => pc = "object"
        /\ pc' # "class"
    BY <1>5 DEF NoObjects, WalkEnds, SkipObject, MissClass, Step, Walking
  <2> QED BY <2>1 DEF ListInv, GivenLoaded, CountedGiven, Given, Walking
<1>6. CASE ReadBatch
  <2>1. batch' # None => batch' \subseteq classes
    BY <1>6 DEF ReadBatch
  <2> QED BY <1>6, <2>1 DEF ReadBatch, ListInv, GivenLoaded, CountedGiven, Given, Walking
<1>7. CASE TakeClass
  <2>1. pc = "class" /\ pending \in File /\ next \in classes
    BY <1>7 DEF TakeClass, ListInv, GivenLoaded, DumpInv, DumpType, Walking
  <2>2. Given' \subseteq Given \cup {next} /\ (~err' => next \in Given')
    BY <1>7, <2>1, WriteGives DEF TakeClass
  <2>3. UNCHANGED <<classes, batch>> /\ pc' \in {"batch", "object"}
    BY <1>7 DEF TakeClass, Step
  <2>4. GivenLoaded'
    BY <2>1, <2>2, <2>3 DEF ListInv, GivenLoaded, Walking
  <2>5. CountedGiven'
    BY <2>2, <2>3 DEF CountedGiven
  <2> QED BY <2>4, <2>5 DEF ListInv
<1>8. CASE MeetsClass
  <2>1. next \in classes
    BY <1>8 DEF MeetsClass, Seen, ListInv, GivenLoaded
  <2> QED BY <1>8, <2>1 DEF MeetsClass, ListInv, GivenLoaded, CountedGiven, Given, Walking
<1>9. CASE CloseWriter
  <2>1. pending \in File /\ Walking /\ classes' = classes /\ pc' = "rename"
    BY <1>9 DEF CloseWriter, DumpInv, DumpType, Walking
  <2>2. pending'.body = IF room THEN Given ELSE pending.body
    BY <1>9, <2>1 DEF CloseWriter, File, Given
  <2>3. written' > 0 => room /\ ~err /\ count > 0
    BY <1>9 DEF CloseWriter, StreamFailed
  <2>4. GivenLoaded'
    BY <2>1, <2>2 DEF ListInv, GivenLoaded, Given, Walking
  <2>5. CountedGiven'
    BY <2>1, <2>2, <2>3 DEF ListInv, CountedGiven, Walking
  <2> QED BY <2>4, <2>5 DEF ListInv
<1> QED
  BY <1>1, <1>2, <1>3, <1>4, <1>5, <1>6, <1>7, <1>8, <1>9
  DEF Next, Dumping, Walk, Surroundings, LoadClass, GameExit, GameLaunch, DiskChanges

\* Only the rename shows: it replaces the schema by what the stream was given.
LEMMA StepRefines ==
  DumpInv /\ ListInv /\ [Next]_vars => [Atomic!Next]_<<classes, Schema>>
<1> SUFFICES ASSUME DumpInv, ListInv, [Next]_vars PROVE [Atomic!Next]_<<classes, Schema>>
  OBVIOUS
<1> USE DEF gameVars, walkVars, streamVars, fileVars, ghostVars, dumpVars
<1>1. CASE Rename
  <2>1. pc = "rename" /\ written > 0 /\ output' = pending /\ classes' = classes
    BY <1>1 DEF Rename, Return
  <2>2. pending \in File /\ pending.ended /\ ~pending.damaged
    BY <2>1 DEF DumpInv, DumpType, ClosedIsWhole
  <2>3. pending.body \subseteq classes /\ pending.body # {}
    BY <2>1 DEF ListInv, GivenLoaded, CountedGiven
  <2>4. output' # None
    BY <2>1, <2>2, NoFileAssumption
  <2>5. Schema' = pending.body
    BY <2>1, <2>2, <2>4 DEF Schema
  <2>6. Atomic!Replace
    BY <2>1, <2>3, <2>5 DEF Atomic!Replace
  <2> QED BY <2>6 DEF Atomic!Next
<1>2. ASSUME output' = output, classes \subseteq classes', classes' \subseteq Indices
      PROVE  [Atomic!Next]_<<classes, Schema>>
  <2>1. Schema' = Schema
    BY <1>2 DEF Schema
  <2> QED BY <1>2, <2>1 DEF Atomic!Next, Atomic!Load
<1>3. CASE ~Rename
  <2>1. output' = output /\ classes \subseteq classes' /\ classes' \subseteq Indices
    BY <1>3 DEF Next, Dumping, Walk, Surroundings, vars, LoadClass, GameExit, GameLaunch,
         DiskChanges, Killed, Attach, AttachFails, OpenWriter, OpenFails, NoObjects, ReadBatch,
         MeetsClass, TakeClass, SkipObject, MissClass, WalkEnds, CloseWriter, GiveUp, Remove, Return,
         DumpInv, DumpType
  <2> QED BY <1>2, <2>1
<1> QED BY <1>1, <1>3

\* The dump implements AtomicDump: its readers never see it at work.
THEOREM DumpRefines == Spec => ImplementsAtomicDump
<1> SUFFICES Spec => Atomic!Spec
  BY DEF ImplementsAtomicDump
<1>1. Init => Atomic!Init
  BY DEF Init, Atomic!Init, Schema
<1>2. DumpInv /\ ListInv /\ [Next]_vars => [Atomic!Next]_<<classes, Schema>>
  BY StepRefines
<1> QED BY <1>1, <1>2, DumpInit, DumpNext, ListInit, ListNext, PTL DEF Spec, Atomic!Spec
=============================================================================
