----------------------------- MODULE SchemaDump -----------------------------
(***************************************************************************)
(* ue4loadmonitor --dump-once: ue4_sdk_generate attaches to the game,      *)
(* streams each class it meets in the object array into a pending file,    *)
(* and renames that file over the schema of the last dump.                 *)
(*                                                                         *)
(* Meanwhile the game loads more classes or exits, the disk fills up and   *)
(* is freed, and the dump itself may be killed.  A class is taken as one   *)
(* record, which ClassRead looks into; here its name, its fields and their *)
(* layout in the file are left out, but not the time it takes to read.     *)
(* One dump runs at a time: the command is given by hand.                  *)
(***************************************************************************)
EXTENDS Naturals, Integers, FiniteSets

CONSTANTS
  Length,      \* length of the object array (num_elems)
  MaxObjects,  \* objects looked at (MAX_OBJECTS, 500000)
  BatchSize,   \* objects read at once (512)
  MaxDumps,    \* bound on the dumps of a behaviour
  None         \* no file

ASSUME DumpAssumption == {Length, MaxObjects, BatchSize} \subseteq Nat \ {0} /\ MaxDumps \in Nat

VARIABLES
  classes,   \* indices of the array at which the game has a class
  up,        \* the process the dump attached to, or would attach to, is alive
  room,      \* the disk has room
  pc,        \* "idle", "attached", "batch", "object", "class", "close", "rename",
             \* "remove"
  next,      \* index of the object looked at
  batch,     \* the batch: indices with a class as read, or None if not read
  found,     \* class_count of ue4r_iterate_classes, -1 if it gave up
  count,     \* writer->count
  buffered,  \* classes in the stream's buffer
  err,       \* ferror(writer->fp)
  written,   \* what ue4j_writer_close returned
  pending,   \* the file at pending_path
  output,    \* the file at UE4_SDK_OUTPUT_PATH
  result,    \* how the last dump ended: "ok", "failed" or "killed"
  due,       \* classes the array held when the dump began to walk it
  missed,    \* some read of this dump failed
  dumps

gameVars == <<classes, up>>
fileVars == <<pending, output, result>>
walkVars == <<next, batch, found>>
streamVars == <<count, buffered, err, written>>
ghostVars == <<due, missed>>
vars == <<gameVars, room, pc, walkVars, streamVars, fileVars, ghostVars, dumps>>

Indices == 1..Length
Lesser(m, n) == IF m < n THEN m ELSE n

\* A file: the classes it holds, whether its end was written, and whether
\* something in between was lost.
File == [body : SUBSET Indices, ended : BOOLEAN, damaged : BOOLEAN]

ASSUME NoFileAssumption == None \notin File

Init ==
  /\ classes \in SUBSET Indices /\ up = TRUE /\ room = TRUE
  /\ pc = "idle" /\ next = 1 /\ batch = None /\ found = 0
  /\ count = 0 /\ buffered = {} /\ err = FALSE /\ written = 0
  /\ pending = None /\ output = None /\ result = "failed"
  /\ due = {} /\ missed = FALSE /\ dumps = 0

-----------------------------------------------------------------------------
(* The surroundings.                                                       *)

dumpVars == <<pc, walkVars, streamVars, fileVars, ghostVars, dumps>>

\* Between two dumps it makes no difference when a class is loaded: Init has
\* any of them.
LoadClass(i) ==
  /\ up /\ i \notin classes
  /\ pc # "idle"
  /\ classes' = classes \cup {i}
  /\ UNCHANGED <<up, room, dumpVars>>

GameExit ==
  /\ up
  /\ up' = FALSE
  /\ UNCHANGED <<classes, room, dumpVars>>

\* A new process with the same classes, which a dump under way is not
\* attached to.
GameLaunch ==
  /\ ~up /\ pc = "idle"
  /\ up' = TRUE
  /\ UNCHANGED <<classes, room, dumpVars>>

DiskChanges ==
  /\ room' = ~room
  /\ UNCHANGED <<gameVars, dumpVars>>

-----------------------------------------------------------------------------
(* ue4_sdk_generate.                                                       *)

\* The process exits, with its buffer if that was not written.
Return(r) ==
  /\ pc' = "idle" /\ result' = r
  /\ next' = 1 /\ batch' = None /\ found' = 0
  /\ count' = 0 /\ buffered' = {} /\ err' = FALSE /\ written' = 0
  /\ due' = {} /\ missed' = FALSE
  /\ UNCHANGED <<gameVars, room, dumps>>

\* SIGKILL: the files stay as they are.
Killed ==
  /\ pc # "idle"
  /\ Return("killed")
  /\ UNCHANGED <<pending, output>>

\* The task port, the slide and the reflection context, in that order.
Attach ==
  /\ pc = "idle" /\ up /\ dumps < MaxDumps
  /\ pc' = "attached"
  /\ dumps' = dumps + 1
  /\ UNCHANGED <<gameVars, room, walkVars, streamVars, fileVars, ghostVars>>

AttachFails ==
  /\ pc = "idle" /\ dumps < MaxDumps
  /\ Return("failed")
  /\ UNCHANGED <<pending, output>>

\* ue4j_writer_open truncates whatever is at the pending path; the head of
\* the document goes to the buffer.
OpenWriter ==
  /\ pc = "attached"
  /\ pending' = [body |-> {}, ended |-> FALSE, damaged |-> FALSE]
  /\ due' = classes
  /\ pc' = "batch"
  /\ UNCHANGED <<gameVars, room, walkVars, streamVars, output, result, missed, dumps>>

\* The open fails: what is at the pending path is removed.
OpenFails ==
  /\ pc = "attached"
  /\ pending' = None
  /\ Return("failed")
  /\ UNCHANGED output

\* get_objects_info: without a pointer and a count there is no walk.
NoObjects ==
  /\ pc = "batch" /\ next = 1 /\ ~up
  /\ found' = -1 /\ missed' = TRUE
  /\ pc' = "close"
  /\ UNCHANGED <<gameVars, room, next, batch, streamVars, fileVars, due, dumps>>

\* Fault for mutation: the cap on the objects is forgotten.
Uncapped == Length

Capped == Lesser(Length, MaxObjects)

\* Fault for mutation: the last object of a batch is not part of it.
BatchEndShort(i) == Lesser(i + BatchSize - 2, Capped)

BatchEnd(i) == Lesser(i + BatchSize - 1, Capped)

\* The pointers of the next batch, read at once; a read fails when the game is
\* gone or a page of the array is.
ReadBatch ==
  /\ pc = "batch" /\ next <= Capped /\ (next = 1 => up)
  /\ \/ up /\ batch' = classes \cap (next..BatchEnd(next))
     \/ batch' = None
  /\ pc' = "object"
  /\ UNCHANGED <<gameVars, room, next, found, streamVars, fileVars, ghostVars, dumps>>

\* ue4j_writer_write_class: the class stays in the buffer, or the buffer is
\* written out with it.  When that fails the stream has its error and the
\* file a gap; the class is counted unless one of the checked writes saw it.
WriteClass(i) ==
  \/ /\ buffered' = buffered \cup {i} /\ count' = count + 1
     /\ UNCHANGED <<pending, err>>
  \/ /\ room /\ count' = count + 1
     /\ buffered' = {} /\ pending' = [pending EXCEPT !.body = @ \cup buffered \cup {i}]
     /\ UNCHANGED err
  \/ /\ ~room /\ count' \in {count, count + 1}
     /\ buffered' = {} /\ pending' = [pending EXCEPT !.damaged = TRUE]
     /\ err' = TRUE

LastOfBatch == next % BatchSize = 0 \/ next = Capped

Step == next' = next + 1 /\ pc' = IF LastOfBatch THEN "batch" ELSE "object"

\* The object was in the batch, or is read now.
Seen(i) == IF batch = None THEN i \in classes ELSE i \in batch

\* An object that is a class, read as one.
MeetsClass ==
  /\ pc = "object" /\ up /\ Seen(next)
  /\ pc' = "class"
  /\ UNCHANGED <<gameVars, room, walkVars, streamVars, fileVars, ghostVars, dumps>>

\* Its record goes to the writer once its properties and functions are read, if
\* ever; if the game exits meanwhile the record may lack some of them.
TakeClass ==
  /\ pc = "class"
  /\ WriteClass(next)
  /\ found' = found + 1
  /\ Step
  /\ missed' \in IF up THEN {missed} ELSE {missed, TRUE}
  /\ UNCHANGED <<gameVars, room, batch, written, output, result, due, dumps>>

\* Anything else in the array, and a class loaded after the batch was read.
SkipObject ==
  /\ pc = "object" /\ ~Seen(next)
  /\ Step
  /\ UNCHANGED <<gameVars, room, batch, found, streamVars, fileVars, ghostVars, dumps>>

\* A class whose pointer, meta-class or name does not read is passed over.
MissClass ==
  /\ pc = "object" /\ ~up /\ Seen(next)
  /\ missed' = TRUE
  /\ Step
  /\ UNCHANGED <<gameVars, room, batch, found, streamVars, fileVars, due, dumps>>

WalkEnds ==
  /\ pc = "batch" /\ next > Capped
  /\ pc' = "close"
  /\ UNCHANGED <<gameVars, room, walkVars, streamVars, fileVars, ghostVars, dumps>>

\* Fault for mutation: only the last flush is looked at.
FlushFailed == ~room

StreamFailed == err \/ ~room

\* ue4j_writer_close: the end of the document, then fflush, ferror, fclose.
CloseWriter ==
  /\ pc = "close"
  /\ pending' = IF room THEN [pending EXCEPT !.body = @ \cup buffered, !.ended = TRUE]
                        ELSE [pending EXCEPT !.damaged = TRUE]
  /\ written' = IF StreamFailed THEN -1 ELSE count
  /\ buffered' = {}
  /\ pc' = "rename"
  /\ UNCHANGED <<gameVars, room, walkVars, count, err, output, result, ghostVars, dumps>>

\* count > 0 && written == count && rename(...) == 0
Rename ==
  /\ pc = "rename"
  /\ found > 0 /\ written = found
  /\ output' = pending /\ pending' = None
  /\ Return("ok")

\* One of the three conditions fails, be it the rename itself.
GiveUp ==
  /\ pc = "rename"
  /\ pc' = "remove"
  /\ UNCHANGED <<gameVars, room, walkVars, streamVars, fileVars, ghostVars, dumps>>

Remove ==
  /\ pc = "remove"
  /\ pending' = None
  /\ Return("failed")
  /\ UNCHANGED output

Walk == NoObjects \/ ReadBatch \/ MeetsClass \/ TakeClass \/ SkipObject \/ MissClass \/ WalkEnds

Dumping == \/ OpenWriter \/ OpenFails
           \/ Walk
           \/ CloseWriter \/ Rename \/ GiveUp \/ Remove

Surroundings == \/ \E i \in Indices : LoadClass(i)
                \/ GameExit \/ GameLaunch \/ DiskChanges \/ Killed

Next == Attach \/ AttachFails \/ Dumping \/ Surroundings

Spec == Init /\ [][Next]_vars

-----------------------------------------------------------------------------
(* Properties.                                                             *)

\* Every variable keeps its type; the counts of a dump stay within the cap.
DumpTypeOK ==
  /\ classes \subseteq Indices /\ {up, room, err, missed} \subseteq BOOLEAN
  /\ pc \in {"idle", "attached", "batch", "object", "class", "close", "rename", "remove"}
  /\ next \in 1..(MaxObjects + 1) /\ (batch = None \/ batch \subseteq Indices)
  /\ found \in -1..MaxObjects /\ count \in 0..MaxObjects /\ written \in -1..MaxObjects
  /\ buffered \subseteq Indices /\ due \subseteq Indices
  /\ {pending, output} \subseteq File \cup {None}
  /\ result \in {"ok", "failed", "killed"} /\ dumps \in 0..MaxDumps

\* The file other programs read is a whole document at any moment: no dump that
\* ran out of disk, was killed or lost a record in its buffer ever replaces it.
OutputWhole == output # None => output.ended /\ ~output.damaged

\* The schema as others read it; {} stands for a file that is cut short or has a
\* gap, which AtomicDump never shows.
Schema == IF output = None THEN None
          ELSE IF output.ended /\ ~output.damaged THEN output.body ELSE {}

\* Whatever is killed, fills up or exits meanwhile, others see a whole schema give
\* way to a whole one in one step, with some classes in it and none that the game
\* did not load, although each class is read, buffered and written by itself.
Atomic == INSTANCE AtomicDump WITH Classes <- Indices, loaded <- classes, schema <- Schema
ImplementsAtomicDump == Atomic!Spec

\* A dump that met no failed read lists every class that was in the array when
\* it began to walk, whatever its batches, its cap aside.
ListsEveryClass ==
  [][output' # output /\ ~missed => due \cap 1..MaxObjects \subseteq output'.body]_vars

\* "A failed read must not replace the last successful dump."
FailedReadKeepsDump == [][output' # output => ~missed]_vars
=============================================================================
