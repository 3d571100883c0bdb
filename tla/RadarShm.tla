------------------------------ MODULE RadarShm ------------------------------
(***************************************************************************)
(* The frame exchange over the memory-mapped file ue4_radar.bin: publish() *)
(* of the daemon against read_snapshot() of the overlay.  Both sides work  *)
(* word by word on the same pages and synchronise only through the         *)
(* sequence word, which is odd while a publication is under way.           *)
(*                                                                         *)
(* A word of the frame holds the number of the publication that stored it, *)
(* 0 in a file that was only just extended.  A store is one step: the one  *)
(* at which it becomes visible to the other process.                       *)
(***************************************************************************)
EXTENDS Naturals

CONSTANTS
  Daemons,      \* the ue4loadmonitor processes that exist over time
  Prefix,       \* words of radar_shared_t before header.sequence
  Suffix,       \* words after it
  MagicWord,    \* the word of Prefix holding magic and version
  SeqMod,       \* 2^32, the range of the uint32_t sequence
  Retries,      \* attempts of one read_snapshot call (3 in the code)
  InOrder,      \* TRUE: stores become visible in program order
  LaunchdOnly,  \* TRUE: launchd alone starts daemons, one at a time
  MaxPubs       \* bound on the publications of a behaviour

Words == Prefix \cup Suffix

ASSUME WordsAssumption == Prefix \cap Suffix = {} /\ MagicWord \in Prefix
ASSUME SeqAssumption == SeqMod \in Nat /\ SeqMod > 0 /\ SeqMod % 2 = 0
ASSUME BoundAssumption == Retries \in Nat \ {0} /\ MaxPubs \in Nat
ASSUME OrderAssumption == InOrder \in BOOLEAN /\ LaunchdOnly \in BOOLEAN

VARIABLES
  mem,       \* the payload words of the mapped file
  seq,       \* header.sequence, unwrapped: a load returns Load(seq)
  phase,     \* per daemon: "off", "idle" (mapped), "publishing"
  odd,       \* per daemon: the odd value it stores first
  oddSeen,   \* per daemon: that store is visible
  todo,      \* per daemon: payload words whose store is not visible yet
  pub,       \* per daemon: number of the publication under way
  rpc,       \* overlay: "idle", "load" or "copy"
  tries,     \* overlay: failed attempts of this call
  rseq,      \* overlay: the sequence it loaded (unwrapped)
  rtodo,     \* overlay: words not copied yet
  cand,      \* overlay: the local candidate
  snap,      \* overlay: g_snapshot
  pubs,      \* publications begun, to number them
  last       \* the last publication that was completed

writer == <<phase, odd, oddSeen, todo, pub, pubs, last>>
reader == <<rpc, tries, rseq, rtodo, cand, snap>>
vars == <<mem, seq, writer, reader>>

Whole(n) == [w \in Words |-> n]
Odd(n) == n % 2 = 1
Load(n) == n % SeqMod

\* A frame all of whose words come from one publication.
IsWhole(f) == \A v, w \in Words : f[v] = f[w]

Init ==
  /\ mem = Whole(0) /\ seq = 0
  /\ phase = [d \in Daemons |-> "off"]
  /\ odd = [d \in Daemons |-> 1]
  /\ oddSeen = [d \in Daemons |-> FALSE]
  /\ todo = [d \in Daemons |-> {}]
  /\ pub = [d \in Daemons |-> 0]
  /\ rpc = "idle" /\ tries = 0 /\ rseq = 0 /\ rtodo = {}
  /\ cand = Whole(0) /\ snap = Whole(0)
  /\ pubs = 0 /\ last = 0

-----------------------------------------------------------------------------
(* The daemon.                                                             *)

\* radar_init maps the file as it stands: an existing file keeps its content
\* and its sequence.  Nothing in the daemon excludes a second instance;
\* launchd never runs two, but the app may spawn one of its own.
Start(d) ==
  /\ phase[d] = "off"
  /\ LaunchdOnly => \A e \in Daemons : phase[e] = "off"
  /\ phase' = [phase EXCEPT ![d] = "idle"]
  /\ UNCHANGED <<mem, seq, odd, oddSeen, todo, pub, pubs, last, reader>>

\* Fault for mutation: the odd value a killed daemon left is not skipped.
OddAfterPlain(n) == n + 1

\* sequence = (sequence + 1u) | 1u
OddAfter(n) == IF Odd(n) THEN n + 2 ELSE n + 1

\* Bound on real time: one attempt of the reader does not outlast SeqMod / 2
\* publications (3.4 years at 20 Hz).
NotLapped(n) == rpc = "copy" => n + 1 - rseq < SeqMod

\* publish() up to the odd store: the sequence is loaded, its odd successor
\* computed, and the stores are issued.
BeginPublish(d) ==
  /\ phase[d] = "idle"
  /\ pubs < MaxPubs
  /\ phase' = [phase EXCEPT ![d] = "publishing"]
  /\ odd' = [odd EXCEPT ![d] = OddAfter(seq)]
  /\ oddSeen' = [oddSeen EXCEPT ![d] = FALSE]
  /\ todo' = [todo EXCEPT ![d] = Words]
  /\ pubs' = pubs + 1
  /\ pub' = [pub EXCEPT ![d] = pubs + 1]
  /\ UNCHANGED <<mem, seq, last, reader>>

\* The odd sequence becomes visible.
StoreOdd(d) ==
  /\ phase[d] = "publishing"
  /\ ~oddSeen[d]
  /\ NotLapped(odd[d])
  /\ seq' = odd[d]
  /\ oddSeen' = [oddSeen EXCEPT ![d] = TRUE]
  /\ UNCHANGED <<mem, phase, odd, todo, pub, pubs, last, reader>>

\* A store may become visible only after the ones before it in program order.
\* Nothing in publish() asks for that of the payload: a sequentially
\* consistent store orders what precedes it, and the two memcpy follow.
MayStore(d, w) ==
  InOrder => /\ oddSeen[d]
             /\ w \in Suffix => Prefix \cap todo[d] = {}

StoreWord(d, w) ==
  /\ phase[d] = "publishing"
  /\ w \in todo[d]
  /\ MayStore(d, w)
  /\ mem' = [mem EXCEPT ![w] = pub[d]]
  /\ todo' = [todo EXCEPT ![d] = @ \ {w}]
  /\ UNCHANGED <<seq, phase, odd, oddSeen, pub, pubs, last, reader>>

\* Fault for mutation: the closing store of the sequence is left out.
EndPublishNoStore(d) ==
  /\ phase[d] = "publishing" /\ oddSeen[d] /\ todo[d] = {}
  /\ phase' = [phase EXCEPT ![d] = "idle"]
  /\ last' = pub[d]
  /\ UNCHANGED <<mem, seq, odd, oddSeen, todo, pub, pubs, reader>>

\* The release store of sequence + 1 waits for every store before it.
EndPublish(d) ==
  /\ phase[d] = "publishing"
  /\ oddSeen[d]
  /\ todo[d] = {}
  /\ seq' = odd[d] + 1
  /\ phase' = [phase EXCEPT ![d] = "idle"]
  /\ last' = pub[d]
  /\ UNCHANGED <<mem, odd, oddSeen, todo, pub, pubs, reader>>

\* A killed process has executed a prefix of its program: what it leaves in
\* memory is a prefix of the stores, however they became visible meanwhile.
LeavesPrefix(d) ==
  /\ todo[d] # Words => oddSeen[d]
  /\ Prefix \cap todo[d] # {} => Suffix \subseteq todo[d]

\* The daemon goes away: the munmap of radar_destroy (which published once
\* more before it), or SIGKILL at any instruction of publish().
Exit(d) ==
  /\ phase[d] # "off"
  /\ phase[d] = "publishing" => LeavesPrefix(d)
  /\ phase' = [phase EXCEPT ![d] = "off"]
  /\ UNCHANGED <<mem, seq, odd, oddSeen, todo, pub, pubs, last, reader>>

-----------------------------------------------------------------------------
(* The overlay: one call of read_snapshot with the file mapped.            *)

ReadSnapshot ==
  /\ rpc = "idle"
  /\ rpc' = "load"
  /\ tries' = 0
  /\ UNCHANGED <<mem, seq, writer, rseq, rtodo, cand, snap>>

\* Fault for mutation: the number of attempts has no limit.
RetryForever ==
  /\ tries' = tries + 1
  /\ rpc' = "load"

\* continue of the retry loop; after the last attempt the call returns NO.
Retry ==
  /\ tries' = (tries + 1) % Retries
  /\ rpc' = IF tries + 1 = Retries THEN "idle" ELSE "load"

\* Fault for mutation: an odd sequence is not refused.
LoadSeqUnchecked ==
  /\ rpc = "load"
  /\ rpc' = "copy" /\ rseq' = seq /\ rtodo' = Words
  /\ UNCHANGED <<mem, seq, writer, tries, cand, snap>>

\* The acquire load of the sequence: an odd value fails the attempt.
LoadSeq ==
  /\ rpc = "load"
  /\ \/ /\ Odd(Load(seq))
        /\ Retry
        /\ UNCHANGED <<rseq, rtodo>>
     \/ /\ ~Odd(Load(seq))
        /\ rpc' = "copy"
        /\ rseq' = seq
        /\ rtodo' = Words
        /\ UNCHANGED tries
  /\ UNCHANGED <<mem, seq, writer, cand, snap>>

\* memcpy(&candidate, g_shared, sizeof(candidate)), in no particular order.
CopyWord(w) ==
  /\ rpc = "copy"
  /\ w \in rtodo
  /\ cand' = [cand EXCEPT ![w] = mem[w]]
  /\ rtodo' = rtodo \ {w}
  /\ UNCHANGED <<mem, seq, writer, rpc, tries, rseq, snap>>

\* Fault for mutation: the second load is not compared with the first.
SameSeqAny == TRUE

SameSeq == Load(seq) = Load(rseq)

\* The sequence is loaded again behind the fence.  The candidate is taken
\* when it has not moved and the magic is right; a wrong magic ends the call.
\* The check of player_count that follows refuses no frame of a daemon, whose
\* radar_tick never counts past the cap (TypeOK of ReaderCache).
CheckSeq ==
  /\ rpc = "copy"
  /\ rtodo = {}
  /\ \/ ~SameSeq /\ Retry /\ UNCHANGED snap
     \/ /\ SameSeq
        /\ rpc' = "idle" /\ tries' = 0
        /\ snap' = IF cand[MagicWord] = 0 THEN snap ELSE cand
  /\ cand' = Whole(0)
  /\ UNCHANGED <<mem, seq, writer, rseq, rtodo>>

-----------------------------------------------------------------------------

Publishing(d) == \/ StoreOdd(d)
                 \/ \E w \in Words : StoreWord(d, w)
                 \/ EndPublish(d)

Reading == \/ ReadSnapshot
           \/ LoadSeq
           \/ \E w \in Words : CopyWord(w)
           \/ CheckSeq

Next == \/ \E d \in Daemons : \/ Start(d)
                              \/ BeginPublish(d)
                              \/ Publishing(d)
                              \/ Exit(d)
        \/ Reading

Spec == Init /\ [][Next]_vars

\* A publication is straight-line code and the overlay's timer keeps calling
\* read_snapshot; no daemon is obliged to start, to publish again or to stay.
Fairness == /\ \A d \in Daemons : WF_vars(Publishing(d))
            /\ WF_vars(Reading)

FairSpec == Spec /\ Fairness

-----------------------------------------------------------------------------
(* Properties.                                                             *)

\* Every variable keeps its type.  The retry counter stays below the limit of
\* read_snapshot's loop.
TypeOK ==
  /\ mem \in [Words -> Nat] /\ seq \in Nat
  /\ phase \in [Daemons -> {"off", "idle", "publishing"}]
  /\ odd \in [Daemons -> Nat] /\ oddSeen \in [Daemons -> BOOLEAN]
  /\ todo \in [Daemons -> SUBSET Words] /\ pub \in [Daemons -> Nat]
  /\ rpc \in {"idle", "load", "copy"} /\ tries \in 0..(Retries - 1)
  /\ rseq \in Nat /\ rtodo \in SUBSET Words
  /\ cand \in [Words -> Nat] /\ snap \in [Words -> Nat]
  /\ pubs \in Nat /\ last \in Nat

\* The overlay never shows a frame put together from two publications,
\* whatever the interleaving, and whatever a killed daemon left behind.
NoTornRead == IsWhole(snap)

\* A half-written payload is never left behind an even sequence: a daemon
\* killed inside publish() keeps readers out until another one has published.
EvenMeansWhole == ~Odd(seq) => mem = Whole(last)

\* The parts of the inductive invariant, for one writer at a time whose
\* stores become visible in program order.

OneWriter == \A d, e \in Daemons : phase[d] # "off" /\ phase[e] # "off" => d = e

\* Before its odd store a publication has stored nothing; after it the
\* sequence is the writer's, and the words stored so far are all its own.
WriterInv(d) ==
  phase[d] = "publishing" =>
       /\ Odd(odd[d]) /\ pub[d] = pubs /\ last < pubs
       /\ ~oddSeen[d] => odd[d] = OddAfter(seq) /\ todo[d] = Words
       /\ oddSeen[d] => /\ seq = odd[d]
                        /\ \A w \in Words \ todo[d] : mem[w] = pub[d]

\* A copy under way was begun at an even sequence; as long as the sequence
\* has not moved, the words copied are those of the last publication.
ReaderInv ==
  rpc = "copy" =>
    /\ ~Odd(rseq) /\ rseq <= seq /\ seq - rseq < SeqMod
    /\ Odd(seq) => seq + 1 - rseq < SeqMod
    /\ rseq = seq => \A w \in Words \ rtodo : cand[w] = last

\* What is shown is one whole publication, and not one of the future.
ShownInv == /\ snap = Whole(snap[MagicWord])
            /\ snap[MagicWord] <= last /\ last <= pubs

IInv == /\ OneWriter
        /\ \A d \in Daemons : WriterInv(d)
        /\ EvenMeansWhole
        /\ ReaderInv
        /\ ShownInv

\* The exchange implements the atomic one: every accepted candidate is the
\* frame whose publication was the last to complete at the second load.
Atomic == INSTANCE AtomicFrame WITH frame <- Whole(last), shown <- snap
ImplementsAtomicFrame == Atomic!Spec

\* Once every publication begun has been completed and none follows, the
\* overlay comes to hold the last frame, crashes before it notwithstanding.
Settled == last # 0 /\ pubs = last
CatchesUp == <>[]Settled => <>[](snap = Whole(last))
=============================================================================
