-------------------------- MODULE RadarShm_proofs --------------------------
(***************************************************************************)
(* Proofs about the frame exchange, for any number of words, daemons,      *)
(* attempts and publications and any even sequence range.                  *)
(***************************************************************************)
EXTENDS RadarShm, Integers, TLAPS

(***************************************************************************)
(* Type correctness.                                                       *)
(***************************************************************************)

\* Init gives every variable its type.
LEMMA InitType == Init => TypeOK
  BY WordsAssumption, SeqAssumption, BoundAssumption DEF Init, TypeOK, Whole, Words

\* The retry counter stays in range.
LEMMA RetryType == TypeOK /\ Retry => /\ tries' \in 0..(Retries - 1)
                                      /\ rpc' \in {"idle", "load", "copy"}
<1> SUFFICES ASSUME TypeOK, Retry
             PROVE  tries' \in 0..(Retries - 1) /\ rpc' \in {"idle", "load", "copy"}
  OBVIOUS
<1>1. tries \in 0..(Retries - 1) /\ tries' = (tries + 1) % Retries
  BY DEF TypeOK, Retry
<1>2. tries' \in 0..(Retries - 1)
  BY <1>1, BoundAssumption
<1>3. rpc' \in {"idle", "load", "copy"}
  BY DEF Retry
<1> QED BY <1>2, <1>3

\* Every step keeps every variable in its type.
LEMMA NextType == TypeOK /\ [Next]_vars => TypeOK'
<1> SUFFICES ASSUME TypeOK, [Next]_vars
             PROVE  TypeOK'
  OBVIOUS
<1> USE DEF TypeOK, writer, reader
<1>1. ASSUME NEW d \in Daemons, Start(d) PROVE TypeOK'
  BY <1>1 DEF Start
<1>2. ASSUME NEW d \in Daemons, BeginPublish(d) PROVE TypeOK'
  <2>1. OddAfter(seq) \in Nat
    BY DEF OddAfter
  <2> QED BY <1>2, <2>1 DEF BeginPublish
<1>3. ASSUME NEW d \in Daemons, StoreOdd(d) PROVE TypeOK'
  BY <1>3 DEF StoreOdd
<1>4. ASSUME NEW d \in Daemons, NEW w \in Words, StoreWord(d, w) PROVE TypeOK'
  BY <1>4 DEF StoreWord
<1>5. ASSUME NEW d \in Daemons, EndPublish(d) PROVE TypeOK'
  BY <1>5 DEF EndPublish
<1>6. ASSUME NEW d \in Daemons, Exit(d) PROVE TypeOK'
  BY <1>6 DEF Exit
<1>7. CASE ReadSnapshot
  BY <1>7, BoundAssumption DEF ReadSnapshot
<1>8. CASE LoadSeq
  <2>1. CASE Retry /\ UNCHANGED <<rseq, rtodo>>
    BY <1>8, <2>1, RetryType DEF LoadSeq
  <2>2. CASE rpc' = "copy" /\ rseq' = seq /\ rtodo' = Words /\ UNCHANGED tries
    BY <1>8, <2>2 DEF LoadSeq
  <2> QED BY <1>8, <2>1, <2>2 DEF LoadSeq
<1>9. ASSUME NEW w \in Words, CopyWord(w) PROVE TypeOK'
  BY <1>9 DEF CopyWord
<1>10. CASE CheckSeq
  <2>1. Whole(0) \in [Words -> Nat]
    BY DEF Whole
  <2>2. CASE Retry /\ UNCHANGED snap
    BY <1>10, <2>1, <2>2, RetryType DEF CheckSeq
  <2>3. CASE rpc' = "idle" /\ tries' = 0
             /\ snap' = (IF cand[MagicWord] = 0 THEN snap ELSE cand)
    BY <1>10, <2>1, <2>3, BoundAssumption DEF CheckSeq
  <2> QED BY <1>10, <2>2, <2>3 DEF CheckSeq
<1>11. CASE UNCHANGED vars
  BY <1>11 DEF vars
<1> QED
  BY <1>1, <1>2, <1>3, <1>4, <1>5, <1>6, <1>7, <1>8, <1>9, <1>10, <1>11
  DEF Next, Publishing, Reading

\* The words, counters and program counters of both sides keep their types.
THEOREM TypeCorrect == Spec => []TypeOK
<1> QED BY InitType, NextType, PTL DEF Spec

(***************************************************************************)
(* Arithmetic of the 32-bit sequence.                                      *)
(***************************************************************************)

\* Quotient and remainder.
LEMMA Division ==
  ASSUME NEW n \in Nat, NEW m \in Nat, m > 0
  PROVE /\ n \div m \in Nat /\ n % m \in 0..(m-1)
        /\ n = m * (n \div m) + (n % m)
  OBVIOUS

\* Two naturals closer than m with the same remainder are the same: what the
\* second load of the sequence relies on when the counter wraps.
LEMMA ModUnique ==
  ASSUME NEW m \in Nat, m > 0, NEW a \in Nat, NEW b \in Nat,
         a <= b, b - a < m, a % m = b % m
  PROVE  a = b
<1> DEFINE p == a \div m
           q == b \div m
<1>1. p \in Nat /\ q \in Nat /\ a = m * p + (a % m) /\ b = m * q + (b % m)
  BY Division
<1>2. a % m \in Nat
  BY Division
<1> HIDE DEF p, q
<1>3. b - a = m * q - m * p
  BY <1>1, <1>2
<1>4. b - a = m * (q - p)
  BY <1>1, <1>3
<1>5. CASE q >= p + 1
  <2>1. PICK k \in Nat : q - p = k + 1
     <3>1. q - p - 1 \in Nat BY <1>1, <1>5
     <3> QED BY <3>1, <1>1
  <2>2. m * (q - p) = m * k + m BY <2>1, <1>1
  <2>3. m * k >= 0 BY <2>1
  <2> QED BY <1>4, <2>2, <2>3, <1>1
<1>6. CASE q <= p - 1
  <2>1. PICK k \in Nat : p - q = k + 1
     <3>1. p - q - 1 \in Nat BY <1>1, <1>6
     <3> QED BY <3>1, <1>1
  <2>2. m * (p - q) = m * k + m BY <2>1, <1>1
  <2>3. m * k >= 0 BY <2>1
  <2>4. m * (q - p) = - (m * (p-q)) BY <1>1
  <2> QED BY <1>4, <2>2, <2>3, <2>4, <1>1
<1>7. CASE p = q
  BY <1>7, <1>1, <1>2
<1> QED BY <1>5, <1>6, <1>7, <1>1

\* An even range keeps parity: the odd mark survives the wrap to zero.
LEMMA ModParity ==
  ASSUME NEW m \in Nat, m > 0, m % 2 = 0, NEW n \in Nat
  PROVE  (n % m) % 2 = n % 2
<1> DEFINE p == n \div m
           k == m \div 2
           r == n % m
<1>1. p \in Nat /\ n = m * p + r /\ r \in Nat
  BY Division
<1>2. k \in Nat /\ m = 2 * k
  OBVIOUS
<1> HIDE DEF p, k, r
<1>3. m * p = 2 * (k * p) /\ k * p \in Nat
  BY <1>1, <1>2
<1>4. \A u, v \in Nat : (2 * u + v) % 2 = v % 2
  OBVIOUS
<1>5. n % 2 = r % 2
  BY <1>1, <1>3, <1>4
<1> QED BY <1>5 DEF r

\* A loaded sequence is odd exactly when the sequence is.
LEMMA LoadParity == ASSUME NEW n \in Nat PROVE Odd(Load(n)) <=> Odd(n)
  BY ModParity, SeqAssumption DEF Odd, Load

(***************************************************************************)
(* No torn frame.                                                          *)
(***************************************************************************)

\* OddAfter yields the next odd number above an even or an odd sequence.
LEMMA OddAfterFacts ==
  ASSUME NEW n \in Nat
  PROVE  OddAfter(n) \in Nat /\ Odd(OddAfter(n)) /\ n < OddAfter(n)
  BY DEF OddAfter, Odd

\* The untouched file satisfies the invariant.
LEMMA InitInv == Init => IInv
  BY WordsAssumption, SeqAssumption
  DEF Init, IInv, OneWriter, WriterInv, EvenMeansWhole, ReaderInv, ShownInv, Whole, Odd, Words

\* One writer at a time, storing in program order, keeps the invariant.
LEMMA NextInv ==
  ASSUME InOrder, LaunchdOnly, TypeOK, IInv, [Next]_vars
  PROVE  IInv'
<1> USE DEF IInv, TypeOK, writer, reader
<1>m. MagicWord \in Words
  BY WordsAssumption DEF Words
<1>1. ASSUME NEW d \in Daemons, Start(d) PROVE IInv'
  <2> USE <1>1 DEF Start
  <2>1. OneWriter'
    BY DEF OneWriter
  <2>2. \A e \in Daemons : WriterInv(e)'
    BY DEF WriterInv
  <2>3. EvenMeansWhole' /\ ReaderInv' /\ ShownInv'
    BY DEF EvenMeansWhole, ReaderInv, ShownInv
  <2> QED BY <2>1, <2>2, <2>3
<1>2. ASSUME NEW d \in Daemons, BeginPublish(d) PROVE IInv'
  <2> USE <1>2 DEF BeginPublish
  <2>1. OneWriter'
    BY DEF OneWriter
  <2>2. OddAfter(seq) \in Nat /\ Odd(OddAfter(seq))
    BY OddAfterFacts
  <2>3. \A e \in Daemons : phase[e] = "publishing" => e = d
    BY DEF OneWriter
  <2>4. last < pubs'
    BY DEF ShownInv
  <2>5. ASSUME NEW e \in Daemons PROVE WriterInv(e)'
    <3>1. CASE e # d
      <4>1. phase'[e] # "publishing"
        BY <3>1, <2>3
      <4> QED BY <4>1 DEF WriterInv
    <3>2. CASE e = d
      <4>1. /\ odd'[d] = OddAfter(seq) /\ ~oddSeen'[d] /\ todo'[d] = Words
            /\ pub'[d] = pubs' /\ seq' = seq /\ last' = last
        OBVIOUS
      <4> QED BY <3>2, <4>1, <2>2, <2>4 DEF WriterInv
    <3> QED BY <3>1, <3>2
  <2>6. EvenMeansWhole' /\ ReaderInv'
    BY DEF EvenMeansWhole, ReaderInv
  <2>7. ShownInv'
    BY DEF ShownInv
  <2> QED BY <2>1, <2>5, <2>6, <2>7
<1>3. ASSUME NEW d \in Daemons, StoreOdd(d) PROVE IInv'
  <2> USE <1>3 DEF StoreOdd
  <2>1. OneWriter' /\ ShownInv'
    BY DEF OneWriter, ShownInv
  <2>2. \A e \in Daemons : phase[e] = "publishing" => e = d
    BY DEF OneWriter
  <2>3. odd[d] = OddAfter(seq) /\ Odd(odd[d]) /\ todo[d] = Words /\ seq < odd[d]
    BY OddAfterFacts DEF WriterInv
  <2>4. \A e \in Daemons : WriterInv(e)'
    BY <2>2, <2>3 DEF WriterInv
  <2>5. EvenMeansWhole'
    BY <2>3 DEF EvenMeansWhole
  <2>6. ReaderInv'
    <3> SUFFICES ASSUME rpc = "copy"
                 PROVE  /\ ~Odd(rseq) /\ rseq < seq' /\ seq' - rseq < SeqMod
                        /\ seq' + 1 - rseq < SeqMod
      BY DEF ReaderInv
    <3>1. odd[d] + 1 - rseq < SeqMod
      BY DEF NotLapped
    <3> QED BY <3>1, <2>3, SeqAssumption DEF ReaderInv
  <2> QED BY <2>1, <2>4, <2>5, <2>6
<1>4. ASSUME NEW d \in Daemons, NEW w \in Words, StoreWord(d, w) PROVE IInv'
  <2> USE <1>4 DEF StoreWord
  <2>1. OneWriter' /\ ShownInv' /\ ReaderInv'
    BY DEF OneWriter, ShownInv, ReaderInv
  <2>2. \A e \in Daemons : phase[e] = "publishing" => e = d
    BY DEF OneWriter
  <2>3. oddSeen[d] /\ seq = odd[d] /\ Odd(odd[d])
    BY DEF MayStore, WriterInv
  <2>4. \A e \in Daemons : WriterInv(e)'
    BY <2>2, <2>3 DEF WriterInv
  <2>5. EvenMeansWhole'
    BY <2>3 DEF EvenMeansWhole
  <2> QED BY <2>1, <2>4, <2>5
<1>5. ASSUME NEW d \in Daemons, EndPublish(d) PROVE IInv'
  <2> USE <1>5 DEF EndPublish
  <2>1. OneWriter'
    BY DEF OneWriter
  <2>2. \A e \in Daemons : phase'[e] # "publishing"
    BY DEF OneWriter
  <2>3. \A e \in Daemons : WriterInv(e)'
    BY <2>2 DEF WriterInv
  <2>4. seq = odd[d] /\ Odd(odd[d]) /\ last < pub[d] /\ pub[d] = pubs
    BY DEF WriterInv
  <2>5. \A w \in Words : mem[w] = pub[d]
    BY DEF WriterInv
  <2>6. EvenMeansWhole'
    BY <2>5 DEF EvenMeansWhole, Whole
  <2>7. ReaderInv'
    <3> SUFFICES ASSUME rpc = "copy"
                 PROVE  /\ ~Odd(rseq) /\ rseq < seq' /\ seq' - rseq < SeqMod
                        /\ ~Odd(seq')
      BY DEF ReaderInv
    <3>1. ~Odd(rseq) /\ rseq <= seq /\ seq + 1 - rseq < SeqMod
      BY <2>4 DEF ReaderInv
    <3>2. seq' = seq + 1 /\ ~Odd(seq')
      BY <2>4 DEF Odd
    <3> QED BY <3>1, <3>2
  <2>8. ShownInv'
    <3>1. snap[MagicWord] \in Nat /\ snap[MagicWord] <= last /\ last \in Nat
      BY <1>m DEF ShownInv
    <3>2. last' = pubs /\ pubs' = pubs /\ snap' = snap /\ last < pubs
      BY <2>4
    <3> QED BY <3>1, <3>2 DEF ShownInv
  <2> QED BY <2>1, <2>3, <2>6, <2>7, <2>8
<1>6. ASSUME NEW d \in Daemons, Exit(d) PROVE IInv'
  <2> USE <1>6 DEF Exit
  <2>1. OneWriter' /\ EvenMeansWhole' /\ ReaderInv' /\ ShownInv'
    BY DEF OneWriter, EvenMeansWhole, ReaderInv, ShownInv
  <2>2. \A e \in Daemons : WriterInv(e)'
    BY DEF WriterInv
  <2> QED BY <2>1, <2>2
<1>7. CASE Reading
  <2>1. OneWriter' /\ EvenMeansWhole' /\ \A e \in Daemons : WriterInv(e)'
    BY <1>7 DEF Reading, ReadSnapshot, LoadSeq, CopyWord, CheckSeq,
                OneWriter, EvenMeansWhole, WriterInv
  <2>2. CASE ReadSnapshot
    BY <2>1, <2>2 DEF ReadSnapshot, ReaderInv, ShownInv
  <2>3. CASE LoadSeq
    <3>1. ShownInv'
      BY <2>3 DEF LoadSeq, ShownInv
    <3>2. CASE Retry
      BY <2>1, <2>3, <3>1, <3>2 DEF LoadSeq, Retry, ReaderInv
    <3>3. CASE ~Odd(Load(seq)) /\ rpc' = "copy" /\ rseq' = seq /\ rtodo' = Words
      <4>1. ~Odd(seq)
        BY <3>3, LoadParity
      <4> QED BY <2>1, <2>3, <3>1, <3>3, <4>1, SeqAssumption DEF LoadSeq, ReaderInv
    <3> QED BY <2>3, <3>2, <3>3 DEF LoadSeq
  <2>4. ASSUME NEW w \in Words, CopyWord(w) PROVE IInv'
    <3>1. ShownInv'
      BY <2>4 DEF CopyWord, ShownInv
    <3>2. ReaderInv'
      <4>1. rseq = seq => mem[w] = last
        BY <2>4 DEF CopyWord, ReaderInv, EvenMeansWhole, Whole
      <4> QED BY <2>4, <4>1 DEF CopyWord, ReaderInv
    <3> QED BY <2>1, <3>1, <3>2
  <2>5. CASE CheckSeq
    <3>1. rpc' # "copy"
      BY <2>5 DEF CheckSeq, Retry
    <3>2. ShownInv'
      <4>1. CASE snap' = snap
        BY <2>5, <4>1 DEF CheckSeq, ShownInv
      <4>2. CASE SameSeq /\ snap' = cand
        <5>1. rseq = seq
          BY <2>5, <4>2, ModUnique, SeqAssumption DEF CheckSeq, SameSeq, Load, ReaderInv
        <5>2. \A w \in Words : cand[w] = last
          BY <2>5, <5>1 DEF CheckSeq, ReaderInv
        <5>3. cand = Whole(last) /\ cand[MagicWord] = last
          BY <5>2, <1>m DEF Whole
        <5> QED BY <2>5, <4>2, <5>3 DEF CheckSeq, ShownInv
      <4> QED BY <2>5, <4>1, <4>2 DEF CheckSeq
    <3> QED BY <2>1, <3>1, <3>2 DEF ReaderInv
  <2> QED BY <1>7, <2>2, <2>3, <2>4, <2>5 DEF Reading
<1>8. CASE UNCHANGED vars
  BY <1>8 DEF vars, OneWriter, WriterInv, EvenMeansWhole, ReaderInv, ShownInv
<1> QED
  BY <1>1, <1>2, <1>3, <1>4, <1>5, <1>6, <1>7, <1>8 DEF Next, Publishing

\* When stores become visible in program order and only launchd starts
\* daemons, the invariant holds throughout, for any number of words, daemons
\* and publications, with kills at any instruction.
THEOREM Safety == InOrder /\ LaunchdOnly => (Spec => []IInv)
<1> SUFFICES ASSUME InOrder, LaunchdOnly
             PROVE  Spec => []IInv
  OBVIOUS
<1>1. TypeOK /\ IInv /\ [Next]_vars => IInv'
  BY NextInv
<1> QED BY <1>1, InitInv, TypeCorrect, PTL DEF Spec

\* Under the same two conditions the overlay never shows a torn frame.
THEOREM TornFree == InOrder /\ LaunchdOnly => (Spec => []NoTornRead)
<1>1. IInv => NoTornRead
  BY DEF IInv, ShownInv, NoTornRead, IsWhole, Whole
<1> QED BY <1>1, Safety, PTL

(***************************************************************************)
(* The exchange implements the atomic one.                                 *)
(***************************************************************************)

\* Initially neither side holds anything.
LEMMA InitRefines == Init => Atomic!Init
  BY DEF Init, Atomic!Init, Atomic!Whole, Whole

\* Completing a publication replaces the abstract frame, accepting a
\* candidate takes it, and every other step changes neither.
LEMMA NextRefines ==
  ASSUME InOrder, LaunchdOnly, TypeOK, IInv, [Next]_vars
  PROVE  [Atomic!Next]_<<Whole(last), snap>>
<1> USE DEF TypeOK, writer, reader
<1>m. MagicWord \in Words
  BY WordsAssumption DEF Words
<1>1. ASSUME NEW d \in Daemons, EndPublish(d) PROVE Atomic!Publish
  <2>1. last < last' /\ last' \in Nat /\ snap' = snap
    BY <1>1 DEF EndPublish, IInv, WriterInv
  <2>2. Whole(last)' = [w \in Words |-> last'] /\ Whole(last) = [w \in Words |-> last]
    BY DEF Whole
  <2> QED BY <2>1, <2>2 DEF Atomic!Publish
<1>2. CASE CheckSeq
  <2>1. CASE snap' = snap
    BY <1>2, <2>1 DEF CheckSeq, Whole
  <2>2. CASE SameSeq /\ rtodo = {} /\ snap' = cand /\ cand[MagicWord] # 0
    <3>1. rseq = seq
      BY <1>2, <2>2, ModUnique, SeqAssumption
      DEF CheckSeq, SameSeq, Load, IInv, ReaderInv
    <3>2. \A w \in Words : cand[w] = last
      BY <1>2, <3>1, <2>2 DEF CheckSeq, IInv, ReaderInv
    <3>3. cand = Whole(last) /\ last # 0
      BY <3>2, <2>2, <1>m DEF Whole
    <3>4. Whole(last) # Whole(0)
      BY <3>3, <1>m DEF Whole
    <3>5. Whole(last)' = Whole(last)
      BY <1>2 DEF CheckSeq, Whole
    <3> QED BY <2>2, <3>3, <3>4, <3>5 DEF Atomic!Next, Atomic!Take, Atomic!Whole, Whole
  <2> QED BY <1>2, <2>1, <2>2 DEF CheckSeq
<1>3. ASSUME last' = last, snap' = snap
      PROVE  [Atomic!Next]_<<Whole(last), snap>>
  BY <1>3 DEF Whole
<1>4. ASSUME NEW d \in Daemons,
             \/ Start(d) \/ BeginPublish(d) \/ StoreOdd(d) \/ Exit(d)
             \/ \E w \in Words : StoreWord(d, w)
      PROVE  last' = last /\ snap' = snap
  BY <1>4 DEF Start, BeginPublish, StoreOdd, Exit, StoreWord
<1>5. ReadSnapshot \/ LoadSeq \/ (\E w \in Words : CopyWord(w)) \/ UNCHANGED vars
        => last' = last /\ snap' = snap
  BY DEF ReadSnapshot, LoadSeq, CopyWord, vars
<1> QED BY <1>1, <1>2, <1>3, <1>4, <1>5 DEF Next, Publishing, Reading, Atomic!Next

\* Every behaviour of the exchange is one of the atomic exchange: a frame the
\* overlay takes is the one whose publication was the last to complete.
THEOREM Refinement == InOrder /\ LaunchdOnly => (Spec => ImplementsAtomicFrame)
<1> SUFFICES ASSUME InOrder, LaunchdOnly
             PROVE  Spec => Atomic!Spec
  BY DEF ImplementsAtomicFrame
<1>1. TypeOK /\ IInv /\ [Next]_vars => [Atomic!Next]_<<Whole(last), snap>>
  BY NextRefines
<1>2. Spec => []IInv
  BY Safety
<1> QED BY <1>1, <1>2, InitRefines, TypeCorrect, PTL DEF Spec, Atomic!Spec
=============================================================================
