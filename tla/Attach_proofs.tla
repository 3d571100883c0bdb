---------------------------- MODULE Attach_proofs ----------------------------
(***************************************************************************)
(* The image taken for the executable, its slide and the addresses that    *)
(* are configured, for any number of images, launches and failed reads and *)
(* any width of addresses.  Limit stays what it is assumed to be, a number *)
(* of addresses: nothing depends on its being a power of two.              *)
(***************************************************************************)
EXTENDS Attach, TLAPS

LEMMA ModRange ==
  ASSUME NEW n \in Nat \ {0}, NEW m \in Int
  PROVE  m % n \in 0..(n - 1)
  BY SMT

LEMMA ModSmall ==
  ASSUME NEW n \in Nat \ {0}, NEW m \in 0..(n - 1)
  PROVE  m % n = m
  BY SMT

\* What an image is.
LEMMA AnImage ==
  ASSUME NEW i \in Image
  PROVE  i.exec \in BOOLEAN /\ i.at \in Bases /\ i.at \in 1..(Limit - 1) /\ i.at \in Int
<1>1. i.exec \in BOOLEAN /\ i.at \in Bases
  BY DEF Image
<1>2. i.at \in 1..(Limit - 1)
  BY <1>1, AddressAssumption
<1>3. Limit \in Int
  BY WidthAssumption
<1> QED BY <1>1, <1>2, <1>3

\* A slide is an address.
LEMMA SlideAddress == ASSUME NEW i \in Image PROVE slide_of(i) \in Address
<1>1. vmaddr(i) \in Int
  BY WidthAssumption DEF vmaddr
<1>2. i.at - vmaddr(i) \in Int
  BY <1>1, AnImage
<1>3. Limit \in Nat \ {0}
  BY WidthAssumption
<1> QED BY <1>2, <1>3, ModRange DEF slide_of, Address

\* An executable is loaded above where it prefers to be, so nothing wraps.
LEMMA SlideOfExecutable ==
  ASSUME NEW i \in Image, i.exec, i.at >= RvaLimit
  PROVE  slide_of(i) = i.at - RvaLimit
<1>1. i.at - RvaLimit \in 0..(Limit - 1)
  <2>1. i.at \in 1..(Limit - 1) /\ i.at \in Int
    BY AnImage
  <2> QED BY <2>1, WidthAssumption
<1>2. vmaddr(i) = RvaLimit
  BY DEF vmaddr
<1>3. Limit \in Nat \ {0}
  BY WidthAssumption
<1> QED BY <1>1, <1>2, <1>3, ModSmall DEF slide_of

(***************************************************************************)
(* The inductive invariant.                                                *)
(***************************************************************************)

Places == 1..Len(image)

\* The images: at different places, at most one executable, loaded where its
\* objects have addresses; and no list without an image.
Loaded ==
  /\ \A i, j \in Places : image[i].at = image[j].at => i = j
  /\ \A i, j \in Executable : i = j
  /\ \A i \in Places : image[i].exec => image[i].at >= RvaLimit /\ image[i].at + Rva < Limit
  /\ listed => image # <<>>

\* The loop has not passed an executable that it could read.
Looking ==
  /\ limit <= Len(image)
  /\ IF pc = "idle" THEN index = 1 ELSE limit >= 1
  /\ pc = "images" /\ ~lost => \A i \in Executable : i <= limit => index <= i

\* One of the images is taken, and its slide is the one that is kept.
Settled ==
  /\ pc \in {"header", "attached"} =>
       /\ \E i \in Places : image[i].at = base
       /\ ~lost => \A i \in Executable : i <= limit => base = image[i].at
  /\ pc = "attached" => \A i \in Places : image[i].at = base => slide = slide_of(image[i])

AInv == AttachTypeOK /\ Loaded /\ Looking /\ Settled

LEMMA AttachInit == Init => AInv
<1> SUFFICES ASSUME Init PROVE AInv
  OBVIOUS
<1>1. AttachTypeOK
  <2>1. 0 \in Address
    BY WidthAssumption DEF Address
  <2>2. image \in Seq(Image) /\ Len(image) <= Images
    BY AttachBoundsAssumption DEF Init
  <2>3. listed \in BOOLEAN /\ engine \in BOOLEAN /\ lost \in BOOLEAN /\ ready \in BOOLEAN
    BY DEF Init
  <2>4. /\ launches \in 0..MaxLaunches /\ edits \in 0..MaxEdits /\ fails \in 0..MaxFails
        /\ index \in 1..(Images + 1) /\ limit \in 0..MaxImages
    BY AttachBoundsAssumption DEF Init
  <2> QED BY <2>1, <2>2, <2>3, <2>4 DEF Init, AttachTypeOK
<1>2. Loaded /\ Looking /\ Settled
  BY DEF Init, Loaded, Looking, Settled, Places, Executable
<1> QED BY <1>1, <1>2 DEF AInv

(***************************************************************************)
(* The game's steps.                                                       *)
(***************************************************************************)

LEMMA LoadsKeeps == AInv /\ Loads => AInv'
<1> SUFFICES ASSUME AInv, Loads PROVE AInv'
  OBVIOUS
<1> USE DEF AInv
<1>1. PICK b \in Bases, x \in BOOLEAN :
        /\ \A i \in Places : image[i].at # b /\ ~(x /\ image[i].exec)
        /\ x => b >= RvaLimit /\ b + Rva < Limit
        /\ image' = Append(image, [at |-> b, exec |-> x])
  BY DEF Loads, Places
<1>2. image \in Seq(Image) /\ Len(image) < Images
  BY DEF AttachTypeOK, Loads
<1>3. [at |-> b, exec |-> x] \in Image
  BY DEF Image
<1>4. /\ image' \in Seq(Image) /\ Len(image') = Len(image) + 1
      /\ \A i \in Places : image'[i] = image[i]
      /\ image'[Len(image) + 1] = [at |-> b, exec |-> x]
  BY <1>1, <1>2, <1>3 DEF Places
<1>5. /\ Places' = Places \cup {Len(image) + 1}
      /\ Len(image) + 1 \notin Places
      /\ Len(image) \in Nat
  BY <1>2, <1>4 DEF Places
<1>6. AttachTypeOK'
  <2>1. launches' \in 0..MaxLaunches
    BY AttachBoundsAssumption DEF AttachTypeOK, Loads
  <2>2. listed' \in BOOLEAN
    BY DEF Loads
  <2>3. Len(image') <= Images
    BY <1>2, <1>4, <1>5, AttachBoundsAssumption
  <2> QED BY <1>4, <2>1, <2>2, <2>3 DEF AttachTypeOK, Loads, daemonVars, attemptVars, fileVars
<1>7. Loaded'
  <2>1. \A i \in Places : image'[i].at # image'[Len(image) + 1].at
    <3>1. image'[Len(image) + 1].at = b
      BY <1>4
    <3> QED BY <3>1, <1>1, <1>4
  <2>2. \A i, j \in Places' : image'[i].at = image'[j].at => i = j
    <3> TAKE i, j \in Places'
    <3>1. CASE i \in Places /\ j \in Places
      BY <3>1, <1>4 DEF Loaded
    <3>2. CASE i = Len(image) + 1 \/ j = Len(image) + 1
      BY <3>2, <2>1, <1>5
    <3> QED BY <3>1, <3>2, <1>5
  <2>3. ASSUME NEW i \in Places', image'[i].exec
        PROVE  image'[i].at >= RvaLimit /\ image'[i].at + Rva < Limit
    <3>1. CASE i \in Places
      BY <3>1, <2>3, <1>4 DEF Loaded
    <3>2. CASE i = Len(image) + 1
      <4>1. image'[i].at = b /\ image'[i].exec = x
        BY <3>2, <1>4
      <4> QED BY <4>1, <2>3, <1>1
    <3> QED BY <3>1, <3>2, <1>5
  <2>4. ~listed'
    BY DEF Loads
  <2>5. \A i, j \in Executable' : i = j
    <3> TAKE i, j \in Executable'
    <3>1. \A k \in Executable' : k \in Executable \/ (k = Len(image) + 1 /\ x)
      BY <1>4, <1>5 DEF Executable, Places
    <3>2. x => Executable = {}
      BY <1>1 DEF Executable, Places
    <3> QED BY <3>1, <3>2 DEF Loaded
  <2> QED BY <2>2, <2>3, <2>4, <2>5 DEF Loaded
<1>8. Looking'
  <2>1. Len(image) \in Nat /\ limit \in Nat
    BY <1>5, AttachBoundsAssumption DEF AttachTypeOK
  <2>2. ASSUME NEW i \in Executable', i <= limit PROVE i \in Executable
    BY <2>1, <2>2, <1>4, <1>5 DEF Executable, Looking, Places
  <2> QED BY <2>1, <2>2, <1>4 DEF Looking, Loads, daemonVars, attemptVars
<1>9. Settled'
  <2>1. Len(image) \in Nat /\ limit \in Nat
    BY <1>5, AttachBoundsAssumption DEF AttachTypeOK
  <2>2. ASSUME NEW i \in Executable', i <= limit PROVE i \in Executable /\ i \in Places
    BY <2>1, <2>2, <1>4, <1>5 DEF Executable, Looking, Places
  <2>3. pc \in {"header", "attached"} => b # base
    BY <1>1 DEF Settled
  <2>4. UNCHANGED <<pc, limit, base, slide, lost>>
    BY DEF Loads, daemonVars, attemptVars
  <2>5. ASSUME pc = "attached", NEW i \in Places', image'[i].at = base
        PROVE  slide = slide_of(image'[i])
    <3>1. i \in Places
      BY <2>3, <2>5, <1>4, <1>5
    <3> QED BY <3>1, <2>5, <1>4 DEF Settled
  <2> QED BY <2>2, <2>3, <2>4, <2>5, <1>4, <1>5 DEF Settled
<1> QED BY <1>6, <1>7, <1>8, <1>9

LEMMA ExitsKeeps == AInv /\ Exits => AInv'
<1> SUFFICES ASSUME AInv, Exits PROVE AInv'
  OBVIOUS
<1> USE DEF AInv
<1>1. AttachTypeOK'
  <2>1. 0 \in Address
    BY WidthAssumption DEF Address
  <2>2. image' \in Seq(Image) /\ Len(image') <= Images
    BY AttachBoundsAssumption DEF Exits
  <2>3. listed' \in BOOLEAN /\ engine' \in BOOLEAN /\ lost' \in BOOLEAN /\ ready' \in BOOLEAN
    BY DEF Exits
  <2>4. index' = 1 /\ limit' = 0
    BY DEF Exits
  <2>5. index' \in 1..(Images + 1) /\ limit' \in 0..MaxImages
    BY <2>4, AttachBoundsAssumption
  <2> QED BY <2>1, <2>2, <2>3, <2>5 DEF Exits, AttachTypeOK, fileVars
<1>2. Loaded' /\ Looking' /\ Settled'
  BY DEF Exits, Loaded, Looking, Settled, Places, Executable
<1> QED BY <1>1, <1>2

\* The steps that change neither the images nor what was taken of them.
LEMMA OthersKeep ==
  ASSUME AInv, Lists \/ EngineUp \/ Edits \/ NotReady \/ Initialised
  PROVE  AInv'
<1> USE DEF AInv
<1>1. UNCHANGED <<image, pc, index, limit, base, slide, lost>>
  BY DEF Lists, EngineUp, Edits, NotReady, Initialised, daemonVars, gameVars, attemptVars
<1>2. listed' => image # <<>>
  BY DEF Lists, EngineUp, Edits, NotReady, Initialised, Loaded, gameVars
<1>3. AttachTypeOK'
  <2>1. CASE Lists \/ EngineUp
    BY <2>1 DEF Lists, EngineUp, AttachTypeOK, daemonVars, attemptVars, fileVars
  <2>2. CASE Edits
    BY <2>2, AttachBoundsAssumption DEF Edits, AttachTypeOK, gameVars, attemptVars
  <2>3. CASE NotReady
    BY <2>3, AttachBoundsAssumption
    DEF NotReady, ReadFails, AttachTypeOK, gameVars, attemptVars, fileVars
  <2>4. CASE Initialised
    <3>1. PICK i \in Executable : objects' = image[i].at + Rva
      BY <2>4 DEF Initialised, TrueAddress
    <3>2. image[i] \in Image /\ i \in Places /\ image[i].exec
      BY DEF Executable, Places, AttachTypeOK
    <3>3. image[i].at \in Int /\ image[i].at >= RvaLimit /\ image[i].at + Rva < Limit
      BY <3>2, AnImage DEF Loaded
    <3>4. Limit \in Nat /\ RvaLimit \in Nat /\ Rva \in Nat
      BY WidthAssumption, AddressAssumption
    <3>5. objects' \in Address
      BY <3>1, <3>3, <3>4 DEF Address
    <3> QED BY <2>4, <3>5 DEF Initialised, AttachTypeOK, gameVars, attemptVars, fileVars
  <2> QED BY <2>1, <2>2, <2>3, <2>4
<1>4. Loaded'
  BY <1>1, <1>2 DEF Loaded, Places, Executable
<1>5. Looking' /\ Settled'
  BY <1>1 DEF Looking, Settled, Places, Executable
<1> QED BY <1>3, <1>4, <1>5

(***************************************************************************)
(* The daemon's steps.  None of them changes the images.                   *)
(***************************************************************************)

LEMMA ImagesStay ==
  ASSUME AInv, UNCHANGED gameVars
  PROVE  /\ Loaded' /\ Executable' = Executable /\ Places' = Places
         /\ Len(image) \in Nat /\ Len(image) <= Images
         /\ \A i \in Places : image[i] \in Image
BY DEF AInv, AttachTypeOK, gameVars, Loaded, Executable, Places

LEMMA BeginsKeeps == AInv /\ Begins => AInv'
<1> SUFFICES ASSUME AInv, Begins PROVE AInv'
  OBVIOUS
<1> USE DEF AInv
<1>1. Loaded' /\ Executable' = Executable /\ Len(image) \in Nat /\ Len(image) # 0
  <2>1. Len(image) # 0
    BY DEF Begins, Loaded, AttachTypeOK
  <2> QED BY <2>1, ImagesStay DEF Begins
<1>2. limit' \in 1..MaxImages /\ limit' <= Len(image)
  BY <1>1, AttachBoundsAssumption DEF Begins, AtMost
<1>3. AttachTypeOK'
  <2>1. limit' \in 0..MaxImages
    BY <1>2, AttachBoundsAssumption
  <2> QED BY <2>1 DEF Begins, AttachTypeOK, gameVars, fileVars
<1>4. Looking'
  <2>1. index' = 1
    BY DEF Begins, Looking
  <2>2. \A i \in Executable : 1 <= i
    BY DEF Executable
  <2> QED BY <1>1, <1>2, <2>1, <2>2 DEF Begins, Looking, gameVars
<1>5. Settled'
  BY DEF Begins, Settled
<1> QED BY <1>1, <1>3, <1>4, <1>5

LEMMA TakesKeeps == AInv /\ Takes => AInv'
<1> SUFFICES ASSUME AInv, Takes PROVE AInv'
  OBVIOUS
<1> USE DEF AInv
<1>1. /\ Loaded' /\ Executable' = Executable /\ Places' = Places
      /\ Len(image) \in Nat /\ Len(image) <= Images
  BY ImagesStay DEF Takes
<1>2. index \in Places /\ index \in Nat /\ limit \in Nat /\ image[index] \in Image
  BY <1>1, AttachBoundsAssumption DEF Takes, Looking, AttachTypeOK, Places
<1>3. CASE image[index].exec
  <2>1. base' = image[index].at /\ pc' = "header" /\ index' = index
    BY <1>3 DEF Takes, IsExecutable
  <2>2. AttachTypeOK'
    BY <1>2, <2>1, AnImage DEF Takes, AttachTypeOK, gameVars, fileVars
  <2>3. Looking'
    BY <1>1, <2>1 DEF Takes, Looking, gameVars
  <2>4. ASSUME ~lost, NEW i \in Executable, i <= limit PROVE i = index
    <3>1. index <= i /\ i \in Places /\ image[i].exec
      BY <2>4 DEF Looking, Takes, Executable, Places
    <3> QED BY <3>1, <1>2, <1>3 DEF Loaded, Executable, Places
  <2>5. Settled'
    BY <1>1, <1>2, <2>1, <2>4 DEF Takes, Settled, gameVars
  <2> QED BY <1>1, <2>2, <2>3, <2>5
<1>4. CASE ~image[index].exec
  <2>1. index' = index + 1 /\ UNCHANGED <<base, pc>>
    BY <1>4 DEF Takes, IsExecutable
  <2>2. index' \in 1..(Images + 1)
    BY <1>1, <1>2, <2>1, AttachBoundsAssumption DEF Places
  <2>3. AttachTypeOK'
    BY <2>1, <2>2 DEF Takes, AttachTypeOK, gameVars, fileVars
  <2>4. Looking'
    <3>1. ASSUME ~lost, NEW i \in Executable, i <= limit PROVE index + 1 <= i
      <4>1. index <= i /\ i # index /\ i \in Nat
        BY <3>1, <1>4 DEF Takes, Looking, Executable
      <4> QED BY <4>1, <1>2
    <3> QED BY <1>1, <2>1, <3>1 DEF Takes, Looking, gameVars
  <2>5. Settled'
    BY <2>1 DEF Takes, Settled
  <2> QED BY <1>1, <2>3, <2>4, <2>5
<1> QED BY <1>3, <1>4

LEMMA PassesOverKeeps == AInv /\ PassesOver => AInv'
<1> SUFFICES ASSUME AInv, PassesOver PROVE AInv'
  OBVIOUS
<1> USE DEF AInv
<1>1. /\ Loaded' /\ Executable' = Executable
      /\ Len(image) \in Nat /\ Len(image) <= Images
  BY ImagesStay DEF PassesOver
<1>2. index' \in 1..(Images + 1) /\ fails' \in 0..MaxFails
  BY <1>1, AttachBoundsAssumption DEF PassesOver, ReadFails, Looking, AttachTypeOK
<1>3. AttachTypeOK'
  BY <1>2 DEF PassesOver, AttachTypeOK, gameVars, fileVars
<1>4. Looking' /\ Settled'
  BY <1>1 DEF PassesOver, Looking, Settled, gameVars
<1> QED BY <1>1, <1>3, <1>4

LEMMA FallsBackKeeps == AInv /\ FallsBack => AInv'
<1> SUFFICES ASSUME AInv, FallsBack PROVE AInv'
  OBVIOUS
<1> USE DEF AInv
<1>1. /\ Loaded' /\ Executable' = Executable /\ Places' = Places
      /\ Len(image) \in Nat /\ \A i \in Places : image[i] \in Image
  BY ImagesStay DEF FallsBack
<1>2. 1 \in Places /\ index \in Nat /\ limit \in Nat
  BY <1>1, AttachBoundsAssumption DEF FallsBack, Looking, AttachTypeOK, Places
<1>3. AttachTypeOK'
  BY <1>1, <1>2, AnImage DEF FallsBack, AttachTypeOK, gameVars, fileVars
<1>4. Looking'
  BY <1>1 DEF FallsBack, Looking, gameVars
<1>5. ASSUME ~lost, NEW i \in Executable, i <= limit PROVE FALSE
  <2>1. index <= i /\ i \in Nat
    BY <1>5 DEF FallsBack, Looking, Executable
  <2> QED BY <2>1, <1>2, <1>5 DEF FallsBack
<1>6. Settled'
  BY <1>1, <1>2, <1>5 DEF FallsBack, Settled, gameVars
<1> QED BY <1>1, <1>3, <1>4, <1>6

LEMMA ReadsTextKeeps == AInv /\ ReadsText => AInv'
<1> SUFFICES ASSUME AInv, ReadsText PROVE AInv'
  OBVIOUS
<1> USE DEF AInv
<1>1. /\ Loaded' /\ Executable' = Executable /\ Places' = Places
      /\ \A i \in Places : image[i] \in Image
  BY ImagesStay DEF ReadsText
<1>2. Taken \in Places /\ image[Taken].at = base
  BY DEF Taken, Places, Settled, ReadsText
<1>3. AttachTypeOK'
  BY <1>1, <1>2, SlideAddress DEF ReadsText, AttachTypeOK, gameVars, fileVars
<1>4. Looking'
  BY <1>1 DEF ReadsText, Looking, gameVars
<1>5. ASSUME NEW i \in Places, image[i].at = base PROVE slide' = slide_of(image[i])
  BY <1>2, <1>5 DEF Loaded, ReadsText
<1>6. UNCHANGED <<image, base, limit, lost>> /\ pc = "header" /\ pc' = "attached"
  BY DEF ReadsText, gameVars
<1>7. Settled'
  <2>1. \A i \in Places' : image'[i].at = base' => slide' = slide_of(image'[i])
    BY <1>1, <1>5, <1>6
  <2> QED BY <1>1, <1>6, <2>1 DEF Settled
<1> QED BY <1>1, <1>3, <1>4, <1>7

LEMMA AttemptFailsKeeps == AInv /\ AttemptFails => AInv'
<1> SUFFICES ASSUME AInv, AttemptFails PROVE AInv'
  OBVIOUS
<1> USE DEF AInv
<1>1. Loaded' /\ Executable' = Executable /\ Len(image) \in Nat
  BY ImagesStay DEF AttemptFails
<1>2. fails' \in 0..MaxFails
  BY AttachBoundsAssumption DEF AttemptFails, ReadFails, AttachTypeOK
<1>3. 0 \in Address /\ 1 \in 1..(Images + 1) /\ 0 \in 0..MaxImages
  BY WidthAssumption, AttachBoundsAssumption DEF Address
<1>4. AttachTypeOK'
  BY <1>2, <1>3 DEF AttemptFails, GiveUp, AttachTypeOK, gameVars, fileVars
<1>5. Looking' /\ Settled'
  BY <1>1 DEF AttemptFails, GiveUp, Looking, Settled, gameVars
<1> QED BY <1>1, <1>4, <1>5

LEMMA AttachStep == AInv /\ [Next]_vars => AInv'
<1> SUFFICES ASSUME AInv, [Next]_vars PROVE AInv'
  OBVIOUS
<1>1. CASE Loads
  BY <1>1, LoadsKeeps
<1>2. CASE Exits
  BY <1>2, ExitsKeeps
<1>3. CASE Lists \/ EngineUp \/ Edits \/ NotReady \/ Initialised
  BY <1>3, OthersKeep
<1>4. CASE Begins
  BY <1>4, BeginsKeeps
<1>5. CASE Takes
  BY <1>5, TakesKeeps
<1>6. CASE PassesOver
  BY <1>6, PassesOverKeeps
<1>7. CASE FallsBack
  BY <1>7, FallsBackKeeps
<1>8. CASE ReadsText
  BY <1>8, ReadsTextKeeps
<1>9. CASE AttemptFails
  BY <1>9, AttemptFailsKeeps
<1>10. CASE UNCHANGED vars
  BY <1>10 DEF vars, gameVars, attemptVars, fileVars, AInv, AttachTypeOK, Loaded,
     Looking, Settled, Places, Executable
<1> QED BY <1>1, <1>2, <1>3, <1>4, <1>5, <1>6, <1>7, <1>8, <1>9, <1>10 DEF Next, Daemon

(***************************************************************************)
(* The theorems.                                                           *)
(***************************************************************************)

\* Whatever dyld, the reads and the user do, every variable keeps its type; the
\* slide that is computed modulo the number of addresses and the address of the
\* object array are addresses.
THEOREM AttachTypes == Spec => []AttachTypeOK
<1>1. AInv => AttachTypeOK
  BY DEF AInv
<1> QED BY AttachInit, AttachStep, <1>1, PTL DEF Spec

\* If no image went unread, the executable among the images looked at is taken,
\* with the slide it was loaded with (aslr_slide.c:103-126, 172).
THEOREM TakesExecutable == Spec => []BaseIsExecutable
<1>1. AInv => BaseIsExecutable
  <2> SUFFICES ASSUME AInv, pc = "attached", ~lost, NEW i \in Executable, i <= limit
               PROVE  base = image[i].at /\ slide = base - RvaLimit
    BY DEF BaseIsExecutable
  <2>1. i \in Places /\ image[i] \in Image /\ image[i].exec
    BY DEF AInv, AttachTypeOK, Executable, Places
  <2>2. base = image[i].at
    BY DEF AInv, Settled
  <2>3. slide = slide_of(image[i]) /\ image[i].at >= RvaLimit
    BY <2>1, <2>2 DEF AInv, Settled, Loaded
  <2> QED BY <2>1, <2>2, <2>3, SlideOfExecutable
<1> QED BY AttachInit, AttachStep, <1>1, PTL DEF Spec

\* The two ways to write an address down mean the same where the executable is
\* the image taken, up to the last address there is (config_address.h:7-13).
LEMMA SameAddress ==
  ASSUME NEW b \in Address, b >= RvaLimit, NEW r \in 0..(RvaLimit - 1)
  PROVE  LET there == IF b + r < Limit THEN b + r ELSE 0
         IN /\ config_runtime_address(RvaLimit + r, b, b - RvaLimit) = there
            /\ r # 0 => config_runtime_address(r, b, b - RvaLimit) = there
<1>1. Limit \in Nat /\ RvaLimit \in Nat \ {0} /\ b \in Nat /\ r \in Nat /\ r < RvaLimit
  BY WidthAssumption DEF Address
<1>2. RvaLimit + r >= RvaLimit /\ RvaLimit + r # 0 /\ ~(r >= RvaLimit)
  BY <1>1
<1>3. /\ (RvaLimit + r) + (b - RvaLimit) = b + r
      /\ (RvaLimit + r > Limit - 1 - (b - RvaLimit)) <=> ~(b + r < Limit)
      /\ (r > Limit - 1 - b) <=> ~(b + r < Limit)
      /\ r + b = b + r
  BY <1>1
<1> QED BY <1>2, <1>3 DEF config_runtime_address

THEOREM AddressesAgreeAlways == Spec => []AddressesAgree
<1>1. AInv => AddressesAgree
  <2> SUFFICES ASSUME AInv, pc = "attached", NEW i \in Executable, base = image[i].at,
                      NEW r \in 0..(RvaLimit - 1)
               PROVE  LET there == IF base + r < Limit THEN base + r ELSE 0
                      IN /\ config_runtime_address(RvaLimit + r, base, slide) = there
                         /\ r # 0 => config_runtime_address(r, base, slide) = there
    BY DEF AddressesAgree
  <2>1. i \in Places /\ image[i] \in Image /\ image[i].exec
    BY DEF AInv, AttachTypeOK, Executable, Places
  <2>2. slide = slide_of(image[i]) /\ image[i].at >= RvaLimit
    BY <2>1 DEF AInv, Settled, Loaded
  <2>3. slide = base - RvaLimit
    BY <2>1, <2>2, SlideOfExecutable
  <2>4. base \in Address /\ base >= RvaLimit
    BY <2>1, <2>2, AnImage DEF Address
  <2> QED BY <2>3, <2>4, SameAddress
<1> QED BY AttachInit, AttachStep, <1>1, PTL DEF Spec
=============================================================================
