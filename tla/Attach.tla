------------------------------- MODULE Attach -------------------------------
(***************************************************************************)
(* From a task port to a reader that is ready: aslr_get_slide looks for    *)
(* the game's executable among the images dyld lists, the configured       *)
(* addresses are turned into runtime addresses, and ue4r_init looks for    *)
(* the class of classes there.  The game is starting meanwhile: dyld adds  *)
(* images and withdraws its list while it does, the engine comes up later, *)
(* and reads fail.  Every attempt that fails is made again, but the image  *)
(* that was taken stays taken until the game exits.                        *)
(*                                                                         *)
(* Addresses are numbers of W bits.  The executable's preferred address is *)
(* RvaLimit (4 GiB), a library's is 0.                                     *)
(***************************************************************************)
EXTENDS Integers, FiniteSets, Sequences

CONSTANTS
  W,           \* bits of an address (64)
  RvaLimit,    \* configured values below are offsets (2^32)
  Rva,         \* where the executable has the object array, as an offset
  Configured,  \* what the config file may say of it; 0: nothing
  Known,       \* the offset taken if it says nothing
  Bases,       \* addresses images may be loaded at
  MaxImages,   \* images that are looked at (4096)
  Images,      \* bound on the images of a game
  MaxFails,    \* bound on failed reads
  MaxEdits,    \* bound on edits of the config file
  MaxLaunches  \* bound on launches of the game

\* The number of addresses.
Limit == 2 ^ W

ASSUME WidthAssumption == Limit \in Nat /\ RvaLimit \in Nat \ {0} /\ 2 * RvaLimit <= Limit
ASSUME AddressAssumption == /\ Bases \subseteq 1..(Limit - 1) /\ Rva \in 0..(RvaLimit - 1)
                            /\ Configured \subseteq 0..(Limit - 1) /\ Known \in 0..(RvaLimit - 1)
ASSUME AttachBoundsAssumption == /\ MaxImages \in Nat \ {0} /\ Images \in Nat \ {0}
                                 /\ MaxFails \in Nat /\ MaxEdits \in Nat /\ MaxLaunches \in Nat

VARIABLES
  image,    \* the images dyld has loaded: where, and whether executable
  listed,   \* the list can be read
  engine,   \* the engine has its classes and names
  launches,
  config,   \* what the config file says
  pc,       \* "idle", "images", "header" or "attached"
  index, limit,  \* the loop over the list
  base,     \* the image that is taken, 0: none
  slide,
  lost,     \* an image could not be read since the attempt began
  objects,  \* ctx->guobjectarray, while there is a context
  ready,    \* ue4r_ready
  fails,
  edits

gameVars == <<image, listed, engine, launches>>
attemptVars == <<index, limit, base, slide, lost>>
fileVars == <<config, edits>>
vars == <<gameVars, fileVars, pc, attemptVars, objects, ready, fails>>

Address == 0..(Limit - 1)
Image == [at : Bases, exec : BOOLEAN]

\* Where an image prefers to be: its __TEXT segment's vmaddr.
vmaddr(i) == IF i.exec THEN RvaLimit ELSE 0

Init ==
  /\ image = <<>> /\ listed = FALSE /\ engine = FALSE /\ launches = 0
  /\ config \in Configured
  /\ pc = "idle" /\ index = 1 /\ limit = 0 /\ base = 0 /\ slide = 0 /\ lost = FALSE
  /\ objects = 0 /\ ready = FALSE /\ fails = 0 /\ edits = 0

-----------------------------------------------------------------------------
(* The game.                                                               *)

daemonVars == <<fileVars, pc, attemptVars, objects, ready, fails>>

\* dyld loads an image: its list is withdrawn until it is complete again.  The
\* executable is slid up from where it prefers to be, and loaded once.
Loads ==
  /\ launches < MaxLaunches \/ image # <<>>
  /\ Len(image) < Images
  /\ \E b \in Bases, x \in BOOLEAN :
       /\ \A i \in 1..Len(image) : image[i].at # b /\ ~(x /\ image[i].exec)
       /\ x => b >= RvaLimit /\ b + Rva < Limit
       /\ image' = Append(image, [at |-> b, exec |-> x])
  /\ listed' = FALSE
  /\ launches' = IF image = <<>> THEN launches + 1 ELSE launches
  /\ UNCHANGED <<engine, daemonVars>>

Lists ==
  /\ image # <<>> /\ ~listed
  /\ listed' = TRUE
  /\ UNCHANGED <<image, engine, launches, daemonVars>>

Executable == {i \in 1..Len(image) : image[i].exec}

EngineUp ==
  /\ Executable # {} /\ listed /\ ~engine
  /\ engine' = TRUE
  /\ UNCHANGED <<image, listed, launches, daemonVars>>

\* The game exits; the radar loop sees it within a tick and ends.
Exits ==
  /\ image # <<>>
  /\ image' = <<>> /\ listed' = FALSE /\ engine' = FALSE
  /\ pc' = "idle" /\ index' = 1 /\ limit' = 0 /\ base' = 0 /\ slide' = 0 /\ lost' = FALSE
  /\ objects' = 0 /\ ready' = FALSE
  /\ UNCHANGED <<launches, fileVars, fails>>

-----------------------------------------------------------------------------
(* aslr_get_slide.                                                         *)

ReadFails == fails < MaxFails /\ fails' = fails + 1

AtMost(a, b) == IF a < b THEN a ELSE b

\* The attempt is given up; it is made again from the start.
GiveUp ==
  /\ pc' = "idle" /\ index' = 1 /\ limit' = 0 /\ base' = 0 /\ slide' = 0 /\ lost' = FALSE

\* infoArrayCount and infoArray; dyld clears the pointer while it adds images.
Begins ==
  /\ pc = "idle" /\ listed
  /\ limit' = AtMost(Len(image), MaxImages)
  /\ lost' = FALSE
  /\ pc' = "images"
  /\ UNCHANGED <<gameVars, fileVars, index, base, slide, objects, ready, fails>>

\* Fault for mutation: the file type is not looked at.
IsAnyImage(i) == TRUE

IsExecutable(i) == i.exec

\* An entry and its header: the first executable is taken.
Takes ==
  /\ pc = "images" /\ index <= limit
  /\ IF IsExecutable(image[index])
       THEN base' = image[index].at /\ pc' = "header" /\ UNCHANGED index
       ELSE index' = index + 1 /\ UNCHANGED <<base, pc>>
  /\ UNCHANGED <<gameVars, fileVars, limit, slide, lost, objects, ready, fails>>

PassesOver ==
  /\ pc = "images" /\ index <= limit
  /\ ReadFails
  /\ index' = index + 1 /\ lost' = TRUE
  /\ UNCHANGED <<gameVars, fileVars, pc, limit, base, slide, objects, ready>>

\* No executable was seen: the first entry is taken for it.
FallsBack ==
  /\ pc = "images" /\ index > limit
  /\ base' = image[1].at
  /\ pc' = "header"
  /\ UNCHANGED <<gameVars, fileVars, index, limit, slide, lost, objects, ready, fails>>

Taken == CHOOSE i \in 1..Len(image) : image[i].at = base

\* Fault for mutation: the slide is taken from the other side.
SlideOf(i) == (vmaddr(i) - i.at) % Limit

\* base - vmaddr, modulo Limit.
slide_of(i) == (i.at - vmaddr(i)) % Limit

\* The load commands up to __TEXT.
ReadsText ==
  /\ pc = "header"
  /\ slide' = slide_of(image[Taken])
  /\ pc' = "attached"
  /\ UNCHANGED <<gameVars, fileVars, index, limit, base, lost, objects, ready, fails>>

\* A read without which there is no going on: the attempt fails.
AttemptFails ==
  /\ pc \in {"images", "header"}
  /\ pc = "images" => index > limit
  /\ ReadFails
  /\ GiveUp
  /\ UNCHANGED <<gameVars, fileVars, objects, ready>>

-----------------------------------------------------------------------------
(* config_runtime_address and ue4r_init.                                   *)

\* Fault for mutation: the limit itself counts as an offset.
RuntimeAddressOff(value, b, s) ==
  LET adjustment == IF value > RvaLimit THEN s ELSE b
  IN IF value = 0 \/ value > Limit - 1 - adjustment THEN 0 ELSE value + adjustment

config_runtime_address(value, b, s) ==
  LET adjustment == IF value >= RvaLimit THEN s ELSE b
  IN IF value = 0 \/ value > Limit - 1 - adjustment THEN 0 ELSE value + adjustment

\* Fault for mutation: a preferred address is not slid but based.
ObjectsAddressBased ==
  IF config # 0 THEN config_runtime_address(config, base, base) ELSE (base + Known) % Limit

\* What the config says, and otherwise the offset that is known.
ObjectsAddress ==
  IF config # 0 THEN config_runtime_address(config, base, slide) ELSE (base + Known) % Limit

\* Where the engine really has its objects.
TrueAddress == {image[i].at + Rva : i \in Executable}

\* find_uclass_class sees the class of classes: the context is kept.
Initialised ==
  /\ pc = "attached" /\ ~ready
  /\ engine /\ ObjectsAddress \in TrueAddress
  /\ objects' = ObjectsAddress /\ ready' = TRUE
  /\ UNCHANGED <<gameVars, fileVars, pc, attemptVars, fails>>

\* It does not, because a read fails here: the context is thrown away and the
\* next lookup, 0.5 s later, makes another with the same base and slide and what
\* the file says then.  (Where the address is wrong or the engine is not up, the
\* lookup changes nothing that is kept.)
NotReady ==
  /\ pc = "attached" /\ ~ready
  /\ engine /\ ObjectsAddress \in TrueAddress
  /\ ReadFails
  /\ UNCHANGED <<gameVars, fileVars, pc, attemptVars, objects, ready>>

\* The user writes the config file.
Edits ==
  /\ edits < MaxEdits /\ edits' = edits + 1
  /\ config' \in Configured \ {config}
  /\ UNCHANGED <<gameVars, pc, attemptVars, objects, ready, fails>>

Daemon == \/ Begins \/ Takes \/ PassesOver \/ FallsBack \/ ReadsText \/ AttemptFails
          \/ Initialised \/ NotReady

Next == Loads \/ Lists \/ EngineUp \/ Exits \/ Edits \/ Daemon

Spec == Init /\ [][Next]_vars

\* The radar loop keeps trying, and dyld completes its list.
FairSpec == Spec /\ WF_vars(Daemon) /\ WF_vars(Lists)

-----------------------------------------------------------------------------
(* Properties.                                                             *)

\* Every variable keeps its type; in particular no address wraps around.
AttachTypeOK ==
  /\ image \in Seq(Image) /\ Len(image) <= Images
  /\ listed \in BOOLEAN /\ engine \in BOOLEAN /\ launches \in 0..MaxLaunches
  /\ config \in Configured /\ edits \in 0..MaxEdits
  /\ pc \in {"idle", "images", "header", "attached"}
  /\ index \in 1..(Images + 1) /\ limit \in 0..MaxImages
  /\ base \in Bases \cup {0} /\ slide \in Address /\ lost \in BOOLEAN
  /\ objects \in Address /\ ready \in BOOLEAN /\ fails \in 0..MaxFails

\* dyld may add images between the read of its count and the end of the search,
\* libraries may come before the executable, and the game may be launched again:
\* if no image went unread, an executable among those looked at is the image
\* taken, and the slide is the one it was loaded with (aslr_slide.c:103-126, 172).
BaseIsExecutable ==
  pc = "attached" /\ ~lost =>
    \A i \in Executable :
      i <= limit => base = image[i].at /\ slide = base - RvaLimit

\* Once the executable is taken, whatever the launch, an offset and the preferred
\* address it stands for configure the same runtime address, base + offset, and
\* none if there is no such address (config_address.h:7-13; the test
\* tests/sdk_regression.c:42-45 tries three values).
AddressesAgree ==
  pc = "attached" /\ (\E i \in Executable : base = image[i].at) =>
    \A r \in 0..(RvaLimit - 1) :
      LET there == IF base + r < Limit THEN base + r ELSE 0
      IN /\ config_runtime_address(RvaLimit + r, base, slide) = there
         /\ r # 0 => config_runtime_address(r, base, slide) = there

\* The file gives the object array, as an offset or as a preferred address, or
\* says nothing and the offset that is known is right.
WellConfigured ==
  \/ config \in {Rva, RvaLimit + Rva} /\ config # 0
  \/ config = 0 /\ Known = Rva

\* If the game stays up with a right config file, the reader becomes ready, unless
\* the first image had to stand in for an executable that was not seen: that one
\* is not looked for again before the game exits (radar_reader.c:573-585).
GetsReady ==
  <>[](engine /\ listed /\ WellConfigured)
    => <>[](ready \/ (pc = "attached" /\ \A i \in Executable : base # image[i].at))
=============================================================================
