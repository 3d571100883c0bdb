-------------------------- MODULE ClassRead_proofs --------------------------
(***************************************************************************)
(* Names and their cache, and the caps of paths and lists, for any number  *)
(* of fields, objects and names, any sizes, and whatever the game makes of *)
(* its links during a walk.                                                *)
(***************************************************************************)
EXTENDS ClassRead, FiniteSetTheorems, SequenceTheorems, TLAPS

(***************************************************************************)
(* What ue4r_resolve_name makes of a good cache.                           *)
(***************************************************************************)

NameStates == [cache : [Slots -> NameEntry \cup {None}], fails : 0..MaxFails,
               misread : SUBSET Misleading]

\* CacheRight of any state of the names: here a misread name has its length too.
Good(s) ==
  /\ s \in NameStates
  /\ \A k \in Slots : LET e == s.cache[k] IN
       e # None =>
         /\ e.key % CacheSize = k /\ e.suffix = <<>>
         /\ e.len = AtMost(LengthOf[e.key], Keep)
         /\ e.of = e.key \/ (e.of = None /\ e.key \in s.misread)

\* Right, of any state of the names.
RightIn(t, n, misread, whole) ==
  \/ ~whole /\ t = Unknown
  \/ IndexOf[n] \in misread
  \/ /\ t.of = IndexOf[n]
     /\ t.len >= AtMost(LengthOf[IndexOf[n]], Keep) /\ t.len <= LengthOf[IndexOf[n]]
     /\ t.suffix = Suffix(n) \/ (~whole /\ t.suffix = <<>>)

\* What one or more reads make of s.
Later(s, z) == s.fails <= z.fails /\ s.misread \subseteq z.misread

LEMMA Constants ==
  /\ Keep \in Nat \ {0} /\ Piece \in Nat /\ Keep <= Piece
  /\ CacheSize \in Nat \ {0} /\ MaxWalk \in Nat \ {0}
  /\ MaxDepth \in Nat /\ MaxChanges \in Nat /\ MaxFails \in Nat
BY PieceAssumption, SizesAssumption

LEMMA NameOf ==
  ASSUME NEW n \in Named
  PROVE  /\ IndexOf[n] \in Indices /\ LengthOf[IndexOf[n]] \in Nat \ {0}
         /\ IndexOf[n] % CacheSize \in Slots /\ Suffix(n) \in Seq(Nat)
<1>1. IndexOf[n] \in Indices /\ IndexOf[n] \in Nat /\ LengthOf[IndexOf[n]] \in Nat \ {0}
  BY NamesAssumption
<1>2. IndexOf[n] % CacheSize \in Slots
  BY <1>1, Constants DEF Slots
<1>3. NumberOf[n] \in Nat
  BY NamesAssumption
<1>4. Suffix(n) \in Seq(Nat)
  BY <1>3 DEF Suffix
<1> QED BY <1>1, <1>2, <1>4

\* A piece is at least what the cache keeps.
LEMMA Pieces ==
  ASSUME NEW p \in Nat \ {0}, NEW l \in Nat, p * Piece < l
  PROVE  /\ p * Piece \in Nat /\ AtMost(p * Piece, Keep) = AtMost(l, Keep)
         /\ p * Piece >= AtMost(l, Keep)
<1>1. p * Piece >= Piece /\ p * Piece \in Nat
  BY Constants
<1> DEFINE q == p * Piece
<1>2. q >= Piece /\ q \in Nat /\ q < l
  BY <1>1
<1> HIDE DEF q
<1>3. AtMost(q, Keep) = AtMost(l, Keep) /\ q >= AtMost(l, Keep)
  BY <1>2, Constants DEF AtMost
<1> QED BY <1>2, <1>3 DEF q

LEMMA FailedGood ==
  ASSUME NEW s, Good(s), ReadFails(s)
  PROVE  Good(Failed(s)) /\ Later(s, Failed(s)) /\ Failed(s).fails = s.fails + 1
<1>1. Failed(s).fails = s.fails + 1 /\ Failed(s).cache = s.cache /\ Failed(s).misread = s.misread
  BY DEF Failed, Good, NameStates
<1>2. s.fails \in 0..MaxFails /\ s.fails < MaxFails
  BY DEF Good, NameStates, ReadFails
<1>3. Failed(s) \in NameStates
  BY <1>2, Constants DEF Failed, Good, NameStates
<1> QED BY <1>1, <1>2, <1>3, Constants DEF Good, Later

LEMMA MisreadGood ==
  ASSUME NEW s, Good(s), NEW i \in Misleading
  PROVE  LET z == [s EXCEPT !.misread = @ \cup {i}]
         IN Good(z) /\ Later(s, z) /\ z.fails = s.fails /\ i \in z.misread
<1> DEFINE z == [s EXCEPT !.misread = @ \cup {i}]
<1>1. z \in NameStates /\ z.misread = s.misread \cup {i} /\ z.cache = s.cache /\ z.fails = s.fails
  BY DEF Good, NameStates
<1>2. s.fails \in Nat
  BY Constants DEF Good, NameStates
<1> HIDE DEF z
<1>3. Good(z)
  BY <1>1 DEF Good
<1> QED BY <1>1, <1>2, <1>3 DEF Later, z

LEMMA CachedGood ==
  ASSUME NEW s, Good(s), NEW n \in Named, NEW of \in Indices \cup {None}, NEW len \in Nat,
         AtMost(len, Keep) = AtMost(LengthOf[IndexOf[n]], Keep),
         of = IndexOf[n] \/ (of = None /\ IndexOf[n] \in s.misread)
  PROVE  LET z == Cached(s, n, of, len)
         IN Good(z) /\ Later(s, z) /\ z.fails = s.fails /\ z.misread = s.misread
<1> DEFINE e == [key |-> IndexOf[n], of |-> of, len |-> AtMost(len, Keep), suffix |-> <<>>]
           h == IndexOf[n] % CacheSize
           z == Cached(s, n, of, len)
<1>1. h \in Slots /\ IndexOf[n] \in Indices
  BY NameOf
<1>2. e \in NameEntry
  <2>1. AtMost(len, Keep) \in 0..Keep
    BY Constants DEF AtMost
  <2> QED BY <1>1, <2>1 DEF NameEntry
<1>3. z = [s EXCEPT !.cache[h] = e]
  BY DEF Cached
<1>4. /\ z.fails = s.fails /\ z.misread = s.misread
      /\ z.cache = [s.cache EXCEPT ![h] = e]
  BY <1>3 DEF Good, NameStates
<1>5. s.cache \in [Slots -> NameEntry \cup {None}] /\ s.fails \in Nat
  BY Constants DEF Good, NameStates
<1>6. z \in NameStates
  BY <1>1, <1>2, <1>3, <1>5 DEF Good, NameStates
<1>7. /\ e.key % CacheSize = h /\ e.suffix = <<>>
      /\ e.len = AtMost(LengthOf[e.key], Keep)
      /\ e.of = e.key \/ (e.of = None /\ e.key \in s.misread)
  OBVIOUS
<1> HIDE DEF e, h, z
<1>8. Good(z)
  BY <1>1, <1>4, <1>5, <1>6, <1>7 DEF Good
<1> QED BY <1>4, <1>5, <1>8 DEF Later, z

\* What comes out for n, where s was before.
Resolved(s, n, r) ==
  /\ Good(r.names) /\ Later(s, r.names) /\ r.text \in Text
  /\ RightIn(r.text, n, r.names.misread, r.names.fails = s.fails)
  /\ r.text.of \in {IndexOf[n], None}

LEMMA HitRight ==
  ASSUME NEW s, Good(s), NEW n \in Named, Hit(s, n), NEW r \in FromCache(s, n)
  PROVE  Resolved(s, n, r)
<1> DEFINE e == s.cache[IndexOf[n] % CacheSize]
           T(x) == [of |-> e.of, len |-> e.len, suffix |-> e.suffix \o x]
<1>1. /\ e.key = IndexOf[n] /\ e.suffix = <<>>
      /\ e.len = AtMost(LengthOf[IndexOf[n]], Keep)
      /\ e.of = IndexOf[n] \/ (e.of = None /\ IndexOf[n] \in s.misread)
      /\ e.of \in Indices \cup {None}
  BY NameOf DEF Hit, Good, NameStates, NameEntry
<1>2. \/ r = [text |-> T(Suffix(n)), names |-> s]
      \/ r = [text |-> T(<<>>), names |-> Failed(s)] /\ ReadFails(s)
  BY DEF FromCache
<1>3. /\ <<>> \o Suffix(n) = Suffix(n) /\ <<>> \o <<>> = <<>>
      /\ Suffix(n) \in Seq(Nat) /\ <<>> \in Seq(Nat)
  BY NameOf
<1>4. /\ AtMost(LengthOf[IndexOf[n]], Keep) <= LengthOf[IndexOf[n]]
      /\ AtMost(LengthOf[IndexOf[n]], Keep) \in Nat
  BY NameOf, Constants DEF AtMost
<1>5. s.fails \in Nat /\ s.fails + 1 # s.fails /\ Later(s, s)
  BY Constants DEF Good, NameStates, Later
<1>6. r.text \in Text
  <2>1. e.len \in Nat /\ e.suffix \o Suffix(n) \in Seq(Nat) /\ e.suffix \o <<>> \in Seq(Nat)
    BY <1>1, <1>3, <1>4
  <2>2. T(Suffix(n)) \in Text /\ T(<<>>) \in Text
    BY <1>1, <2>1 DEF Text
  <2> HIDE DEF e, T
  <2>3. r.text = T(Suffix(n)) \/ r.text = T(<<>>)
    <3>1. CASE r = [text |-> T(Suffix(n)), names |-> s]
      BY <3>1
    <3>2. CASE r = [text |-> T(<<>>), names |-> Failed(s)]
      BY <3>2
    <3> QED BY <1>2, <3>1, <3>2
  <2> QED BY <2>2, <2>3
<1>7. CASE r = [text |-> T(Suffix(n)), names |-> s]
  <2>1. r.text.of = e.of /\ r.text.len = e.len /\ r.text.suffix = Suffix(n) /\ r.names = s
    BY <1>1, <1>3, <1>7
  <2> QED BY <1>1, <1>4, <1>5, <1>6, <2>1 DEF RightIn, Resolved
<1>8. CASE r = [text |-> T(<<>>), names |-> Failed(s)] /\ ReadFails(s)
  <2>1. r.text.of = e.of /\ r.text.len = e.len /\ r.text.suffix = <<>> /\ r.names = Failed(s)
    BY <1>1, <1>3, <1>8
  <2>2. Good(Failed(s)) /\ Later(s, Failed(s)) /\ Failed(s).fails = s.fails + 1
    BY <1>8, FailedGood
  <2> QED BY <1>1, <1>4, <1>5, <1>6, <2>1, <2>2 DEF RightIn, Later, Resolved
<1> QED BY <1>2, <1>7, <1>8

LEMMA TableRight ==
  ASSUME NEW s, Good(s), NEW n \in Named, NEW r \in FromTable(s, n)
  PROVE  Resolved(s, n, r)
<1> DEFINE i == IndexOf[n]
           F == Failed(s)
           l == LengthOf[i]
<1>1. i \in Indices /\ l \in Nat \ {0} /\ Suffix(n) \in Seq(Nat) /\ <<>> \in Seq(Nat)
  BY NameOf
<1>2. /\ AtMost(l, Keep) <= l /\ l <= l
  BY <1>1, Constants DEF AtMost
<1>3. s.fails \in Nat /\ s.fails + 1 # s.fails
  BY Constants DEF Good, NameStates
<1>4. ReadFails(s) => Good(F) /\ Later(s, F) /\ F.fails = s.fails + 1
  BY FailedGood
<1>5. CASE r = [text |-> [of |-> i, len |-> l, suffix |-> Suffix(n)], names |-> Cached(s, n, i, l)]
  <2>1. LET z == Cached(s, n, i, l)
        IN Good(z) /\ Later(s, z) /\ z.fails = s.fails /\ z.misread = s.misread
    BY <1>1, CachedGood
  <2>2. /\ r.text.of = i /\ r.text.len = l /\ r.text.suffix = Suffix(n)
        /\ r.names = Cached(s, n, i, l) /\ r.text \in Text
    BY <1>1, <1>5 DEF Text
  <2> QED BY <1>2, <2>1, <2>2 DEF Resolved, RightIn
<1>6. CASE ReadFails(s) /\ r = [text |-> [of |-> i, len |-> l, suffix |-> <<>>],
                                names |-> Cached(F, n, i, l)]
  <2>1. LET z == Cached(F, n, i, l)
        IN Good(z) /\ Later(F, z) /\ z.fails = F.fails /\ z.misread = F.misread
    BY <1>1, <1>4, <1>6, CachedGood
  <2>2. /\ r.text.of = i /\ r.text.len = l /\ r.text.suffix = <<>>
        /\ r.names = Cached(F, n, i, l) /\ r.text \in Text
    BY <1>1, <1>6 DEF Text
  <2> QED BY <1>2, <1>3, <1>4, <1>6, <2>1, <2>2 DEF Resolved, RightIn, Later
<1>7. ASSUME ReadFails(s), NEW p \in Nat \ {0}, p * Piece < l,
             r = [text |-> [of |-> i, len |-> p * Piece, suffix |-> Suffix(n)],
                  names |-> Cached(F, n, i, p * Piece)]
      PROVE  Resolved(s, n, r)
  <2>1. /\ p * Piece \in Nat /\ AtMost(p * Piece, Keep) = AtMost(l, Keep)
        /\ p * Piece >= AtMost(l, Keep) /\ p * Piece <= l
    <3> DEFINE q == p * Piece
    <3>1. q \in Nat /\ AtMost(q, Keep) = AtMost(l, Keep) /\ q >= AtMost(l, Keep)
      BY <1>1, <1>7, Pieces
    <3>2. q < l
      BY <1>7
    <3> HIDE DEF q, l
    <3>3. q <= l
      BY <1>1, <3>1, <3>2
    <3> QED BY <3>1, <3>3 DEF q
  <2>2. LET z == Cached(F, n, i, p * Piece)
        IN Good(z) /\ Later(F, z) /\ z.fails = F.fails /\ z.misread = F.misread
    BY <1>1, <1>4, <1>7, <2>1, CachedGood
  <2>3. /\ r.text.of = i /\ r.text.len = p * Piece /\ r.text.suffix = Suffix(n)
        /\ r.names = Cached(F, n, i, p * Piece) /\ r.text \in Text
    BY <1>1, <1>7, <2>1 DEF Text
  <2> QED BY <1>3, <1>4, <1>7, <2>1, <2>2, <2>3 DEF Resolved, RightIn, Later
<1>8. CASE /\ ReadFails(s) /\ i \in Misleading
           /\ r = [text |-> [of |-> None, len |-> l, suffix |-> Suffix(n)],
                   names |-> Cached([F EXCEPT !.misread = @ \cup {i}], n, None, l)]
  <2> DEFINE z == [F EXCEPT !.misread = @ \cup {i}]
  <2>1. Good(z) /\ Later(F, z) /\ z.fails = F.fails /\ i \in z.misread
    BY <1>4, <1>8, MisreadGood
  <2>2. r.names = Cached(z, n, None, l) /\ r.text \in Text
    BY <1>1, <1>8 DEF Text
  <2> HIDE DEF z
  <2>3. LET y == Cached(z, n, None, l)
        IN Good(y) /\ Later(z, y) /\ y.fails = z.fails /\ y.misread = z.misread
    BY <1>1, <2>1, CachedGood
  <2> QED BY <1>3, <1>4, <1>8, <2>1, <2>2, <2>3 DEF Resolved, RightIn, Later
<1> QED BY <1>5, <1>6, <1>7, <1>8 DEF FromTable

\* Whatever is in the cache and whichever read fails: the cache stays good, and
\* the name that comes out is the object's own.
LEMMA ResolveRight ==
  ASSUME NEW s, Good(s), NEW n \in Named, NEW r \in ue4r_resolve_name(s, n)
  PROVE  Resolved(s, n, r)
<1>1. CASE r \in Unread(s, n) /\ ReadFails(s)
  <2>1. r.text = Unknown /\ r.names = Failed(s) /\ Unknown \in Text
    BY <1>1 DEF Unread, Unknown, Text
  <2>2. Good(Failed(s)) /\ Later(s, Failed(s)) /\ Failed(s).fails = s.fails + 1 /\ s.fails \in Nat
    BY <1>1, FailedGood, Constants DEF Good, NameStates
  <2>3. Unknown.of = None
    BY DEF Unknown
  <2> QED BY <2>1, <2>2, <2>3 DEF Resolved, RightIn
<1>2. CASE Hit(s, n) /\ r \in FromCache(s, n)
  BY <1>2, HitRight
<1>3. CASE r \in FromTable(s, n)
  BY <1>3, TableRight
<1> QED BY <1>1, <1>2, <1>3 DEF ue4r_resolve_name

\* A slot that garbage takes.
LEMMA EmptiedGood ==
  ASSUME NEW s, Good(s), NEW i \in Slots
  PROVE  LET z == [s EXCEPT !.cache[i] = None] IN Good(z) /\ Later(s, z)
<1> DEFINE z == [s EXCEPT !.cache[i] = None]
<1>1. s.cache \in [Slots -> NameEntry \cup {None}] /\ s.fails \in Nat
  BY Constants DEF Good, NameStates
<1>2. z.fails = s.fails /\ z.misread = s.misread /\ z.cache = [s.cache EXCEPT ![i] = None]
  BY DEF Good, NameStates
<1>3. z \in NameStates
  BY <1>1 DEF Good, NameStates
<1> HIDE DEF z
<1>4. \A k \in Slots : z.cache[k] = None \/ z.cache[k] = s.cache[k]
  BY <1>1, <1>2
<1>5. Good(z)
  BY <1>2, <1>3, <1>4 DEF Good
<1> QED BY <1>1, <1>2, <1>5 DEF Later, z

\* Whatever bits are taken for a name.
LEMMA GarbageGood ==
  ASSUME NEW s, Good(s), NEW r \in Garbage(s)
  PROVE  Good(r.names) /\ Later(s, r.names)
<1>1. Later(s, s)
  BY Constants DEF Good, NameStates, Later
<1>2. ASSUME NEW n \in Named, r \in ue4r_resolve_name(s, n)
      PROVE  Good(r.names) /\ Later(s, r.names)
  BY <1>2, ResolveRight DEF Resolved
<1>3. ASSUME NEW t \in Evicting(s), r = [text |-> Unknown, names |-> t]
      PROVE  Good(r.names) /\ Later(s, r.names)
  <2>1. r.names = t
    BY <1>3
  <2>2. CASE t = s
    BY <1>1, <2>1, <2>2
  <2>3. ASSUME NEW i \in Slots, t = [s EXCEPT !.cache[i] = None] PROVE Good(t) /\ Later(s, t)
    BY <2>3, EmptiedGood
  <2> QED BY <2>1, <2>2, <2>3 DEF Evicting
<1>4. CASE r \in UNION {ue4r_resolve_name(s, n) : n \in Named}
  BY <1>2, <1>4
<1>5. CASE r \in {[text |-> Unknown, names |-> t] : t \in Evicting(s)}
  BY <1>3, <1>5
<1>6. \/ r \in UNION {ue4r_resolve_name(s, n) : n \in Named}
      \/ r \in {[text |-> Unknown, names |-> t] : t \in Evicting(s)}
  BY DEF Garbage
<1> QED BY <1>4, <1>5, <1>6

\* A link that is followed, or does not read.
LEMMA FollowGood ==
  ASSUME NEW s, Good(s), NEW p, NEW o \in Follow(s, p)
  PROVE  Good(o.names) /\ Later(s, o.names) /\ o.to \in {p, None}
<1>1. \/ o = [to |-> p, names |-> s]
      \/ o = [to |-> None, names |-> Failed(s)] /\ ReadFails(s)
  BY DEF Follow
<1>2. Later(s, s)
  BY Constants DEF Good, NameStates, Later
<1> QED BY <1>1, <1>2, FailedGood

(***************************************************************************)
(* The inductive invariant.                                                *)
(***************************************************************************)

Items == [at : Fields, ufield : {TRUE}, name : Text] \cup [at : Fields, ufield : {FALSE}]

\* Where the walk is, and how far what it built has come.
Shape ==
  /\ pc \in {"path", "to super", "super", "to properties", "properties",
             "to functions", "functions", "done"}
  /\ ptr \in IF Building THEN Objects ELSE Fields \cup {None}
  /\ count \in Nat
  /\ path \in [{"path", "super"} -> Seq(Text)]
  /\ list \in [{"properties", "functions"} -> Seq(Items)]
  /\ \A w \in {"path", "super"} : Len(path[w]) <= MaxDepth + 2
  /\ \A w \in {"properties", "functions"} : Len(list[w]) <= MaxWalk
  /\ Building => count <= MaxDepth + 1 /\ Len(path[pc]) = count
  /\ pc \in {"path", "to super"} => path["super"] = <<>>
  /\ pc \in {"to super", "to properties", "to functions"} => count = 0
  /\ pc \in {"path", "to super", "super", "to properties"} => list["properties"] = <<>>
  /\ pc \notin {"functions", "done"} => list["functions"] = <<>>
  /\ pc \in {"properties", "functions"} => Len(list[pc]) <= count

GameTypes == memory \in Memory /\ changes \in 0..MaxChanges

CInv == GameTypes /\ steady \in BOOLEAN /\ Good(names) /\ Shape /\ NamesRight

LEMMA CInvTypes == CInv => ClassTypeOK /\ CacheRight
<1> SUFFICES ASSUME CInv PROVE ClassTypeOK /\ CacheRight
  OBVIOUS
<1>1. CacheRight
  BY DEF CInv, Good, CacheRight
<1>2. DOMAIN path = {"path", "super"} /\ DOMAIN list = {"properties", "functions"}
  BY DEF CInv, Shape
<1>3. ClassTypeOK
  BY <1>2 DEF CInv, GameTypes, Good, NameStates, Shape, ClassTypeOK
<1> QED BY <1>1, <1>3

\* A name that is right stays right when more reads fail or misread.
LEMMA StaysRight ==
  ASSUME NEW t, NEW n, Right(t, n), Later(names, names'), steady' => steady
  PROVE  Right(t, n)'
BY DEF Right, Later

LEMMA ClassInit == Init => CInv
<1> SUFFICES ASSUME Init PROVE CInv
  OBVIOUS
<1>1. GameTypes /\ steady \in BOOLEAN
  BY MemoriesAssumption, Constants DEF Init, GameTypes
<1>2. Good(names)
  BY Constants DEF Init, Good, NameStates
<1>3. Shape
  BY ClassAssumption, Constants DEF Init, Shape, Building, EmptyPaths, EmptyLists
<1>4. NamesRight
  BY DEF Init, NamesRight, EmptyLists
<1> QED BY <1>1, <1>2, <1>3, <1>4 DEF CInv

LEMMA GameKeeps == CInv /\ Game => CInv'
<1> SUFFICES ASSUME CInv, Game PROVE CInv'
  OBVIOUS
<1>1. UNCHANGED readVars /\ changes' \in 0..MaxChanges /\ steady' = FALSE
  <2>1. changes < MaxChanges /\ changes' = changes + 1 /\ UNCHANGED readVars /\ steady' = FALSE
    BY DEF Game, FieldReused, ObjectReused
  <2>2. changes \in 0..MaxChanges
    BY DEF CInv, GameTypes
  <2> QED BY <2>1, <2>2, Constants
<1>2. memory' \in Memory
  <2>1. memory \in Memory
    BY DEF CInv, GameTypes
  <2>2. ASSUME NEW f \in Fields, NEW k \in Kinds, NEW n \in Fields \cup {None},
               memory' = [memory EXCEPT !.kind[f] = k, !.next[f] = n]
        PROVE  memory' \in Memory
    BY <2>1, <2>2 DEF Memory
  <2>3. ASSUME NEW o \in Objects, NEW n \in Objects \cup {None}, NEW u \in Supers, NEW t \in Starts,
               memory' = IF o = Class
                         THEN [memory EXCEPT !.outer[o] = n, !.super = u, !.start = t]
                         ELSE [memory EXCEPT !.outer[o] = n]
        PROVE  memory' \in Memory
    <3>1. /\ u \in [SuperPointers -> Objects \cup {None}]
          /\ t \in [StartPointers -> Fields \cup {None}]
      BY MemoriesAssumption
    <3>2. CASE o = Class
      BY <2>1, <2>3, <3>1, <3>2 DEF Memory
    <3>3. CASE o # Class
      BY <2>1, <2>3, <3>3 DEF Memory
    <3> QED BY <3>2, <3>3
  <2> QED BY <2>2, <2>3 DEF Game, FieldReused, ObjectReused
<1>3. Shape' /\ Good(names)'
  BY <1>1 DEF readVars, CInv, Shape, Building, Good
<1>4. NamesRight'
  <2>1. Later(names, names')
    BY <1>1, Constants DEF readVars, CInv, Good, NameStates, Later
  <2> QED BY <1>1, <2>1, StaysRight DEF readVars, CInv, NamesRight
<1> QED BY <1>1, <1>2, <1>3, <1>4 DEF CInv, GameTypes

(***************************************************************************)
(* Going on to what comes next.                                            *)
(***************************************************************************)

LEMMA GoOnShape ==
  ASSUME CInv, pc # "done", GoOn,
         path' \in [{"path", "super"} -> Seq(Text)],
         \A w \in {"path", "super"} : Len(path'[w]) <= MaxDepth + 2,
         pc = "path" => path'["super"] = <<>>,
         UNCHANGED list, pc \notin {"to properties", "to functions"}
  PROVE  Shape'
<1>1. /\ pc' \in {"to super", "to properties", "to functions", "done"} /\ count' = 0 /\ ptr' = None
      /\ pc' = "to super" <=> pc = "path"
      /\ pc' = "to properties" <=> pc \in {"to super", "super"}
      /\ pc' = "to functions" <=> pc = "properties"
  BY DEF CInv, Shape, GoOn, After
<1>2. list \in [{"properties", "functions"} -> Seq(Items)]
      /\ \A w \in {"properties", "functions"} : Len(list[w]) <= MaxWalk
  BY DEF CInv, Shape
<1>3. pc' \in {"to super", "to properties"} => list["properties"] = <<>>
  BY <1>1 DEF CInv, Shape, Building
<1>4. pc' # "done" => list["functions"] = <<>>
  BY <1>1 DEF CInv, Shape
<1> QED BY <1>1, <1>2, <1>3, <1>4 DEF Shape, Building

(***************************************************************************)
(* The steps of the reader.                                                *)
(***************************************************************************)

\* What reads that come to z make of the names and of steady.
LEMMA ReadsKeep ==
  ASSUME CInv, NEW z, Good(z), Later(names, z), Reads(z)
  PROVE  /\ Good(names)' /\ steady' \in BOOLEAN /\ Later(names, names') /\ (steady' => steady)
         /\ names' = z /\ (steady' => z.fails = names.fails)
<1>1. names' = z /\ steady' = (steady /\ z.fails = names.fails)
  BY DEF Reads
<1>2. Good(names)'
  BY <1>1 DEF Good
<1> QED BY <1>1, <1>2

\* Reads follow one another.
LEMMA LaterStill ==
  ASSUME NEW s, NEW y, NEW z, Good(s), Good(y), Good(z), Later(s, y), Later(y, z)
  PROVE  Later(s, z) /\ (z.fails = s.fails => y.fails = s.fails)
<1>1. s.fails \in Nat /\ y.fails \in Nat /\ z.fails \in Nat
  BY Constants DEF Good, NameStates
<1> QED BY <1>1 DEF Later

\* An entry that is added under its own name.
LEMMA AddedRight ==
  ASSUME CInv, NEW w \in {"properties", "functions"}, NEW e \in Items,
         list' = [list EXCEPT ![w] = Append(@, e)],
         e.ufield => Right(e.name, e.at)', Later(names, names'), steady' => steady
  PROVE  /\ NamesRight'
         /\ list' \in [{"properties", "functions"} -> Seq(Items)]
         /\ Len(list'[w]) = Len(list[w]) + 1
         /\ \A v \in {"properties", "functions"} : v # w => list'[v] = list[v]
<1>1. list \in [{"properties", "functions"} -> Seq(Items)]
  BY DEF CInv, Shape
<1>2. /\ list' \in [{"properties", "functions"} -> Seq(Items)]
      /\ list'[w] = Append(list[w], e) /\ Len(list'[w]) = Len(list[w]) + 1
      /\ \A v \in {"properties", "functions"} : v # w => list'[v] = list[v]
  BY <1>1
<1>3. ASSUME NEW v \in {"properties", "functions"}, NEW i \in 1..Len(list'[v])
      PROVE  list'[v][i].ufield => Right(list[v][i].name, list[v][i].at)'
  <2>1. CASE v # w \/ i <= Len(list[w])
    <3>1. list'[v][i] = list[v][i] /\ i \in 1..Len(list[v])
      BY <1>1, <1>2, <1>3, <2>1
    <3>2. list[v][i].ufield => Right(list[v][i].name, list[v][i].at)
      BY <3>1, <1>1 DEF CInv, NamesRight
    <3> DEFINE t == list[v][i].name
               n == list[v][i].at
    <3>3. list'[v][i].ufield => Right(t, n)
      BY <3>1, <3>2
    <3>4. list'[v][i].name = t /\ list'[v][i].at = n
      BY <3>1
    <3> HIDE DEF t, n
    <3> QED BY <3>3, <3>4 DEF Right, Later
  <2>2. CASE v = w /\ i = Len(list[w]) + 1
    <3>1. list'[v][i] = e
      BY <1>1, <1>2, <2>2
    <3> QED BY <3>1 DEF Right
  <2> QED BY <1>1, <1>2, <2>1, <2>2
<1>4. DOMAIN list' = {"properties", "functions"}
  BY <1>2
<1> QED BY <1>2, <1>3, <1>4 DEF NamesRight

\* Lists that stay stay right.
LEMMA UnaddedRight ==
  ASSUME CInv, UNCHANGED list, Later(names, names'), steady' => steady
  PROVE  NamesRight'
BY StaysRight DEF CInv, NamesRight

LEMMA OuterNameKeeps == CInv /\ OuterName => CInv'
<1> SUFFICES ASSUME CInv, OuterName PROVE CInv'
  OBVIOUS
<1>1. PICK r \in ue4r_resolve_name(names, ptr) : \E o \in Follow(r.names, memory.outer[ptr]) :
        /\ path' = [path EXCEPT ![pc] = Append(@, r.text)]
        /\ Reads(o.names)
        /\ IF o.to = None THEN GoOn ELSE ptr' = o.to /\ count' = Deeper /\ UNCHANGED pc
  BY DEF OuterName
<1>2. PICK o \in Follow(r.names, memory.outer[ptr]) :
        /\ path' = [path EXCEPT ![pc] = Append(@, r.text)]
        /\ Reads(o.names)
        /\ IF o.to = None THEN GoOn ELSE ptr' = o.to /\ count' = Deeper /\ UNCHANGED pc
  BY <1>1
<1>3. Building /\ count <= MaxDepth /\ UNCHANGED <<memory, changes, list>>
  BY DEF OuterName
<1>4. ptr \in Objects /\ ptr \in Named /\ pc \in {"path", "super"}
  BY <1>3 DEF CInv, Shape, Building, Named
<1>5. Resolved(names, ptr, r)
  BY <1>4, ResolveRight DEF CInv
<1>6. Good(o.names) /\ Later(names, o.names) /\ o.to \in {memory.outer[ptr], None}
  BY <1>5, FollowGood, LaterStill DEF Resolved, CInv
<1>7. /\ Good(names)' /\ steady' \in BOOLEAN /\ NamesRight'
  BY <1>2, <1>3, <1>6, ReadsKeep, UnaddedRight
<1>8. /\ path \in [{"path", "super"} -> Seq(Text)] /\ Len(path[pc]) = count /\ count \in Nat
      /\ \A w \in {"path", "super"} : Len(path[w]) <= MaxDepth + 2
      /\ list["properties"] = <<>> /\ list["functions"] = <<>>
      /\ pc = "path" => path["super"] = <<>>
  BY <1>3, <1>4 DEF CInv, Shape
<1>9. /\ path' \in [{"path", "super"} -> Seq(Text)]
      /\ Len(path'[pc]) = count + 1
      /\ \A w \in {"path", "super"} : w # pc => path'[w] = path[w]
  <2>1. r.text \in Text
    BY <1>5 DEF Resolved
  <2> QED BY <1>2, <1>4, <1>8, <2>1
<1>10. \A w \in {"path", "super"} : Len(path'[w]) <= MaxDepth + 2
  BY <1>3, <1>4, <1>8, <1>9, Constants
<1>11. Shape'
  <2>1. CASE o.to = None
    <3>1. GoOn /\ pc # "done"
      BY <1>2, <1>4, <2>1
    <3> QED BY <3>1, <1>3, <1>4, <1>8, <1>9, <1>10, GoOnShape
  <2>2. CASE o.to # None
    <3>1. ptr' = o.to /\ count' = count + 1 /\ pc' = pc
      BY <1>2, <2>2 DEF Deeper
    <3>2. memory.outer[ptr] \in Objects \cup {None}
      BY <1>4 DEF CInv, GameTypes, Memory
    <3>3. ptr' \in Objects /\ count' \in Nat /\ count' <= MaxDepth + 1
      BY <1>3, <1>6, <1>8, <2>2, <3>1, <3>2, Constants
    <3> QED BY <1>3, <1>4, <1>8, <1>9, <1>10, <3>1, <3>3 DEF CInv, Shape, Building
  <2> QED BY <2>1, <2>2
<1> QED BY <1>3, <1>7, <1>11 DEF CInv, GameTypes

LEMMA TooDeepKeeps == CInv /\ TooDeep => CInv'
<1> SUFFICES ASSUME CInv, TooDeep PROVE CInv'
  OBVIOUS
<1>1. /\ Building /\ UNCHANGED <<memory, changes, names, steady, list>> /\ GoOn
      /\ path' = [path EXCEPT ![pc] = Append(@, Ellipsis)]
  BY DEF TooDeep
<1>2. pc \in {"path", "super"}
  BY <1>1 DEF Building
<1>3. /\ path \in [{"path", "super"} -> Seq(Text)] /\ Len(path[pc]) = count /\ count <= MaxDepth + 1
      /\ \A w \in {"path", "super"} : Len(path[w]) <= MaxDepth + 2
      /\ pc = "path" => path["super"] = <<>>
      /\ count \in Nat
  BY <1>1 DEF CInv, Shape
<1>4. Ellipsis \in Text
  BY DEF Ellipsis, Text
<1>5. /\ path' \in [{"path", "super"} -> Seq(Text)]
      /\ Len(path'[pc]) = count + 1
      /\ \A w \in {"path", "super"} : w # pc => path'[w] = path[w]
  BY <1>1, <1>2, <1>3, <1>4
<1>6. \A w \in {"path", "super"} : Len(path'[w]) <= MaxDepth + 2
  BY <1>2, <1>3, <1>5, Constants
<1>7. Shape'
  BY <1>1, <1>2, <1>3, <1>5, <1>6, GoOnShape
<1>8. NamesRight' /\ Good(names)'
  BY <1>1 DEF CInv, NamesRight, Right, Good
<1> QED BY <1>1, <1>7, <1>8 DEF CInv, GameTypes

\* The paths are done with when the lists are walked.
LEMMA WalkShape ==
  ASSUME CInv, NEW w \in {"properties", "functions"}, Walking(w), UNCHANGED <<pc, path>>,
         ptr' \in Fields \cup {None}, count' \in Nat,
         list' \in [{"properties", "functions"} -> Seq(Items)],
         Len(list'[w]) <= MaxWalk, Len(list'[w]) <= count',
         \A v \in {"properties", "functions"} : v # w => list'[v] = list[v]
  PROVE  Shape'
BY DEF CInv, Shape, Building, Walking

\* What is listed is no more than what is counted.
LEMMA ListKept ==
  ASSUME CInv, NEW w \in {"properties", "functions"}, pc = w
  PROVE  /\ list \in [{"properties", "functions"} -> Seq(Items)]
         /\ Len(list[w]) <= MaxWalk /\ Len(list[w]) <= count /\ count \in Nat /\ Len(list[w]) \in Nat
<1>1. /\ list \in [{"properties", "functions"} -> Seq(Items)] /\ count \in Nat
      /\ Len(list[w]) <= MaxWalk
  BY DEF CInv, Shape
<1>2. Len(list[pc]) <= count
  BY DEF CInv, Shape
<1> QED BY <1>1, <1>2

\* A step of a walk that adds an entry.
LEMMA AddsKeeps ==
  ASSUME CInv, NEW w \in {"properties", "functions"}, Walking(w),
         UNCHANGED <<memory, changes, pc, path>>, count' = count + 1,
         NEW e \in Items, e.at = ptr, NEW z, Good(z), Later(names, z), Reads(z),
         list' = [list EXCEPT ![w] = Append(@, e)],
         e.ufield => RightIn(e.name, ptr, z.misread, z.fails = names.fails),
         ptr' \in Fields \cup {None}
  PROVE  CInv'
<1>1. /\ Good(names)' /\ steady' \in BOOLEAN /\ Later(names, names') /\ (steady' => steady)
      /\ names' = z /\ (steady' => z.fails = names.fails)
  BY ReadsKeep
<1>2. ptr \in Fields /\ count < MaxWalk /\ count \in Nat /\ pc = w
  BY DEF CInv, Shape, Building, Walking
<1>3. PICK p \in Fields : p = ptr
  BY <1>2
<1>4. PICK n : n = e.name
  OBVIOUS
<1>5. e.ufield => RightIn(n, p, z.misread, z.fails = names.fails)
  BY <1>3, <1>4
<1>6. e.ufield => Right(n, p)'
  BY <1>1, <1>5 DEF Right, RightIn
<1>7. e.ufield => Right(e.name, e.at)'
  BY <1>3, <1>4, <1>6 DEF Right
<1>8. /\ NamesRight'
      /\ list' \in [{"properties", "functions"} -> Seq(Items)]
      /\ Len(list'[w]) = Len(list[w]) + 1
      /\ \A v \in {"properties", "functions"} : v # w => list'[v] = list[v]
  BY <1>1, <1>7, AddedRight
<1>9. Len(list[w]) <= count /\ Len(list[w]) \in Nat
  BY <1>2, ListKept
<1>10. Len(list'[w]) <= MaxWalk /\ Len(list'[w]) <= count' /\ count' \in Nat
  BY <1>2, <1>8, <1>9, Constants
<1>11. Shape'
  BY <1>8, <1>10, WalkShape
<1> QED BY <1>1, <1>8, <1>11 DEF CInv, GameTypes

\* A step of a walk that adds nothing.
LEMMA PassesKeeps ==
  ASSUME CInv, NEW w \in {"properties", "functions"}, Walking(w),
         UNCHANGED <<memory, changes, pc, path, list>>, count' \in {count, count + 1},
         NEW z, Good(z), Later(names, z), Reads(z), ptr' \in Fields \cup {None}
  PROVE  CInv'
<1>1. /\ Good(names)' /\ steady' \in BOOLEAN /\ Later(names, names') /\ (steady' => steady)
  BY ReadsKeep
<1>2. NamesRight'
  BY <1>1, UnaddedRight
<1>3. /\ list \in [{"properties", "functions"} -> Seq(Items)] /\ pc = w
      /\ Len(list[w]) <= MaxWalk /\ Len(list[w]) <= count /\ count \in Nat /\ Len(list[w]) \in Nat
  BY ListKept DEF Walking
<1>4. Len(list[w]) <= count' /\ count' \in Nat
  BY <1>3
<1>5. Shape'
  BY <1>3, <1>4, WalkShape
<1> QED BY <1>1, <1>2, <1>5 DEF CInv, GameTypes

\* Where a walk may go from a field.
LEMMA StepTo ==
  ASSUME CInv, NEW w \in {"properties", "functions"}, Walking(w), NEW s, Good(s), Later(names, s),
         Step(s)
  PROVE  \E z : /\ Good(z) /\ Later(s, z) /\ Later(names, z) /\ Reads(z)
               /\ (z.fails = names.fails => s.fails = names.fails)
               /\ ptr' \in Fields \cup {None}
<1>2. ptr \in Fields
  BY DEF CInv, Shape, Building, Walking
<1>3. memory.next[ptr] \in Fields \cup {None}
  BY <1>2 DEF CInv, GameTypes, Memory
<1>0. PICK n \in Fields \cup {None} : \E o \in Follow(s, n) : Reads(o.names) /\ ptr' = o.to
  BY <1>3 DEF Step
<1>1. PICK o \in Follow(s, n) : Reads(o.names) /\ ptr' = o.to
  BY <1>0
<1>4. Good(o.names) /\ Later(s, o.names) /\ o.to \in {n, None}
  BY FollowGood
<1>5. Good(names)
  BY DEF CInv
<1>6. Later(names, o.names) /\ (o.names.fails = names.fails => s.fails = names.fails)
  BY <1>4, <1>5, LaterStill
<1> QED BY <1>1, <1>4, <1>6

LEMMA FieldNamed ==
  ASSUME CInv, NEW w \in {"properties", "functions"}, Walking(w)
  PROVE  /\ ptr \in Fields /\ ptr \in Named /\ Class \in Named
         /\ memory.kind[ptr] \in Kinds /\ (UField(ptr) => memory.kind[ptr] \in Named)
<1>1. ptr \in Fields
  BY DEF CInv, Shape, Building, Walking
<1>2. memory.kind[ptr] \in Kinds
  BY <1>1 DEF CInv, GameTypes, Memory
<1> QED BY <1>1, <1>2, ClassAssumption DEF Named, UField

\* What the name of a class makes of the names.
LEMMA ClassNameGood ==
  ASSUME CInv, NEW w \in {"properties", "functions"}, Walking(w), NEW t \in ClassName(names)
  PROVE  /\ Good(t.names) /\ Later(names, t.names)
         /\ UField(ptr) => t \in ue4r_resolve_name(names, memory.kind[ptr])
<1>1. Good(names) /\ Later(names, names)
  BY Constants DEF CInv, Good, NameStates, Later
<1>2. CASE UField(ptr)
  <2>1. t \in ue4r_resolve_name(names, memory.kind[ptr])
    BY <1>2 DEF ClassName, UField, UFields
  <2>2. memory.kind[ptr] \in Named
    BY <1>2, FieldNamed
  <2> QED BY <1>1, <2>1, <2>2, ResolveRight DEF Resolved
<1>3. CASE memory.kind[ptr] = "FField"
  <2>1. ~UField(ptr)
    BY <1>3 DEF UField, UFields
  <2>2. t \in ue4r_resolve_name(names, Class) /\ Class \in Named
    BY <1>3, <2>1, FieldNamed DEF ClassName
  <2> QED BY <1>1, <2>1, <2>2, ResolveRight DEF Resolved
<1>4. CASE memory.kind[ptr] = "Other"
  <2>1. ~UField(ptr) /\ memory.kind[ptr] # "FField"
    BY <1>4 DEF UField, UFields
  <2>2. t = [text |-> Unknown, names |-> names]
    BY <1>4, <2>1 DEF ClassName
  <2> QED BY <1>1, <2>1, <2>2
<1> QED BY <1>2, <1>3, <1>4, FieldNamed DEF Kinds, UField

LEMMA OwnNameGood ==
  ASSUME CInv, NEW w \in {"properties", "functions"}, Walking(w), NEW s, Good(s),
         NEW n \in OwnName(s)
  PROVE  /\ Good(n.names) /\ Later(s, n.names)
         /\ UField(ptr) => Resolved(s, ptr, n)
<1>1. CASE UField(ptr)
  <2>1. n \in ue4r_resolve_name(s, ptr)
    BY <1>1 DEF OwnName
  <2>2. Resolved(s, ptr, n)
    BY <2>1, FieldNamed, ResolveRight
  <2> QED BY <2>2 DEF Resolved
<1>2. CASE ~UField(ptr)
  BY <1>2, GarbageGood DEF OwnName
<1> QED BY <1>1, <1>2

\* The entry of either kind.
LEMMA EntryItem ==
  ASSUME CInv, NEW w \in {"properties", "functions"}, Walking(w), NEW t,
         UField(ptr) => t \in Text
  PROVE  /\ Entry(t) \in Items /\ Entry(t).at = ptr /\ (Entry(t).ufield <=> UField(ptr))
         /\ UField(ptr) => Entry(t).name = t
         /\ OtherEntry \in Items /\ OtherEntry.at = ptr /\ OtherEntry.ufield = FALSE
<1>1. ptr \in Fields
  BY FieldNamed
<1>2. OtherEntry \in Items /\ OtherEntry.at = ptr /\ OtherEntry.ufield = FALSE
  BY <1>1 DEF OtherEntry, Items
<1>3. CASE UField(ptr)
  <2>1. Entry(t) = [at |-> ptr, ufield |-> TRUE, name |-> t]
    BY <1>3 DEF Entry, NamedEntry
  <2>2. /\ Entry(t) \in Items /\ Entry(t).at = ptr /\ Entry(t).name = t
        /\ Entry(t).ufield
    <3> DEFINE e == [at |-> ptr, ufield |-> TRUE, name |-> t]
    <3>1. e \in Items
      BY <1>1, <1>3 DEF Items
    <3>2. e.at = ptr /\ e.name = t
      OBVIOUS
    <3>3. e.ufield
      OBVIOUS
    <3> HIDE DEF e
    <3> QED BY <2>1, <3>1, <3>2, <3>3 DEF e
  <2> QED BY <1>2, <1>3, <2>2
<1>4. CASE ~UField(ptr)
  <2>1. Entry(t) = OtherEntry
    BY <1>4 DEF Entry
  <2> QED BY <1>2, <1>4, <2>1
<1> QED BY <1>3, <1>4

\* A property or function that its class gives away.
LEMMA NamedKeeps ==
  ASSUME CInv, NEW w \in {"properties", "functions"}, Walking(w),
         UNCHANGED <<memory, changes, pc, path>>, count' = count + 1,
         \E t \in ClassName(names) : \E n \in OwnName(t.names) :
           list' = [list EXCEPT ![w] = Append(@, Entry(n.text))] /\ Step(n.names)
  PROVE  CInv'
<1>1. PICK t \in ClassName(names) : \E n \in OwnName(t.names) :
        list' = [list EXCEPT ![w] = Append(@, Entry(n.text))] /\ Step(n.names)
  OBVIOUS
<1>2. PICK n \in OwnName(t.names) :
        list' = [list EXCEPT ![w] = Append(@, Entry(n.text))] /\ Step(n.names)
  BY <1>1
<1>3. Good(names)
  BY DEF CInv
<1>4. Good(t.names) /\ Later(names, t.names)
  BY ClassNameGood
<1>5. Good(n.names) /\ Later(t.names, n.names) /\ (UField(ptr) => Resolved(t.names, ptr, n))
  BY <1>4, OwnNameGood
<1>6. Later(names, n.names) /\ (n.names.fails = names.fails => t.names.fails = names.fails)
  BY <1>3, <1>4, <1>5, LaterStill
<1>7. PICK z : /\ Good(z) /\ Later(n.names, z) /\ Later(names, z) /\ Reads(z)
               /\ (z.fails = names.fails => n.names.fails = names.fails)
               /\ ptr' \in Fields \cup {None}
  BY <1>2, <1>5, <1>6, StepTo
<1>8. UField(ptr) => RightIn(n.text, ptr, z.misread, z.fails = names.fails)
  <2> SUFFICES ASSUME UField(ptr) PROVE RightIn(n.text, ptr, z.misread, z.fails = names.fails)
    OBVIOUS
  <2>1. RightIn(n.text, ptr, n.names.misread, n.names.fails = t.names.fails)
    BY <1>5 DEF Resolved
  <2>2. z.fails = names.fails => n.names.fails = t.names.fails
    BY <1>6, <1>7
  <2>3. n.names.misread \subseteq z.misread
    BY <1>7 DEF Later
  <2> QED BY <2>1, <2>2, <2>3 DEF RightIn
<1>9. UField(ptr) => n.text \in Text
  BY <1>5 DEF Resolved
<1>10. PICK e \in Items : /\ e = Entry(n.text) /\ e.at = ptr /\ (e.ufield <=> UField(ptr))
                          /\ (UField(ptr) => e.name = n.text)
  BY <1>9, EntryItem
<1>11. e.ufield => RightIn(e.name, ptr, z.misread, z.fails = names.fails)
  <2> SUFFICES ASSUME UField(ptr) PROVE RightIn(e.name, ptr, z.misread, z.fails = names.fails)
    BY <1>10
  <2>1. e.name = n.text
    BY <1>10
  <2> QED BY <1>8, <2>1
<1>12. list' = [list EXCEPT ![w] = Append(@, e)]
  BY <1>2, <1>10
<1> QED BY <1>7, <1>10, <1>11, <1>12, AddsKeeps

LEMMA PropertyKeeps == CInv /\ (Property \/ Function) => CInv'
<1> SUFFICES ASSUME CInv, Property \/ Function PROVE CInv'
  OBVIOUS
<1>1. CASE Property
  BY <1>1, NamedKeeps DEF Property
<1>2. CASE Function
  BY <1>2, NamedKeeps DEF Function, Counted
<1> QED BY <1>1, <1>2

\* A read that fails, and nothing else.
LEMMA OneFails ==
  ASSUME CInv, ReadFails(names)
  PROVE  Good(Failed(names)) /\ Later(names, Failed(names)) /\ Failed(names).fails # names.fails
<1>1. Good(names) /\ names.fails \in Nat
  BY Constants DEF CInv, Good, NameStates
<1> QED BY <1>1, FailedGood

\* What a field that is read as an FProperty makes of the names: a UField is one only
\* after a failed read.
LEMMA FPropertyReads ==
  ASSUME CInv, FProperty
  PROVE  \E z : /\ Good(z) /\ Later(names, z) /\ Reads(z)
               /\ (UField(ptr) => z.fails # names.fails)
               /\ list' = [list EXCEPT !["properties"] = Append(@, OtherEntry)]
<1>1. PICK s \in IF memory.kind[ptr] = "Other" THEN {names}
                ELSE IF ReadFails(names) THEN {Failed(names)} ELSE {} :
        \E n \in Garbage(s) : \E t \in Garbage(n.names) :
          /\ list' = [list EXCEPT !["properties"] = Append(@, OtherEntry)]
          /\ Reads(t.names)
  BY DEF FProperty
<1>2. PICK n \in Garbage(s) : \E t \in Garbage(n.names) :
        /\ list' = [list EXCEPT !["properties"] = Append(@, OtherEntry)]
        /\ Reads(t.names)
  BY <1>1
<1>3. PICK t \in Garbage(n.names) :
        /\ list' = [list EXCEPT !["properties"] = Append(@, OtherEntry)]
        /\ Reads(t.names)
  BY <1>2
<1>4. Good(names) /\ Later(names, names)
  BY Constants DEF CInv, Good, NameStates, Later
<1>5. Good(s) /\ Later(names, s) /\ (UField(ptr) => s.fails # names.fails)
  BY <1>1, <1>4, OneFails DEF UField, UFields
<1>6. Good(n.names) /\ Later(s, n.names)
  BY <1>5, GarbageGood
<1>7. Good(t.names) /\ Later(n.names, t.names)
  BY <1>6, GarbageGood
<1>8. Later(s, t.names)
  BY <1>5, <1>6, <1>7, LaterStill
<1>9. Later(names, t.names) /\ (t.names.fails = names.fails => s.fails = names.fails)
  BY <1>4, <1>5, <1>7, <1>8, LaterStill
<1> QED BY <1>3, <1>5, <1>7, <1>9

LEMMA FPropertyKeeps == CInv /\ FProperty => CInv'
<1> SUFFICES ASSUME CInv, FProperty PROVE CInv'
  OBVIOUS
<1>1. /\ Walking("properties") /\ count' = count + 1 /\ ptr' \in Fields \cup {None}
      /\ UNCHANGED <<memory, changes, pc, path>>
  BY DEF FProperty
<1>2. PICK z : /\ Good(z) /\ Later(names, z) /\ Reads(z)
               /\ list' = [list EXCEPT !["properties"] = Append(@, OtherEntry)]
  BY FPropertyReads
<1>3. PICK e \in Items : e = OtherEntry /\ e.at = ptr /\ e.ufield = FALSE
  <2>1. OtherEntry \in Items /\ OtherEntry.at = ptr /\ OtherEntry.ufield = FALSE
    <3>1. UField(ptr) => Unknown \in Text
      BY DEF Unknown, Text
    <3> QED BY <1>1, <3>1, EntryItem
  <2> QED BY <2>1
<1>4. list' = [list EXCEPT !["properties"] = Append(@, e)]
  BY <1>2, <1>3
<1> QED BY <1>1, <1>2, <1>3, <1>4, AddsKeeps

\* A field that is passed over.
LEMMA PassedKeeps ==
  ASSUME CInv, NEW w \in {"properties", "functions"}, Walking(w),
         UNCHANGED <<memory, changes, pc, path, list>>, count' \in {count, count + 1},
         \E t \in ClassName(names) : Step(t.names)
  PROVE  CInv'
<1>1. PICK t \in ClassName(names) : Step(t.names)
  OBVIOUS
<1>2. Good(t.names) /\ Later(names, t.names)
  BY ClassNameGood
<1>3. PICK z : Good(z) /\ Later(names, z) /\ Reads(z) /\ ptr' \in Fields \cup {None}
  BY <1>1, <1>2, StepTo
<1> QED BY <1>3, PassesKeeps

LEMMA NoPropertyKeeps == CInv /\ (NoProperty \/ NoFunction) => CInv'
<1> SUFFICES ASSUME CInv, NoProperty \/ NoFunction PROVE CInv'
  OBVIOUS
<1>1. CASE NoProperty
  <2>1. /\ Walking("properties") /\ UNCHANGED <<memory, changes, pc, path, list>> /\ count' = count
        /\ \E t \in ClassName(names) : Step(t.names)
    BY <1>1 DEF NoProperty
  <2> QED BY <2>1, PassedKeeps
<1>2. CASE NoFunction
  <2>1. /\ Walking("functions") /\ UNCHANGED <<memory, changes, pc, path, list>> /\ count' = count + 1
        /\ \E t \in ClassName(names) : Step(t.names)
    BY <1>2 DEF NoFunction, Counted
  <2> QED BY <2>1, PassedKeeps
<1> QED BY <1>1, <1>2

\* Pointers of the class that are read, but for those at X.
LEMMA ReadsButGood ==
  ASSUME CInv, NEW X, IsFiniteSet(X), ReadsBut(X)
  PROVE  /\ \E z : Good(z) /\ Later(names, z) /\ Reads(z)
         /\ steady' => X = {}
<1> DEFINE n == Cardinality(X)
           z == [names EXCEPT !.fails = @ + n]
<1>1. n \in Nat /\ (n = 0 => X = {})
  BY FS_CardinalityType, FS_EmptySet
<1>2. names.fails + n <= MaxFails /\ Reads(z)
  BY DEF ReadsBut
<1>3. Good(names) /\ names.fails \in Nat
  BY Constants DEF CInv, Good, NameStates
<1> HIDE DEF n
<1>4. z.fails = names.fails + n /\ z.cache = names.cache /\ z.misread = names.misread
      /\ z \in NameStates
  BY <1>1, <1>2, <1>3, Constants DEF Good, NameStates
<1>5. Good(z) /\ Later(names, z)
  BY <1>1, <1>3, <1>4 DEF Good, Later
<1>6. steady' => n = 0
  <2>1. steady' = (steady /\ names.fails + n = names.fails)
    BY <1>2, <1>4 DEF Reads
  <2>2. names.fails + n = names.fails => n = 0
    BY <1>1, <1>3
  <2> QED BY <2>1, <2>2
<1> QED BY <1>1, <1>2, <1>5, <1>6

\* Both sets of pointers are finite.
LEMMA PointersFinite ==
  /\ \A X \in SUBSET SuperPointers : IsFiniteSet(X)
  /\ \A X \in SUBSET StartPointers : IsFiniteSet(X)
<1>1. IsFiniteSet({"SUPER"}) /\ IsFiniteSet({"CHILDREN"})
  BY FS_Singleton
<1>2. IsFiniteSet({"SUPER"} \cup {"SUPER_425"}) /\ IsFiniteSet({"CHILDREN"} \cup {"CHILD_PROPS"})
  BY <1>1, FS_AddElement
<1>3. IsFiniteSet(({"CHILDREN"} \cup {"CHILD_PROPS"}) \cup {"CHILDREN_425"})
  BY <1>2, FS_AddElement
<1>4. /\ SuperPointers = {"SUPER"} \cup {"SUPER_425"}
      /\ StartPointers = ({"CHILDREN"} \cup {"CHILD_PROPS"}) \cup {"CHILDREN_425"}
  BY DEF SuperPointers, StartPointers
<1>5. IsFiniteSet(SuperPointers) /\ IsFiniteSet(StartPointers)
  BY <1>2, <1>3, <1>4
<1> QED BY <1>5, FS_Subset

LEMMA FindsSuperKeeps == CInv /\ FindsSuper => CInv'
<1> SUFFICES ASSUME CInv, FindsSuper PROVE CInv'
  OBVIOUS
<1>1. PICK X \in SUBSET SuperPointers :
        /\ ReadsBut(X)
        /\ IF SuperOf(X) = None THEN GoOn
           ELSE pc' = "super" /\ ptr' = SuperOf(X) /\ UNCHANGED count
  BY DEF FindsSuper
<1>2. pc = "to super" /\ UNCHANGED <<memory, changes, path, list>>
  BY DEF FindsSuper
<1>3. PICK z : Good(z) /\ Later(names, z) /\ Reads(z)
  BY <1>1, PointersFinite, ReadsButGood
<1>4. /\ Good(names)' /\ steady' \in BOOLEAN /\ Later(names, names') /\ (steady' => steady)
  BY <1>3, ReadsKeep
<1>5. NamesRight'
  BY <1>2, <1>4, UnaddedRight
<1>6. /\ path \in [{"path", "super"} -> Seq(Text)] /\ path["super"] = <<>> /\ count = 0
      /\ \A w \in {"path", "super"} : Len(path[w]) <= MaxDepth + 2
      /\ list["properties"] = <<>> /\ list["functions"] = <<>>
  BY <1>2 DEF CInv, Shape
<1>7. Shape'
  <2>1. CASE SuperOf(X) = None
    <3>1. GoOn
      BY <1>1, <2>1
    <3> QED BY <1>2, <1>6, <3>1, GoOnShape
  <2>2. CASE SuperOf(X) # None
    <3>1. pc' = "super" /\ ptr' = SuperOf(X) /\ count' = 0
      BY <1>1, <1>6, <2>2
    <3>2. SuperOf(X) \in Objects
      <4>1. memory.super \in [SuperPointers -> Objects \cup {None}]
        BY DEF CInv, GameTypes, Memory
      <4> QED BY <2>2, <4>1 DEF SuperOf, Or, Held, SuperPointers
    <3>3. Len(<<>>) = 0 /\ 0 <= MaxDepth + 1
      BY Constants
    <3> QED BY <1>2, <1>6, <3>1, <3>2, <3>3 DEF CInv, Shape, Building
  <2> QED BY <2>1, <2>2
<1> QED BY <1>2, <1>4, <1>5, <1>7 DEF CInv, GameTypes

LEMMA StartType == ASSUME CInv, NEW w, NEW X PROVE Start(w, X) \in Fields \cup {None}
<1>1. memory.start \in [StartPointers -> Fields \cup {None}]
  BY DEF CInv, GameTypes, Memory
<1> QED BY <1>1 DEF Start, Or, Held, StartPointers

LEMMA ListShape ==
  ASSUME CInv, NEW w \in {"properties", "functions"}, pc \notin {"functions", "done"},
         list[w] = <<>>, count = 0, pc' = w, ptr' \in Fields \cup {None},
         UNCHANGED <<count, path, list>>
  PROVE  Shape'
<1>1. Len(list[w]) <= count
  <2>1. Len(<<>>) = 0
    OBVIOUS
  <2> QED BY <2>1
<1> QED BY <1>1 DEF CInv, Shape, Building

LEMMA FindsListKeeps ==
  ASSUME CInv, NEW w \in {"properties", "functions"}, NEW to \in {"to properties", "to functions"},
         w = "properties" <=> to = "to properties", FindsList(w, to)
  PROVE  CInv'
<1>1. /\ pc = to /\ pc' = w /\ UNCHANGED <<memory, changes, count, path, list>>
  BY DEF FindsList
<1>2. PICK X \in SUBSET StartPointers : ReadsBut(X) /\ ptr' = Start(w, X)
  BY DEF FindsList
<1>3. PICK z : Good(z) /\ Later(names, z) /\ Reads(z)
  BY <1>2, PointersFinite, ReadsButGood
<1>4. /\ Good(names)' /\ steady' \in BOOLEAN /\ Later(names, names') /\ (steady' => steady)
  BY <1>3, ReadsKeep
<1>5. NamesRight'
  BY <1>1, <1>4, UnaddedRight
<1>6. ptr' \in Fields \cup {None}
  BY <1>2, StartType
<1>7. list[w] = <<>> /\ count = 0 /\ pc \notin {"functions", "done"}
  BY <1>1 DEF CInv, Shape
<1>8. Shape'
  BY <1>1, <1>6, <1>7, ListShape
<1> QED BY <1>1, <1>4, <1>5, <1>8 DEF CInv, GameTypes

LEMMA WalkEndsKeeps == CInv /\ WalkEnds => CInv'
<1> SUFFICES ASSUME CInv, WalkEnds PROVE CInv'
  OBVIOUS
<1>1. /\ pc \in {"properties", "functions"} /\ GoOn
      /\ UNCHANGED <<memory, changes, names, steady, path, list>>
  BY DEF WalkEnds
<1>2. Shape'
  BY <1>1, GoOnShape DEF CInv, Shape
<1>3. NamesRight' /\ Good(names)'
  BY <1>1 DEF CInv, NamesRight, Right, Good
<1> QED BY <1>1, <1>2, <1>3 DEF CInv, GameTypes

LEMMA NextClassKeeps == CInv /\ NextClass => CInv'
<1> SUFFICES ASSUME CInv, NextClass PROVE CInv'
  OBVIOUS
<1>1. Shape'
  BY ClassAssumption, Constants DEF NextClass, Shape, Building, EmptyPaths, EmptyLists
<1>2. NamesRight'
  BY DEF NextClass, NamesRight, EmptyLists
<1>3. Good(names)'
  BY DEF CInv, NextClass, Good
<1> QED BY <1>1, <1>2, <1>3 DEF CInv, GameTypes, NextClass

LEMMA ClassStep == CInv /\ [Next]_vars => CInv'
<1> SUFFICES ASSUME CInv, [Next]_vars PROVE CInv'
  OBVIOUS
<1>1. CASE Game
  BY <1>1, GameKeeps
<1>2. CASE OuterName
  BY <1>2, OuterNameKeeps
<1>3. CASE TooDeep
  BY <1>3, TooDeepKeeps
<1>4. CASE Property \/ Function
  BY <1>4, PropertyKeeps
<1>5. CASE FProperty
  BY <1>5, FPropertyKeeps
<1>6. CASE FindsSuper
  BY <1>6, FindsSuperKeeps
<1>7. CASE NoProperty \/ NoFunction
  BY <1>7, NoPropertyKeeps
<1>8. CASE FindsList("properties", "to properties") \/ FindsList("functions", "to functions")
  <2>1. CASE FindsList("properties", "to properties")
    BY <2>1, FindsListKeeps
  <2>2. CASE FindsList("functions", "to functions")
    BY <2>2, FindsListKeeps
  <2> QED BY <1>8, <2>1, <2>2
<1>9. CASE WalkEnds
  BY <1>9, WalkEndsKeeps
<1>10. CASE NextClass
  BY <1>10, NextClassKeeps
<1>11. CASE UNCHANGED vars
  <2>1. GameTypes' /\ steady' = steady /\ Good(names)' /\ NamesRight'
    BY <1>11 DEF vars, CInv, GameTypes, Good, NamesRight, Right
  <2>2. Shape'
    BY <1>11 DEF vars, CInv, Shape, Building
  <2> QED BY <2>1, <2>2 DEF CInv
<1> QED BY <1>1, <1>2, <1>3, <1>4, <1>5, <1>6, <1>7, <1>8, <1>9, <1>10, <1>11 DEF Next, Read, Finds

(***************************************************************************)
(* Chains, and the lists of what stands in them.                           *)
(***************************************************************************)

LEMMA ChainFacts ==
  ASSUME NEW to, NEW p, NEW S, IsFiniteSet(S), NEW c \in Chains(to, p, S)
  PROVE  /\ Len(c) \in Nat \ {0} /\ c \in [1..Len(c) -> S]
         /\ c[1] = p /\ to[c[Len(c)]] = None
         /\ \A i \in 1..(Len(c) - 1) : c[i + 1] = to[c[i]]
<1>1. Cardinality(S) \in Nat
  BY FS_CardinalityType
<1>2. PICK n \in 1..Cardinality(S) : c \in [1..n -> S]
  BY DEF Chains
<1>3. n \in Nat \ {0}
  BY <1>1, <1>2
<1>4. c \in Seq(S)
  BY <1>2, <1>3, SeqDef
<1>5. Len(c) = n
  BY <1>2, <1>3, <1>4, LenProperties
<1> QED BY <1>2, <1>3, <1>5 DEF Chains

(***************************************************************************)
(* How many of a chain are in a set.                                       *)
(***************************************************************************)

\* One more element of a chain is one more, or no more, in S.
LEMMA RankNext ==
  ASSUME NEW c, NEW S, NEW i \in Nat
  PROVE  /\ Rank(c, i, S) \in Nat
         /\ Rank(c, i + 1, S) = IF c[i + 1] \in S THEN Rank(c, i, S) + 1 ELSE Rank(c, i, S)
<1> DEFINE K(j) == {k \in 1..j : c[k] \in S}
<1>1. IsFiniteSet(K(i))
  <2>1. IsFiniteSet(1..i)
    BY FS_Interval
  <2> QED BY <2>1, FS_Subset
<1>2. Cardinality(K(i)) \in Nat
  BY <1>1, FS_CardinalityType
<1>3. CASE c[i + 1] \in S
  <2>1. K(i + 1) = K(i) \cup {i + 1} /\ i + 1 \notin K(i)
    BY <1>3
  <2>2. Cardinality(K(i + 1)) = Cardinality(K(i)) + 1
    BY <1>1, <2>1, FS_AddElement
  <2> QED BY <1>2, <1>3, <2>2 DEF Rank
<1>4. CASE c[i + 1] \notin S
  <2>1. K(i + 1) = K(i)
    BY <1>4
  <2> QED BY <1>2, <1>4, <2>1 DEF Rank
<1> QED BY <1>3, <1>4

\* What is in S has a rank from one to the rank of whatever follows.
LEMMA RankWithin ==
  ASSUME NEW c, NEW S, NEW i \in Nat, NEW k \in 1..i, c[k] \in S
  PROVE  Rank(c, k, S) \in 1..Rank(c, i, S)
<1> DEFINE K(j) == {m \in 1..j : c[m] \in S}
<1>1. IsFiniteSet(K(i))
  <2>1. IsFiniteSet(1..i)
    BY FS_Interval
  <2> QED BY <2>1, FS_Subset
<1>2. K(k) \subseteq K(i) /\ k \in K(k)
  OBVIOUS
<1>3. IsFiniteSet(K(k)) /\ Cardinality(K(k)) <= Cardinality(K(i))
  BY <1>1, <1>2, FS_Subset
<1>4. Cardinality(K(k)) \in Nat /\ Cardinality(K(i)) \in Nat
  BY <1>1, <1>3, FS_CardinalityType
<1>5. Cardinality(K(k)) # 0
  <2> HIDE DEF K
  <2> QED BY <1>2, <1>3, FS_EmptySet
<1> QED BY <1>3, <1>4, <1>5 DEF Rank

LEMMA ListsNone == ASSUME NEW c, NEW S PROVE ListsFirst(<<>>, c, 0, S)
<1>1. {k \in 1..0 : c[k] \in S} = {}
  OBVIOUS
<1>2. Rank(c, 0, S) = 0
  BY <1>1, FS_EmptySet DEF Rank
<1> QED BY <1>2 DEF ListsFirst

\* The next element is passed over if it is not in S.
LEMMA ListsPast ==
  ASSUME NEW s, NEW c, NEW S, NEW i \in Nat, ListsFirst(s, c, i, S), c[i + 1] \notin S
  PROVE  ListsFirst(s, c, i + 1, S)
<1>1. Rank(c, i + 1, S) = Rank(c, i, S)
  BY RankNext
<1> QED BY <1>1 DEF ListsFirst

\* It is added if it is.
LEMMA ListsOne ==
  ASSUME NEW s \in Seq(Items), NEW c, NEW S, NEW i \in Nat, ListsFirst(s, c, i, S),
         c[i + 1] \in S, NEW e \in Items, e.at = c[i + 1]
  PROVE  ListsFirst(Append(s, e), c, i + 1, S)
<1>1. Rank(c, i, S) \in Nat /\ Rank(c, i + 1, S) = Rank(c, i, S) + 1 /\ Len(s) = Rank(c, i, S)
  BY RankNext DEF ListsFirst
<1>2. Len(Append(s, e)) = Rank(c, i + 1, S)
  BY <1>1
<1>3. ASSUME NEW k \in 1..(i + 1), c[k] \in S PROVE Append(s, e)[Rank(c, k, S)].at = c[k]
  <2>1. CASE k = i + 1
    BY <1>1, <2>1
  <2>2. CASE k # i + 1
    <3>1. k \in 1..i
      BY <2>2
    <3>2. Rank(c, k, S) \in 1..Len(s)
      BY <1>1, <1>3, <3>1, RankWithin
    <3>3. Append(s, e)[Rank(c, k, S)] = s[Rank(c, k, S)]
      BY <3>2
    <3> QED BY <1>3, <3>1, <3>3 DEF ListsFirst
  <2> QED BY <2>1, <2>2
<1> QED BY <1>2, <1>3 DEF ListsFirst

(***************************************************************************)
(* How far a record is whole at each place of the read.                    *)
(***************************************************************************)

Clean == steady /\ KindsRead

\* The path of w has come to ptr, with the right name for each outer before it.
PathSoFar(w) ==
  \A o \in Chains(memory.outer, Top(w), Objects) :
    /\ count < Len(o) /\ ptr = o[count + 1]
    /\ \A i \in 1..count : Right(path[w][i], o[i])

\* The walk has come past n fields, with the properties among them listed.
PropertiesSoFar ==
  \A c \in UFieldLists("properties") : \E n \in 0..Len(c) :
    /\ ptr = IF n < Len(c) THEN c[n + 1] ELSE None
    /\ count = Len(list["properties"])
    /\ ListsFirst(list["properties"], c, n, PropertyFields)

\* The walk has come past count fields, with the functions among them listed.
FunctionsSoFar ==
  \A c \in UFieldLists("functions") :
    /\ count <= MaxWalk /\ count <= Len(c)
    /\ ptr = IF count < Len(c) THEN c[count + 1] ELSE None
    /\ ListsFirst(list["functions"], c, count, FunctionFields)

RecordInv ==
  Clean =>
    /\ \A w \in {"path", "super"} : pc = w => PathSoFar(w)
    /\ pc # "path" => PathWhole("path")
    /\ pc \notin {"path", "to super", "super"} => PathWhole("super")
    /\ pc = "properties" => PropertiesSoFar
    /\ pc \in {"to functions", "functions", "done"} => PropertiesWhole
    /\ pc = "functions" => FunctionsSoFar
    /\ pc = "done" => FunctionsWhole

\* A list of UFields is a chain from where the walk starts.
LEMMA UFieldListFacts ==
  ASSUME NEW w, NEW c \in UFieldLists(w)
  PROVE  /\ Len(c) \in Nat \ {0} /\ c \in [1..Len(c) -> Fields]
         /\ c[1] = Start(w, {}) /\ memory.next[c[Len(c)]] = None
         /\ \A i \in 1..(Len(c) - 1) : c[i + 1] = memory.next[c[i]]
         /\ \A i \in 1..Len(c) : UField(c[i])
<1> DEFINE to == memory.next
           p == Start(w, {})
<1>1. c \in Chains(to, p, Fields) /\ \A i \in 1..Len(c) : UField(c[i])
  BY DEF UFieldLists
<1>2. IsFiniteSet(Fields)
  BY ClassSetsAssumption
<1> HIDE DEF to, p
<1>3. Len(c) \in Nat \ {0} /\ c \in [1..Len(c) -> Fields]
  BY <1>1, <1>2, ChainFacts
<1>4. c[1] = p /\ to[c[Len(c)]] = None
  BY <1>1, <1>2, ChainFacts
<1>5. \A i \in 1..(Len(c) - 1) : c[i + 1] = to[c[i]]
  BY <1>1, <1>2, ChainFacts
<1> QED BY <1>1, <1>3, <1>4, <1>5 DEF to, p

\* The lists are the memory's.
LEMMA UFieldListsStay ==
  ASSUME UNCHANGED memory
  PROVE  /\ \A w : UFieldLists(w)' = UFieldLists(w) /\ Start(w, {})' = Start(w, {})
         /\ PropertyFields' = PropertyFields /\ FunctionFields' = FunctionFields
<1>1. \A w : Start(w, {})' = Start(w, {})
  BY DEF Start, Held
<1>2. \A w : UFieldLists(w)' = UFieldLists(w)
  BY DEF UFieldLists, UField, Start, Held
<1> QED BY <1>1, <1>2 DEF PropertyFields, FunctionFields

\* A path is begun: nothing is read of it, and ptr is the first object.
LEMMA PathBegun ==
  ASSUME NEW w, UNCHANGED memory, ptr' = Top(w), count' = 0
  PROVE  PathSoFar(w)'
<1>0. Top(w)' = Top(w)
  BY DEF Top
<1> SUFFICES ASSUME NEW o \in Chains(memory'.outer, Top(w), Objects)
             PROVE  count' < Len(o) /\ ptr' = o[count' + 1]
                    /\ \A i \in 1..count' : Right(path[w][i], o[i])'
  BY <1>0 DEF PathSoFar
<1>1. Len(o) \in Nat \ {0} /\ o[1] = Top(w)
  BY ClassSetsAssumption, ChainFacts
<1> QED BY <1>1

LEMMA RecordInit == Init => RecordInv
<1> SUFFICES ASSUME Init PROVE RecordInv
  OBVIOUS
<1>1. pc = "path" /\ ptr = Class /\ count = 0
  BY DEF Init
<1>2. ASSUME NEW o \in Chains(memory.outer, Class, Objects)
      PROVE  count < Len(o) /\ ptr = o[count + 1]
  <2>1. Len(o) \in Nat \ {0} /\ o[1] = Class
    BY ClassSetsAssumption, ChainFacts
  <2> QED BY <1>1, <2>1
<1>3. PathSoFar("path")
  BY <1>1, <1>2 DEF PathSoFar, Top
<1> QED BY <1>1, <1>3 DEF RecordInv

\* A walk is begun: nothing is listed, and ptr is where the list starts.
LEMMA PropertiesBegun ==
  ASSUME UNCHANGED memory, ptr' = Start("properties", {}), count' = 0,
         list'["properties"] = <<>>
  PROVE  PropertiesSoFar'
<1>0. UFieldLists("properties")' = UFieldLists("properties")
  BY UFieldListsStay
<1> SUFFICES ASSUME NEW c \in UFieldLists("properties")
             PROVE  \E n \in 0..Len(c) :
                      /\ ptr' = IF n < Len(c) THEN c[n + 1] ELSE None
                      /\ count' = Len(list'["properties"])
                      /\ ListsFirst(list'["properties"], c, n, PropertyFields')
  BY <1>0 DEF PropertiesSoFar
<1>1. Len(c) \in Nat \ {0} /\ c[1] = Start("properties", {})
  BY UFieldListFacts
<1>2. ListsFirst(<<>>, c, 0, PropertyFields') /\ Len(<<>>) = 0
  BY ListsNone
<1>3. 0 \in 0..Len(c) /\ 0 < Len(c)
  BY <1>1
<1> QED BY <1>1, <1>2, <1>3

LEMMA FunctionsBegun ==
  ASSUME UNCHANGED memory, ptr' = Start("functions", {}), count' = 0,
         list'["functions"] = <<>>
  PROVE  FunctionsSoFar'
<1>0. UFieldLists("functions")' = UFieldLists("functions")
  BY UFieldListsStay
<1> SUFFICES ASSUME NEW c \in UFieldLists("functions")
             PROVE  /\ count' <= MaxWalk /\ count' <= Len(c)
                    /\ ptr' = IF count' < Len(c) THEN c[count' + 1] ELSE None
                    /\ ListsFirst(list'["functions"], c, count', FunctionFields')
  BY <1>0 DEF FunctionsSoFar
<1>1. Len(c) \in Nat \ {0} /\ c[1] = Start("functions", {})
  BY UFieldListFacts
<1>2. ListsFirst(<<>>, c, 0, FunctionFields')
  BY ListsNone
<1> QED BY <1>1, <1>2, Constants

\* What is whole stays so while the game leaves the memory alone.
LEMMA CleanStays ==
  ASSUME Later(names, names'), steady' => steady, Clean'
  PROVE  Clean
BY DEF Clean, KindsRead, Later

LEMMA PathStays ==
  ASSUME NEW w, PathWhole(w), UNCHANGED memory, path'[w] = path[w],
         Later(names, names'), steady' => steady
  PROVE  PathWhole(w)'
BY DEF PathWhole, Top, Right, Later

LEMMA PropertiesStay ==
  ASSUME PropertiesWhole, UNCHANGED memory, list'["properties"] = list["properties"]
  PROVE  PropertiesWhole'
<1>1. UFieldLists("properties")' = UFieldLists("properties") /\ PropertyFields' = PropertyFields
  BY UFieldListsStay
<1> QED BY <1>1 DEF PropertiesWhole

(***************************************************************************)
(* The steps.                                                              *)
(***************************************************************************)

\* What a read that fails nowhere gives.
LEMMA ResolvedClean ==
  ASSUME NEW s, NEW n \in Named, NEW r, Resolved(s, n, r), r.names.fails = s.fails
  PROVE  \/ IndexOf[n] \in r.names.misread
         \/ /\ r.text.of = IndexOf[n] /\ r.text.suffix = Suffix(n)
            /\ r.text.len >= AtMost(LengthOf[IndexOf[n]], Keep)
            /\ r.text.len <= LengthOf[IndexOf[n]]
BY DEF Resolved, RightIn

LEMMA FollowClean ==
  ASSUME NEW s, Good(s), NEW p, NEW o \in Follow(s, p), o.names.fails = s.fails
  PROVE  o.to = p
<1>1. \/ o = [to |-> p, names |-> s]
      \/ o = [to |-> None, names |-> Failed(s)] /\ ReadFails(s)
  BY DEF Follow
<1>2. CASE o = [to |-> None, names |-> Failed(s)] /\ ReadFails(s)
  <2>1. Failed(s).fails = s.fails + 1 /\ s.fails \in Nat
    BY <1>2, FailedGood, Constants DEF Good, NameStates
  <2> QED BY <1>2, <2>1
<1> QED BY <1>1, <1>2

\* What follows a path or a walk.
LEMMA GoesOn ==
  ASSUME GoOn
  PROVE  /\ pc = "path" => pc' = "to super"
         /\ pc \in {"to super", "super"} => pc' = "to properties"
         /\ pc = "properties" => pc' = "to functions"
         /\ pc = "functions" => pc' = "done"
BY DEF GoOn, After

\* A path that is finished is followed by what comes next.
LEMMA PathEnds ==
  ASSUME CInv, RecordInv, Clean, NEW w \in {"path", "super"}, pc = w, GoOn, PathWhole(w)',
         \A v \in {"path", "super"} : v # w => path'[v] = path[v],
         UNCHANGED <<memory, list>>, Later(names, names'), steady' => steady
  PROVE  RecordInv'
<1>1. CASE w = "path"
  <2>1. pc' = "to super"
    BY <1>1, GoesOn
  <2> QED BY <1>1, <2>1 DEF RecordInv
<1>2. CASE w = "super"
  <2>1. pc' = "to properties"
    BY <1>2, GoesOn
  <2>2. PathWhole("path")'
    BY <1>2, PathStays DEF RecordInv
  <2> QED BY <1>2, <2>1, <2>2 DEF RecordInv
<1> QED BY <1>1, <1>2

\* Nothing begins with no pointer.
LEMMA NoChain ==
  ASSUME NEW to, NEW c \in Chains(to, None, Objects)
  PROVE  FALSE
<1>1. Len(c) \in Nat \ {0} /\ c \in [1..Len(c) -> Objects] /\ c[1] = None
  BY ClassSetsAssumption, ChainFacts
<1>2. c[1] \in Objects
  BY <1>1
<1> QED BY <1>1, <1>2, ClassNoneAssumption

\* What the reads of pointers leave of a clean record: all of them succeeded.
LEMMA ReadsButClean ==
  ASSUME CInv, NEW X, IsFiniteSet(X), ReadsBut(X), Clean'
  PROVE  X = {} /\ Clean /\ Later(names, names') /\ (steady' => steady)
<1>1. X = {}
  BY ReadsButGood DEF Clean
<1>2. PICK z : Good(z) /\ Later(names, z) /\ Reads(z)
  BY ReadsButGood
<1>3. Later(names, names') /\ (steady' => steady)
  BY <1>2, ReadsKeep
<1> QED BY <1>1, <1>3, CleanStays

LEMMA FindsSuperRecords == CInv /\ RecordInv /\ FindsSuper => RecordInv'
<1> SUFFICES ASSUME CInv, RecordInv, FindsSuper, Clean' PROVE RecordInv'
  BY DEF RecordInv
<1>1. PICK X \in SUBSET SuperPointers :
        /\ ReadsBut(X)
        /\ IF SuperOf(X) = None THEN GoOn
           ELSE pc' = "super" /\ ptr' = SuperOf(X) /\ UNCHANGED count
  BY DEF FindsSuper
<1>2. pc = "to super" /\ UNCHANGED <<memory, path, list>> /\ count = 0
  BY DEF FindsSuper, CInv, Shape
<1>3. X = {} /\ Clean /\ Later(names, names') /\ (steady' => steady)
  BY <1>1, PointersFinite, ReadsButClean
<1>4. PathWhole("path")'
  BY <1>2, <1>3, PathStays DEF RecordInv
<1>5. Top("super") = memory.super["SUPER"] /\ Top("super")' = Top("super")
  BY <1>2 DEF Top
<1>6. Top("super") # None => SuperOf({}) = Top("super")
  BY <1>5 DEF SuperOf, Or, Held
<1>7. CASE SuperOf({}) = None
  <2>1. pc' = "to properties"
    BY <1>1, <1>2, <1>3, <1>7, GoesOn
  <2>2. Top("super") = None
    BY <1>6, <1>7
  <2>3. PathWhole("super")'
    BY <1>5, <2>2, NoChain DEF PathWhole
  <2> QED BY <1>4, <2>1, <2>3 DEF RecordInv
<1>8. CASE SuperOf({}) # None
  <2>1. pc' = "super" /\ ptr' = SuperOf({}) /\ count' = 0
    BY <1>1, <1>2, <1>3, <1>8
  <2>2. CASE Top("super") = None
    <3>1. PathSoFar("super")'
      BY <1>5, <2>2, NoChain DEF PathSoFar
    <3> QED BY <1>4, <2>1, <3>1 DEF RecordInv
  <2>3. CASE Top("super") # None
    <3>1. PathSoFar("super")'
      BY <1>2, <1>6, <2>1, <2>3, PathBegun
    <3> QED BY <1>4, <2>1, <3>1 DEF RecordInv
  <2> QED BY <2>2, <2>3
<1> QED BY <1>7, <1>8

LEMMA FindsListRecords ==
  ASSUME CInv, RecordInv, NEW w \in {"properties", "functions"},
         NEW to \in {"to properties", "to functions"},
         w = "properties" <=> to = "to properties", FindsList(w, to), Clean'
  PROVE  RecordInv'
<1>1. /\ pc = to /\ pc' = w /\ UNCHANGED <<memory, count, path, list>>
  BY DEF FindsList
<1>2. PICK X \in SUBSET StartPointers : ReadsBut(X) /\ ptr' = Start(w, X)
  BY DEF FindsList
<1>3. X = {} /\ Clean /\ Later(names, names') /\ (steady' => steady)
  BY <1>2, PointersFinite, ReadsButClean
<1>4. count' = 0 /\ list'[w] = <<>> /\ ptr' = Start(w, {})
  BY <1>1, <1>2, <1>3 DEF CInv, Shape
<1>5. PathWhole("path") /\ PathWhole("super")
  BY <1>1, <1>3 DEF RecordInv
<1>6. PathWhole("path")' /\ PathWhole("super")'
  BY <1>1, <1>3, <1>5, PathStays
<1>7. CASE w = "properties"
  <2>1. PropertiesSoFar'
    BY <1>1, <1>4, <1>7, PropertiesBegun
  <2> QED BY <1>1, <1>6, <1>7, <2>1 DEF RecordInv
<1>8. CASE w = "functions"
  <2>1. FunctionsSoFar'
    BY <1>1, <1>4, <1>8, FunctionsBegun
  <2>2. to = "to functions"
    BY <1>8
  <2>3. PropertiesWhole'
    BY <1>1, <1>3, <2>2, PropertiesStay DEF RecordInv
  <2> QED BY <1>1, <1>6, <1>8, <2>1, <2>3 DEF RecordInv
<1> QED BY <1>7, <1>8

\* What is known of a path under way.
LEMMA PathKnown ==
  ASSUME CInv, RecordInv, Clean, NEW w \in {"path", "super"}, pc = w,
         NEW o \in Chains(memory.outer, Top(w), Objects)
  PROVE  /\ Len(o) \in Nat \ {0} /\ memory.outer[o[Len(o)]] = None
         /\ \A i \in 1..Len(o) : o[i] \in Objects
         /\ \A i \in 1..(Len(o) - 1) : o[i + 1] = memory.outer[o[i]]
         /\ count \in Nat /\ count < Len(o) /\ ptr = o[count + 1] /\ Len(path[w]) = count
         /\ path[w] \in Seq(Text)
         /\ \A i \in 1..count : Right(path[w][i], o[i])
<1> DEFINE to == memory.outer
           p == Top(w)
<1>1. /\ Len(o) \in Nat \ {0} /\ o \in [1..Len(o) -> Objects] /\ to[o[Len(o)]] = None
      /\ \A i \in 1..(Len(o) - 1) : o[i + 1] = to[o[i]]
  <2>1. o \in Chains(to, p, Objects) /\ IsFiniteSet(Objects)
    BY ClassSetsAssumption
  <2> HIDE DEF to, p
  <2>2. Len(o) \in Nat \ {0}
    BY <2>1, ChainFacts
  <2>3. o \in [1..Len(o) -> Objects]
    BY <2>1, ChainFacts
  <2>4. to[o[Len(o)]] = None
    BY <2>1, ChainFacts
  <2>5. \A i \in 1..(Len(o) - 1) : o[i + 1] = to[o[i]]
    BY <2>1, ChainFacts
  <2> QED BY <2>2, <2>3, <2>4, <2>5
<1>2. /\ count < Len(o) /\ ptr = o[count + 1]
      /\ \A i \in 1..count : Right(path[w][i], o[i])
  BY DEF RecordInv, PathSoFar
<1>3. count \in Nat /\ Len(path[w]) = count /\ path[w] \in Seq(Text)
  BY DEF CInv, Shape, Building
<1> QED BY <1>1, <1>2, <1>3

LEMMA OuterNameRecords == CInv /\ RecordInv /\ OuterName => RecordInv'
<1> SUFFICES ASSUME CInv, RecordInv, OuterName, Clean' PROVE RecordInv'
  BY DEF RecordInv
<1>1. PICK w \in {"path", "super"} : pc = w
  BY DEF OuterName, Building
<1>0. PICK r \in ue4r_resolve_name(names, ptr) : \E o \in Follow(r.names, memory.outer[ptr]) :
        /\ path' = [path EXCEPT ![pc] = Append(@, r.text)]
        /\ Reads(o.names)
        /\ IF o.to = None THEN GoOn ELSE ptr' = o.to /\ count' = Deeper /\ UNCHANGED pc
  BY DEF OuterName
<1>2. PICK o \in Follow(r.names, memory.outer[ptr]) :
        /\ path' = [path EXCEPT ![pc] = Append(@, r.text)]
        /\ Reads(o.names)
        /\ IF o.to = None THEN GoOn ELSE ptr' = o.to /\ count' = Deeper /\ UNCHANGED pc
  BY <1>0
<1>3. ptr \in Objects /\ ptr \in Named /\ count <= MaxDepth /\ count \in Nat
  BY <1>1 DEF CInv, Shape, Building, Named, OuterName
<1>4. Resolved(names, ptr, r)
  BY <1>3, ResolveRight DEF CInv
<1>5. Good(r.names) /\ Later(names, r.names) /\ r.text \in Text /\ Good(names)
  BY <1>4 DEF Resolved, CInv
<1>6. Good(o.names) /\ Later(r.names, o.names) /\ Later(names, o.names)
  BY <1>5, FollowGood, LaterStill
<1>7. names' = o.names /\ o.names.fails = names.fails /\ steady
  BY <1>2 DEF Reads, Clean
<1>8. r.names.fails = names.fails /\ o.to = memory.outer[ptr]
  BY <1>5, <1>6, <1>7, LaterStill, FollowClean
<1>9. Clean /\ Later(names, names')
  BY <1>6, <1>7, CleanStays
<1>10. UNCHANGED <<memory, list>> /\ (steady' => steady)
  BY <1>7 DEF OuterName
<1>11. /\ path'[w] = Append(path[w], r.text)
       /\ \A v \in {"path", "super"} : v # w => path'[v] = path[v]
  BY <1>1, <1>2 DEF CInv, Shape
<1>12. ASSUME NEW c \in Chains(memory.outer, Top(w), Objects), NEW i \in 1..(count + 1)
       PROVE  Right(path[w][i], c[i])'
  <2>1. /\ ptr = c[count + 1] /\ Len(path[w]) = count /\ path[w] \in Seq(Text)
        /\ \A j \in 1..count : Right(path[w][j], c[j])
    BY <1>1, <1>9, PathKnown
  <2>2. CASE i <= count
    <3>1. i \in 1..count /\ path'[w][i] = path[w][i]
      BY <1>3, <1>5, <1>11, <2>1, <2>2
    <3>2. Right(path[w][i], c[i])
      BY <2>1, <3>1
    <3> QED BY <1>9, <1>10, <3>1, <3>2 DEF Right, Later
  <2>3. CASE i = count + 1
    <3>1. path'[w][i] = r.text
      BY <1>3, <1>5, <1>11, <2>1, <2>3
    <3>2. r.names.misread \subseteq names'.misread
      BY <1>6, <1>7 DEF Later
    <3>3. \/ IndexOf[ptr] \in r.names.misread
          \/ /\ r.text.of = IndexOf[ptr] /\ r.text.suffix = Suffix(ptr)
             /\ r.text.len >= AtMost(LengthOf[IndexOf[ptr]], Keep)
             /\ r.text.len <= LengthOf[IndexOf[ptr]]
      BY <1>3, <1>4, <1>8, ResolvedClean
    <3> QED BY <2>1, <2>3, <3>1, <3>2, <3>3 DEF Right
  <2> QED BY <1>3, <2>2, <2>3
<1>13. CASE o.to # None
  <2>1. pc' = w /\ ptr' = memory.outer[ptr] /\ count' = count + 1 /\ memory.outer[ptr] # None
    BY <1>1, <1>2, <1>8, <1>13 DEF Deeper
  <2>2. ASSUME NEW c \in Chains(memory.outer, Top(w), Objects)
        PROVE  count' < Len(c) /\ ptr' = c[count' + 1]
    <3>1. /\ Len(c) \in Nat \ {0} /\ memory.outer[c[Len(c)]] = None
          /\ \A i \in 1..(Len(c) - 1) : c[i + 1] = memory.outer[c[i]]
          /\ count < Len(c) /\ ptr = c[count + 1]
      BY <1>1, <1>9, PathKnown
    <3>2. count + 1 # Len(c)
      BY <2>1, <3>1
    <3>3. count + 1 \in 1..(Len(c) - 1)
      BY <1>3, <3>1, <3>2
    <3> QED BY <2>1, <3>1, <3>3, <1>3
  <2>3. PathSoFar(w)'
    BY <1>10, <1>12, <2>1, <2>2 DEF PathSoFar, Top
  <2>4. w = "super" => PathWhole("path")'
    BY <1>1, <1>9, <1>10, <1>11, PathStays DEF RecordInv
  <2> QED BY <2>1, <2>3, <2>4 DEF RecordInv
<1>14. CASE o.to = None
  <2>1. GoOn /\ memory.outer[ptr] = None
    BY <1>2, <1>8, <1>14
  <2>2. ASSUME NEW c \in Chains(memory.outer, Top(w), Objects)
        PROVE  /\ Len(path'[w]) = AtMost(Len(c), MaxDepth + 2)
               /\ \A i \in 1..Len(path'[w]) :
                    IF i = MaxDepth + 2 THEN path'[w][i] = Ellipsis ELSE Right(path[w][i], c[i])'
    <3>1. /\ Len(c) \in Nat \ {0} /\ \A i \in 1..Len(c) : c[i] \in Objects
          /\ \A i \in 1..(Len(c) - 1) : c[i + 1] = memory.outer[c[i]]
          /\ count < Len(c) /\ ptr = c[count + 1] /\ Len(path[w]) = count /\ path[w] \in Seq(Text)
      BY <1>1, <1>9, PathKnown
    <3>2. count + 1 = Len(c)
      <4> SUFFICES ASSUME count + 1 # Len(c) PROVE FALSE
        OBVIOUS
      <4>1. count + 1 \in 1..(Len(c) - 1) /\ count + 2 \in 1..Len(c)
        BY <1>3, <3>1
      <4>2. c[count + 2] = None /\ c[count + 2] \in Objects
        BY <2>1, <3>1, <4>1, <1>3
      <4>3. None \notin Objects
        BY ClassNoneAssumption
      <4> QED BY <4>2, <4>3
    <3>3. Len(path'[w]) = count + 1
      BY <1>5, <1>11, <3>1
    <3>4. Len(path'[w]) = AtMost(Len(c), MaxDepth + 2)
      BY <1>3, <3>1, <3>2, <3>3, Constants DEF AtMost
    <3>5. \A i \in 1..Len(path'[w]) : i # MaxDepth + 2
      BY <1>3, <3>3, Constants
    <3> QED BY <1>12, <3>3, <3>4, <3>5
  <2>3. PathWhole(w)'
    BY <1>10, <2>2 DEF PathWhole, Top
  <2> QED BY <1>1, <1>9, <1>10, <1>11, <2>1, <2>3, PathEnds
<1> QED BY <1>13, <1>14

LEMMA TooDeepRecords == CInv /\ RecordInv /\ TooDeep => RecordInv'
<1> SUFFICES ASSUME CInv, RecordInv, TooDeep, Clean' PROVE RecordInv'
  BY DEF RecordInv
<1>1. PICK w \in {"path", "super"} : pc = w
  BY DEF TooDeep, Building
<1>2. /\ path' = [path EXCEPT ![w] = Append(@, Ellipsis)] /\ GoOn
      /\ UNCHANGED <<memory, names, steady, list>>
  BY <1>1 DEF TooDeep
<1>3. Clean /\ Later(names, names')
  BY <1>2, Constants DEF Clean, KindsRead, CInv, Good, NameStates, Later
<1>4. count = MaxDepth + 1
  <2>1. count > MaxDepth
    BY DEF TooDeep
  <2>2. count <= MaxDepth + 1 /\ count \in Nat
    BY <1>1 DEF CInv, Shape, Building
  <2> QED BY <2>1, <2>2, Constants
<1>5. Ellipsis \in Text
  BY DEF Ellipsis, Text
<1>6. /\ path'[w] = Append(path[w], Ellipsis)
      /\ \A v \in {"path", "super"} : v # w => path'[v] = path[v]
  BY <1>1, <1>2 DEF CInv, Shape
<1>7. ASSUME NEW c \in Chains(memory.outer, Top(w), Objects)
      PROVE  /\ Len(path'[w]) = AtMost(Len(c), MaxDepth + 2)
             /\ \A i \in 1..Len(path'[w]) :
                  IF i = MaxDepth + 2 THEN path'[w][i] = Ellipsis ELSE Right(path[w][i], c[i])'
  <2>1. /\ Len(c) \in Nat \ {0} /\ count < Len(c) /\ Len(path[w]) = count /\ path[w] \in Seq(Text)
        /\ \A i \in 1..count : Right(path[w][i], c[i])
    BY <1>1, <1>3, PathKnown
  <2>2. Len(path'[w]) = MaxDepth + 2 /\ path'[w][MaxDepth + 2] = Ellipsis
    BY <1>4, <1>5, <1>6, <2>1, Constants
  <2>3. Len(path'[w]) = AtMost(Len(c), MaxDepth + 2)
    BY <1>4, <2>1, <2>2, Constants DEF AtMost
  <2>4. ASSUME NEW i \in 1..Len(path'[w]), i # MaxDepth + 2 PROVE Right(path[w][i], c[i])'
    <3>1. i \in 1..count /\ path'[w][i] = path[w][i]
      BY <1>4, <1>5, <1>6, <2>1, <2>2, <2>4, Constants
    <3>2. Right(path[w][i], c[i])
      BY <2>1, <3>1
    <3> QED BY <1>2, <3>1, <3>2 DEF Right
  <2> QED BY <2>2, <2>3, <2>4
<1>8. PathWhole(w)'
  BY <1>2, <1>7 DEF PathWhole, Top
<1> QED BY <1>1, <1>2, <1>3, <1>6, <1>8, PathEnds

\* A field of the chain, and the one that follows it.
LEMMA NextInChain ==
  ASSUME CInv, NEW w, NEW c \in UFieldLists(w), NEW n \in 0..Len(c),
         ptr # None, ptr = IF n < Len(c) THEN c[n + 1] ELSE None
  PROVE  /\ n + 1 \in 0..Len(c) /\ ptr = c[n + 1] /\ UField(ptr)
         /\ memory.next[ptr] = IF n + 1 < Len(c) THEN c[n + 2] ELSE None
<1> DEFINE to == memory.next
<1>1. Len(c) \in Nat \ {0}
  BY UFieldListFacts
<1>2. to[c[Len(c)]] = None
  BY UFieldListFacts
<1>3. \A i \in 1..(Len(c) - 1) : c[i + 1] = to[c[i]]
  BY UFieldListFacts
<1>4. n < Len(c) /\ ptr = c[n + 1] /\ n + 1 \in 0..Len(c)
  BY <1>1
<1>5. memory.next[ptr] = IF n + 1 < Len(c) THEN c[n + 2] ELSE None
  <2>1. PICK m : m = Len(c)
    OBVIOUS
  <2>2. PICK q \in Nat : q = n
    OBVIOUS
  <2> DEFINE next == memory.next
  <2>3. m \in Nat \ {0} /\ q < m /\ ptr = c[q + 1]
    BY <1>1, <1>4, <2>1, <2>2
  <2>4. next[c[m]] = None /\ \A i \in 1..(m - 1) : c[i + 1] = next[c[i]]
    BY <1>2, <1>3, <2>1
  <2> HIDE DEF next
  <2>5. next[ptr] = IF q + 1 < m THEN c[q + 2] ELSE None
    <3>1. CASE q + 1 < m
      <4>1. q + 1 \in 1..(m - 1) /\ (q + 1) + 1 = q + 2
        BY <2>3, <3>1
      <4>2. c[(q + 1) + 1] = next[c[q + 1]]
        BY <2>4, <4>1
      <4>3. c[q + 2] = next[ptr]
        BY <2>3, <4>1, <4>2
      <4> QED BY <3>1, <4>3
    <3>2. CASE ~(q + 1 < m)
      <4>1. q + 1 = m
        BY <2>3, <3>2
      <4> QED BY <2>3, <2>4, <3>2, <4>1
    <3> QED BY <3>1, <3>2
  <2>6. memory.next[ptr] = IF n + 1 < m THEN c[n + 2] ELSE None
    BY <2>2, <2>5 DEF next
  <2> QED BY <2>1, <2>6
<1>6. UField(ptr)
  <2>1. n + 1 \in 1..Len(c)
    BY <1>1, <1>4
  <2> QED BY <1>4, <2>1, UFieldListFacts
<1> QED BY <1>4, <1>5, <1>6

\* A walk that comes to what is no UField is on no list of UFields.
LEMMA OnUFields ==
  ASSUME CInv, RecordInv, Clean, NEW w \in {"properties", "functions"}, Walking(w), ~UField(ptr)
  PROVE  UFieldLists(w) = {}
<1> SUFFICES ASSUME NEW c \in UFieldLists(w) PROVE FALSE
  OBVIOUS
<1>1. pc = w /\ ptr # None
  BY DEF Walking
<1>2. PICK n \in 0..Len(c) : ptr = IF n < Len(c) THEN c[n + 1] ELSE None
  <2>1. CASE w = "properties"
    BY <1>1, <2>1 DEF RecordInv, PropertiesSoFar
  <2>2. CASE w = "functions"
    <3>1. count <= Len(c) /\ ptr = IF count < Len(c) THEN c[count + 1] ELSE None
      BY <1>1, <2>2 DEF RecordInv, FunctionsSoFar
    <3>2. count \in Nat /\ Len(c) \in Nat
      <4>1. Len(c) \in Nat
        BY UFieldListFacts
      <4> QED BY <4>1 DEF CInv, Shape
    <3> QED BY <3>1, <3>2
  <2> QED BY <2>1, <2>2
<1> QED BY <1>1, <1>2, NextInChain

\* There nothing is claimed of its list.
LEMMA OffList ==
  ASSUME CInv, RecordInv, Clean, NEW w \in {"properties", "functions"}, Walking(w), ~UField(ptr),
         UNCHANGED <<memory, pc, path>>,
         \A v \in {"properties", "functions"} : v # w => list'[v] = list[v],
         Later(names, names'), steady' => steady
  PROVE  RecordInv'
<1>1. pc = w /\ pc' = w /\ UNCHANGED <<memory, path>>
  BY DEF Walking
<1>2. UFieldLists(w)' = {}
  BY OnUFields, UFieldListsStay
<1>3. PathWhole("path")' /\ PathWhole("super")'
  BY <1>1, PathStays DEF RecordInv
<1>4. CASE w = "properties"
  <2>1. PropertiesSoFar'
    BY <1>2, <1>4 DEF PropertiesSoFar
  <2> QED BY <1>1, <1>3, <1>4, <2>1 DEF RecordInv
<1>5. CASE w = "functions"
  <2>1. FunctionsSoFar'
    BY <1>2, <1>5 DEF FunctionsSoFar
  <2>2. list'["properties"] = list["properties"]
    BY <1>5
  <2>3. PropertiesWhole'
    BY <1>1, <1>5, <2>2, PropertiesStay DEF RecordInv
  <2> QED BY <1>1, <1>3, <1>5, <2>1, <2>3 DEF RecordInv
<1> QED BY <1>4, <1>5

\* A walk that reads without fail follows the link of a UField.
LEMMA StepClean ==
  ASSUME CInv, NEW s, Good(s), Later(names, s), Step(s), UField(ptr), Clean'
  PROVE  /\ ptr' = memory.next[ptr] /\ s.fails = names.fails /\ s.misread \subseteq names'.misread
         /\ Later(names, names') /\ steady
<1>1. PICK o \in Follow(s, memory.next[ptr]) : Reads(o.names) /\ ptr' = o.to
  BY DEF Step
<1>2. Good(o.names) /\ Later(s, o.names)
  BY FollowGood
<1>3. names' = o.names /\ o.names.fails = names.fails /\ steady
  BY <1>1 DEF Reads, Clean
<1>4. s.fails = names.fails /\ Later(names, o.names)
  BY <1>2, <1>3, LaterStill DEF CInv
<1>5. o.to = memory.next[ptr]
  BY <1>3, <1>4, FollowClean
<1> QED BY <1>1, <1>2, <1>3, <1>4, <1>5 DEF Later

\* The name of a field's class tells what it is, unless it was misread.
LEMMA KindSaid ==
  ASSUME CInv, NEW w \in {"properties", "functions"}, Walking(w), UField(ptr),
         NEW t \in ue4r_resolve_name(names, memory.kind[ptr]), t.names.fails = names.fails,
         t.names.misread \subseteq names'.misread, KindsRead',
         NEW k \in {"Property", "Function"}
  PROVE  Says(t.text, k) <=> memory.kind[ptr] = k
<1>2. PICK j \in UFields : j = memory.kind[ptr]
  BY DEF UField
<1>3. j \in Named /\ k \in Named /\ k \in UFields
  BY <1>2 DEF Named, UFields
<1>4. Resolved(names, j, t)
  BY <1>2, <1>3, ResolveRight DEF CInv
<1>5. t.text.of \in {IndexOf[j], None}
  BY <1>4 DEF Resolved
<1>6. IndexOf[k] \in Indices /\ None \notin Indices
  BY <1>3, NameOf, ClassNoneAssumption
<1>7. CASE j = k
  <2>1. IndexOf[k] \notin t.names.misread
    BY DEF KindsRead
  <2>2. t.text.of = IndexOf[j]
    BY <1>3, <1>4, <1>7, <2>1, ResolvedClean
  <2> QED BY <1>2, <1>7, <2>2 DEF Says
<1>8. CASE j # k
  <2>1. IndexOf[j] # IndexOf[k]
    BY <1>2, <1>3, <1>8, KindsAssumption
  <2> QED BY <1>2, <1>5, <1>6, <1>8, <2>1 DEF Says
<1> QED BY <1>7, <1>8

\* A property joins the list.
LEMMA PropertyAdded ==
  ASSUME CInv, RecordInv, Clean, Walking("properties"), ptr \in PropertyFields,
         UNCHANGED <<memory, pc, path>>, count' = count + 1, ptr' = memory.next[ptr],
         NEW e \in Items, e.at = ptr, list' = [list EXCEPT !["properties"] = Append(@, e)],
         Later(names, names'), steady' => steady
  PROVE  RecordInv'
<1>1. pc = "properties" /\ ptr # None
  BY DEF Walking
<1>2. /\ list["properties"] \in Seq(Items) /\ count \in Nat
      /\ list'["properties"] = Append(list["properties"], e)
  BY DEF CInv, Shape
<1>3. Len(list'["properties"]) = Len(list["properties"]) + 1
  BY <1>2
<1>4. PropertyFields' = PropertyFields /\ UFieldLists("properties")' = UFieldLists("properties")
  BY UFieldListsStay
<1>5. ASSUME NEW c \in UFieldLists("properties")
      PROVE  \E n \in 0..Len(c) :
               /\ ptr' = IF n < Len(c) THEN c[n + 1] ELSE None
               /\ count' = Len(list'["properties"])
               /\ ListsFirst(list'["properties"], c, n, PropertyFields)
  <2>1. PICK n \in 0..Len(c) :
          /\ ptr = IF n < Len(c) THEN c[n + 1] ELSE None
          /\ count = Len(list["properties"])
          /\ ListsFirst(list["properties"], c, n, PropertyFields)
    BY <1>1 DEF RecordInv, PropertiesSoFar
  <2>2. /\ n + 1 \in 0..Len(c) /\ ptr = c[n + 1]
        /\ memory.next[ptr] = IF n + 1 < Len(c) THEN c[n + 2] ELSE None
    BY <1>1, <2>1, NextInChain
  <2>3. n \in Nat /\ (n + 1) + 1 = n + 2
    OBVIOUS
  <2>4. PICK s \in Seq(Items) : s = list["properties"]
    BY <1>2
  <2>5. PICK F : F = PropertyFields
    OBVIOUS
  <2>6. ListsFirst(Append(s, e), c, n + 1, F)
    BY <2>1, <2>2, <2>3, <2>4, <2>5, ListsOne
  <2> QED BY <1>2, <1>3, <2>1, <2>2, <2>3, <2>4, <2>5, <2>6
<1>6. PropertiesSoFar'
  BY <1>4, <1>5 DEF PropertiesSoFar
<1>7. PathWhole("path")' /\ PathWhole("super")'
  BY <1>1, PathStays DEF RecordInv
<1> QED BY <1>1, <1>6, <1>7 DEF RecordInv

\* A field that is none is passed over.
LEMMA PropertyPassed ==
  ASSUME CInv, RecordInv, Clean, Walking("properties"), ptr \notin PropertyFields,
         UNCHANGED <<memory, pc, path, list, count>>, ptr' = memory.next[ptr],
         Later(names, names'), steady' => steady
  PROVE  RecordInv'
<1>1. pc = "properties" /\ ptr # None
  BY DEF Walking
<1>4. PropertyFields' = PropertyFields /\ UFieldLists("properties")' = UFieldLists("properties")
  BY UFieldListsStay
<1>5. ASSUME NEW c \in UFieldLists("properties")
      PROVE  \E n \in 0..Len(c) :
               /\ ptr' = IF n < Len(c) THEN c[n + 1] ELSE None
               /\ count = Len(list["properties"])
               /\ ListsFirst(list["properties"], c, n, PropertyFields)
  <2>1. PICK n \in 0..Len(c) :
          /\ ptr = IF n < Len(c) THEN c[n + 1] ELSE None
          /\ count = Len(list["properties"])
          /\ ListsFirst(list["properties"], c, n, PropertyFields)
    BY <1>1 DEF RecordInv, PropertiesSoFar
  <2>2. /\ n + 1 \in 0..Len(c) /\ ptr = c[n + 1]
        /\ memory.next[ptr] = IF n + 1 < Len(c) THEN c[n + 2] ELSE None
    BY <1>1, <2>1, NextInChain
  <2>3. n \in Nat /\ (n + 1) + 1 = n + 2
    OBVIOUS
  <2>4. PICK s : s = list["properties"]
    OBVIOUS
  <2>5. PICK F : F = PropertyFields
    OBVIOUS
  <2>6. ListsFirst(s, c, n + 1, F)
    BY <2>1, <2>2, <2>3, <2>4, <2>5, ListsPast
  <2> QED BY <2>1, <2>2, <2>3, <2>4, <2>5, <2>6
<1>6. PropertiesSoFar'
  BY <1>4, <1>5 DEF PropertiesSoFar
<1>7. PathWhole("path")' /\ PathWhole("super")'
  BY <1>1, PathStays DEF RecordInv
<1> QED BY <1>1, <1>6, <1>7 DEF RecordInv

\* A child of the class is seen, and listed if it is a function.
LEMMA FunctionSeen ==
  ASSUME CInv, RecordInv, Clean, Walking("functions"),
         UNCHANGED <<memory, pc, path>>, count' = count + 1, ptr' = memory.next[ptr],
         \/ /\ ptr \in FunctionFields
            /\ \E e \in Items : e.at = ptr /\ list' = [list EXCEPT !["functions"] = Append(@, e)]
         \/ ptr \notin FunctionFields /\ UNCHANGED list,
         Later(names, names'), steady' => steady
  PROVE  RecordInv'
<1>1. pc = "functions" /\ ptr # None /\ count < MaxWalk
  BY DEF Walking
<1>2. list["functions"] \in Seq(Items) /\ count \in Nat
  BY DEF CInv, Shape
<1>3. list'["properties"] = list["properties"]
  BY DEF CInv, Shape
<1>4. FunctionFields' = FunctionFields /\ UFieldLists("functions")' = UFieldLists("functions")
  BY UFieldListsStay
<1>5. ASSUME NEW c \in UFieldLists("functions")
      PROVE  /\ count' <= MaxWalk /\ count' <= Len(c)
             /\ ptr' = IF count' < Len(c) THEN c[count' + 1] ELSE None
             /\ ListsFirst(list'["functions"], c, count', FunctionFields)
  <2>0. Len(c) \in Nat
    BY UFieldListFacts
  <2>1. /\ count <= Len(c)
        /\ ptr = IF count < Len(c) THEN c[count + 1] ELSE None
        /\ ListsFirst(list["functions"], c, count, FunctionFields)
    BY <1>1 DEF RecordInv, FunctionsSoFar
  <2>2. PICK n \in 0..Len(c) : n = count
    BY <1>2, <2>0, <2>1
  <2>3. /\ n + 1 \in 0..Len(c) /\ ptr = c[n + 1]
        /\ memory.next[ptr] = IF n + 1 < Len(c) THEN c[n + 2] ELSE None
    BY <1>1, <2>1, <2>2, NextInChain
  <2>4. n \in Nat /\ (n + 1) + 1 = n + 2
    OBVIOUS
  <2>5. PICK s \in Seq(Items) : s = list["functions"]
    BY <1>2
  <2>6. PICK F : F = FunctionFields
    OBVIOUS
  <2>7. ListsFirst(list'["functions"], c, n + 1, F)
    <3>1. CASE ptr \notin FunctionFields /\ UNCHANGED list
      <4>1. ListsFirst(s, c, n + 1, F)
        BY <2>1, <2>2, <2>3, <2>4, <2>5, <2>6, <3>1, ListsPast
      <4> QED BY <2>5, <3>1, <4>1
    <3>2. ASSUME ptr \in FunctionFields, NEW e \in Items, e.at = ptr,
                 list' = [list EXCEPT !["functions"] = Append(@, e)]
          PROVE  ListsFirst(list'["functions"], c, n + 1, F)
      <4>1. ListsFirst(Append(s, e), c, n + 1, F)
        BY <2>1, <2>2, <2>3, <2>4, <2>5, <2>6, <3>2, ListsOne
      <4>2. list'["functions"] = Append(s, e)
        BY <2>5, <3>2 DEF CInv, Shape
      <4> QED BY <4>1, <4>2
    <3> QED BY <3>1, <3>2
  <2>8. count' <= MaxWalk /\ count' <= Len(c)
    BY <1>1, <1>2, <2>0, <2>2, <2>3, Constants
  <2> QED BY <2>2, <2>3, <2>4, <2>6, <2>7, <2>8
<1>6. FunctionsSoFar'
  BY <1>4, <1>5 DEF FunctionsSoFar
<1>7. PathWhole("path")' /\ PathWhole("super")' /\ PropertiesWhole'
  BY <1>1, <1>3, PathStays, PropertiesStay DEF RecordInv
<1> QED BY <1>1, <1>6, <1>7 DEF RecordInv

\* What a field makes of the names that is read for its entry.
LEMMA NamedLater ==
  ASSUME CInv, NEW w \in {"properties", "functions"}, Walking(w),
         NEW t \in ClassName(names), NEW n \in OwnName(t.names), Step(n.names)
  PROVE  Later(names, names') /\ (steady' => steady)
<1>1. Good(names)
  BY DEF CInv
<1>2. Good(t.names) /\ Later(names, t.names)
  BY ClassNameGood
<1>3. Good(n.names) /\ Later(t.names, n.names)
  BY <1>2, OwnNameGood
<1>4. Later(names, n.names)
  BY <1>1, <1>2, <1>3, LaterStill
<1>5. PICK z : Good(z) /\ Later(names, z) /\ Reads(z)
  BY <1>3, <1>4, StepTo
<1> QED BY <1>5, ReadsKeep

\* Two names and a link that read without fail, for a property or a function.
LEMMA NamedClean ==
  ASSUME CInv, NEW w \in {"properties", "functions"}, Walking(w), UField(ptr),
         Clean', NEW k \in {"Property", "Function"},
         NEW t \in ClassName(names), Says(t.text, k),
         NEW n \in OwnName(t.names), Step(n.names)
  PROVE  /\ memory.kind[ptr] = k /\ ptr' = memory.next[ptr]
         /\ \E e \in Items : e = Entry(n.text) /\ e.at = ptr
<1>1. Good(names)
  BY DEF CInv
<1>2. /\ Good(t.names) /\ Later(names, t.names)
      /\ t \in ue4r_resolve_name(names, memory.kind[ptr])
  BY ClassNameGood
<1>3. Good(n.names) /\ Later(t.names, n.names) /\ n.text \in Text
  BY <1>2, OwnNameGood DEF Resolved
<1>4. Later(names, n.names) /\ (n.names.fails = names.fails => t.names.fails = names.fails)
  BY <1>1, <1>2, <1>3, LaterStill
<1>5. /\ ptr' = memory.next[ptr] /\ n.names.fails = names.fails
      /\ n.names.misread \subseteq names'.misread
  BY <1>3, <1>4, StepClean
<1>6. t.names.misread \subseteq names'.misread /\ t.names.fails = names.fails /\ KindsRead'
  BY <1>3, <1>4, <1>5 DEF Later, Clean
<1>7. memory.kind[ptr] = k
  BY <1>2, <1>6, KindSaid
<1>8. Entry(n.text) \in Items /\ Entry(n.text).at = ptr
  BY <1>3, EntryItem
<1> QED BY <1>5, <1>7, <1>8

LEMMA PropertyRecords == CInv /\ RecordInv /\ Property => RecordInv'
<1> SUFFICES ASSUME CInv, RecordInv, Property, Clean' PROVE RecordInv'
  BY DEF RecordInv
<1>1. /\ Walking("properties") /\ count' = count + 1 /\ UNCHANGED <<memory, pc, path>>
  BY DEF Property
<1>2. PICK t \in ClassName(names) :
        /\ Says(t.text, "Property")
        /\ \E n \in OwnName(t.names) :
             /\ list' = [list EXCEPT !["properties"] = Append(@, Entry(n.text))]
             /\ Step(n.names)
  BY DEF Property
<1>3. PICK n \in OwnName(t.names) :
        /\ list' = [list EXCEPT !["properties"] = Append(@, Entry(n.text))]
        /\ Step(n.names)
  BY <1>2
<1>4. Later(names, names') /\ (steady' => steady)
  BY <1>1, <1>2, <1>3, NamedLater
<1>5. Clean
  BY <1>4, CleanStays
<1>6. CASE UField(ptr)
  <2>1. /\ memory.kind[ptr] = "Property" /\ ptr' = memory.next[ptr]
        /\ \E e \in Items : e = Entry(n.text) /\ e.at = ptr
    BY <1>1, <1>2, <1>3, <1>6, NamedClean
  <2>2. PICK e \in Items : e = Entry(n.text) /\ e.at = ptr
    BY <2>1
  <2>3. ptr \in PropertyFields
    BY <1>1, <2>1, FieldNamed DEF PropertyFields
  <2>4. list' = [list EXCEPT !["properties"] = Append(@, e)]
    BY <1>3, <2>2
  <2> QED BY <1>1, <1>4, <1>5, <2>1, <2>2, <2>3, <2>4, PropertyAdded
<1>7. CASE ~UField(ptr)
  <2>1. \A v \in {"properties", "functions"} : v # "properties" => list'[v] = list[v]
    BY <1>3 DEF CInv, Shape
  <2> QED BY <1>1, <1>4, <1>5, <1>7, <2>1, OffList
<1> QED BY <1>6, <1>7

\* No UField is read as an FProperty while every read succeeds.
LEMMA FPropertyRecords == CInv /\ RecordInv /\ FProperty => RecordInv'
<1> SUFFICES ASSUME CInv, RecordInv, FProperty, Clean' PROVE RecordInv'
  BY DEF RecordInv
<1>1. Walking("properties") /\ UNCHANGED <<memory, pc, path>>
  BY DEF FProperty
<1>2. PICK z : /\ Good(z) /\ Later(names, z) /\ Reads(z)
               /\ (UField(ptr) => z.fails # names.fails)
               /\ list' = [list EXCEPT !["properties"] = Append(@, OtherEntry)]
  BY FPropertyReads
<1>3. Later(names, names') /\ (steady' => steady) /\ (steady' => z.fails = names.fails)
  BY <1>2, ReadsKeep
<1>4. ~UField(ptr)
  BY <1>2, <1>3 DEF Clean
<1>5. Clean
  BY <1>3, CleanStays
<1>6. \A v \in {"properties", "functions"} : v # "properties" => list'[v] = list[v]
  BY <1>2 DEF CInv, Shape
<1> QED BY <1>1, <1>3, <1>4, <1>5, <1>6, OffList

LEMMA FunctionRecords == CInv /\ RecordInv /\ Function => RecordInv'
<1> SUFFICES ASSUME CInv, RecordInv, Function, Clean' PROVE RecordInv'
  BY DEF RecordInv
<1>1. /\ Walking("functions") /\ count' = count + 1 /\ UNCHANGED <<memory, pc, path>>
  BY DEF Function, Counted
<1>2. PICK t \in ClassName(names) :
        /\ Says(t.text, "Function")
        /\ \E n \in OwnName(t.names) :
             /\ list' = [list EXCEPT !["functions"] = Append(@, Entry(n.text))]
             /\ Step(n.names)
  BY DEF Function
<1>3. PICK n \in OwnName(t.names) :
        /\ list' = [list EXCEPT !["functions"] = Append(@, Entry(n.text))]
        /\ Step(n.names)
  BY <1>2
<1>4. Later(names, names') /\ (steady' => steady)
  BY <1>1, <1>2, <1>3, NamedLater
<1>5. Clean
  BY <1>4, CleanStays
<1>6. CASE UField(ptr)
  <2>1. /\ memory.kind[ptr] = "Function" /\ ptr' = memory.next[ptr]
        /\ \E e \in Items : e = Entry(n.text) /\ e.at = ptr
    BY <1>1, <1>2, <1>3, <1>6, NamedClean
  <2>2. PICK e \in Items : e = Entry(n.text) /\ e.at = ptr
    BY <2>1
  <2>3. ptr \in FunctionFields
    BY <1>1, <2>1, FieldNamed DEF FunctionFields
  <2>4. list' = [list EXCEPT !["functions"] = Append(@, e)]
    BY <1>3, <2>2
  <2> QED BY <1>1, <1>4, <1>5, <2>1, <2>2, <2>3, <2>4, FunctionSeen
<1>7. CASE ~UField(ptr)
  <2>1. \A v \in {"properties", "functions"} : v # "functions" => list'[v] = list[v]
    BY <1>3 DEF CInv, Shape
  <2> QED BY <1>1, <1>4, <1>5, <1>7, <2>1, OffList
<1> QED BY <1>6, <1>7

\* A class whose name reads as another kind's is of another kind.
LEMMA PassedClean ==
  ASSUME CInv, NEW w \in {"properties", "functions"}, Walking(w),
         Clean', NEW k \in {"Property", "Function"},
         NEW t \in ClassName(names), ~Says(t.text, k), Step(t.names)
  PROVE  /\ Later(names, names') /\ (steady' => steady)
         /\ UField(ptr) => memory.kind[ptr] # k /\ ptr' = memory.next[ptr]
<1>1. /\ Good(t.names) /\ Later(names, t.names)
      /\ UField(ptr) => t \in ue4r_resolve_name(names, memory.kind[ptr])
  BY ClassNameGood
<1>2. PICK z : Good(z) /\ Later(names, z) /\ Reads(z)
  BY <1>1, StepTo
<1>3. Later(names, names') /\ (steady' => steady)
  BY <1>2, ReadsKeep
<1>4. ASSUME UField(ptr) PROVE memory.kind[ptr] # k /\ ptr' = memory.next[ptr]
  <2>1. /\ ptr' = memory.next[ptr] /\ t.names.fails = names.fails
        /\ t.names.misread \subseteq names'.misread
    BY <1>1, <1>4, StepClean
  <2>2. KindsRead'
    BY DEF Clean
  <2> QED BY <1>1, <1>4, <2>1, <2>2, KindSaid
<1> QED BY <1>3, <1>4

LEMMA NoPropertyRecords == CInv /\ RecordInv /\ NoProperty => RecordInv'
<1> SUFFICES ASSUME CInv, RecordInv, NoProperty, Clean' PROVE RecordInv'
  BY DEF RecordInv
<1>1. Walking("properties") /\ UNCHANGED <<memory, pc, count, path, list>>
  BY DEF NoProperty
<1>2. PICK t \in ClassName(names) : ~Says(t.text, "Property") /\ Step(t.names)
  BY DEF NoProperty
<1>3. /\ Later(names, names') /\ (steady' => steady)
      /\ UField(ptr) => memory.kind[ptr] # "Property" /\ ptr' = memory.next[ptr]
  BY <1>1, <1>2, PassedClean
<1>4. Clean
  BY <1>3, CleanStays
<1>5. CASE UField(ptr)
  <2>1. ptr \notin PropertyFields /\ ptr' = memory.next[ptr]
    BY <1>3, <1>5 DEF PropertyFields
  <2> QED BY <1>1, <1>3, <1>4, <2>1, PropertyPassed
<1>6. CASE ~UField(ptr)
  BY <1>1, <1>3, <1>4, <1>6, OffList
<1> QED BY <1>5, <1>6

LEMMA NoFunctionRecords == CInv /\ RecordInv /\ NoFunction => RecordInv'
<1> SUFFICES ASSUME CInv, RecordInv, NoFunction, Clean' PROVE RecordInv'
  BY DEF RecordInv
<1>1. Walking("functions") /\ count' = count + 1 /\ UNCHANGED <<memory, pc, path, list>>
  BY DEF NoFunction, Counted
<1>2. PICK t \in ClassName(names) : ~Says(t.text, "Function") /\ Step(t.names)
  BY DEF NoFunction
<1>3. /\ Later(names, names') /\ (steady' => steady)
      /\ UField(ptr) => memory.kind[ptr] # "Function" /\ ptr' = memory.next[ptr]
  BY <1>1, <1>2, PassedClean
<1>4. Clean
  BY <1>3, CleanStays
<1>5. CASE UField(ptr)
  <2>1. ptr \notin FunctionFields /\ ptr' = memory.next[ptr]
    BY <1>3, <1>5 DEF FunctionFields
  <2> QED BY <1>1, <1>3, <1>4, <2>1, FunctionSeen
<1>6. CASE ~UField(ptr)
  BY <1>1, <1>3, <1>4, <1>6, OffList
<1> QED BY <1>5, <1>6

\* A walk that is over has seen the whole list, or as much of it as the cap allows.
LEMMA WalkEndsRecords == CInv /\ RecordInv /\ WalkEnds => RecordInv'
<1> SUFFICES ASSUME CInv, RecordInv, WalkEnds, Clean' PROVE RecordInv'
  BY DEF RecordInv
<1>1. /\ pc \in {"properties", "functions"} /\ ~Walking(pc) /\ GoOn
      /\ UNCHANGED <<memory, names, steady, path, list>>
  BY DEF WalkEnds
<1>2. Clean /\ Later(names, names')
  BY <1>1, Constants DEF Clean, KindsRead, CInv, Good, NameStates, Later
<1>3. PathWhole("path")' /\ PathWhole("super")'
  BY <1>1, <1>2, PathStays DEF RecordInv
<1>4. None \notin Fields
  BY ClassNoneAssumption
<1>5. CASE pc = "properties"
  <2>1. ASSUME NEW c \in UFieldLists("properties")
        PROVE  \E n \in 0..Len(c) :
                 /\ ListsFirst(list["properties"], c, n, PropertyFields)
                 /\ n < Len(c) => Len(list["properties"]) = MaxWalk
    <3>1. PICK n \in 0..Len(c) :
            /\ ptr = IF n < Len(c) THEN c[n + 1] ELSE None
            /\ count = Len(list["properties"])
            /\ ListsFirst(list["properties"], c, n, PropertyFields)
      BY <1>2, <1>5 DEF RecordInv, PropertiesSoFar
    <3>2. Len(c) \in Nat /\ c \in [1..Len(c) -> Fields]
      BY UFieldListFacts
    <3>3. ASSUME n < Len(c) PROVE Len(list["properties"]) = MaxWalk
      <4>1. n + 1 \in 1..Len(c)
        BY <3>2, <3>3
      <4>2. ptr # None
        BY <1>4, <3>1, <3>2, <3>3, <4>1
      <4>3. ~(count < MaxWalk)
        BY <1>1, <1>5, <4>2 DEF Walking
      <4>4. count <= MaxWalk /\ count \in Nat
        BY <3>1 DEF CInv, Shape
      <4> QED BY <3>1, <4>3, <4>4, Constants
    <3> QED BY <3>1, <3>3
  <2>2. PropertiesWhole'
    <3>1. UFieldLists("properties")' = UFieldLists("properties") /\ PropertyFields' = PropertyFields
      BY <1>1, UFieldListsStay
    <3> QED BY <1>1, <2>1, <3>1 DEF PropertiesWhole
  <2>3. pc' = "to functions"
    BY <1>1, <1>5, GoesOn
  <2> QED BY <1>3, <2>2, <2>3 DEF RecordInv
<1>6. CASE pc = "functions"
  <2>1. ASSUME NEW c \in UFieldLists("functions")
        PROVE  ListsFirst(list["functions"], c, AtMost(MaxWalk, Len(c)), FunctionFields)
    <3>1. /\ count <= MaxWalk /\ count <= Len(c)
          /\ ptr = IF count < Len(c) THEN c[count + 1] ELSE None
          /\ ListsFirst(list["functions"], c, count, FunctionFields)
      BY <1>2, <1>6 DEF RecordInv, FunctionsSoFar
    <3>2. Len(c) \in Nat /\ c \in [1..Len(c) -> Fields] /\ count \in Nat
      <4>1. Len(c) \in Nat /\ c \in [1..Len(c) -> Fields]
        BY UFieldListFacts
      <4> QED BY <4>1 DEF CInv, Shape
    <3>3. count < Len(c) => count = MaxWalk
      <4> SUFFICES ASSUME count < Len(c) PROVE count = MaxWalk
        OBVIOUS
      <4>1. count + 1 \in 1..Len(c)
        BY <3>2
      <4>2. ptr # None
        BY <1>4, <3>1, <3>2, <4>1
      <4>3. ~(count < MaxWalk)
        BY <1>1, <1>6, <4>2 DEF Walking
      <4> QED BY <3>1, <3>2, <4>3, Constants
    <3>4. AtMost(MaxWalk, Len(c)) = count
      <4>1. PICK m : m = Len(c)
        OBVIOUS
      <4>2. count \in Nat /\ m \in Nat /\ MaxWalk \in Nat
        BY <3>2, <4>1, Constants
      <4>3. count <= MaxWalk /\ count <= m
        BY <3>1, <4>1
      <4>4. count < m => count = MaxWalk
        BY <3>3, <4>1
      <4>5. (IF MaxWalk < m THEN MaxWalk ELSE m) = count
        BY <4>2, <4>3, <4>4
      <4> QED BY <4>1, <4>5 DEF AtMost
    <3> QED BY <3>1, <3>4
  <2>2. FunctionsWhole'
    <3>1. UFieldLists("functions")' = UFieldLists("functions") /\ FunctionFields' = FunctionFields
      BY <1>1, UFieldListsStay
    <3> QED BY <1>1, <2>1, <3>1 DEF FunctionsWhole
  <2>3. PropertiesWhole'
    BY <1>1, <1>2, <1>6, PropertiesStay DEF RecordInv
  <2>4. pc' = "done"
    BY <1>1, <1>6, GoesOn
  <2> QED BY <1>3, <2>2, <2>3, <2>4 DEF RecordInv
<1> QED BY <1>1, <1>5, <1>6

LEMMA NextClassRecords == NextClass => RecordInv'
<1> SUFFICES ASSUME NextClass PROVE RecordInv'
  OBVIOUS
<1>1. pc' = "path" /\ ptr' = Top("path") /\ count' = 0 /\ UNCHANGED memory
  BY DEF NextClass, Top
<1>2. PathSoFar("path")'
  BY <1>1, PathBegun
<1> QED BY <1>1, <1>2 DEF RecordInv

LEMMA RecordStep == CInv /\ RecordInv /\ [Next]_vars => RecordInv'
<1> SUFFICES ASSUME CInv, RecordInv, [Next]_vars PROVE RecordInv'
  OBVIOUS
<1>1. CASE Game
  <2>1. ~steady'
    BY <1>1 DEF Game, FieldReused, ObjectReused
  <2> QED BY <2>1 DEF RecordInv, Clean
<1>2. CASE OuterName
  BY <1>2, OuterNameRecords
<1>3. CASE TooDeep
  BY <1>3, TooDeepRecords
<1>4. CASE Property \/ NoProperty \/ FProperty
  BY <1>4, PropertyRecords, NoPropertyRecords, FPropertyRecords
<1>5. CASE Function \/ NoFunction
  BY <1>5, FunctionRecords, NoFunctionRecords
<1>6. CASE Finds
  <2> SUFFICES ASSUME Clean' PROVE RecordInv'
    BY DEF RecordInv
  <2>1. CASE FindsSuper
    BY <2>1, FindsSuperRecords
  <2>2. CASE FindsList("properties", "to properties")
    BY <2>2, FindsListRecords
  <2>3. CASE FindsList("functions", "to functions")
    BY <2>3, FindsListRecords
  <2> QED BY <1>6, <2>1, <2>2, <2>3 DEF Finds
<1>7. CASE WalkEnds
  BY <1>7, WalkEndsRecords
<1>8. CASE NextClass
  BY <1>8, NextClassRecords
<1>9. CASE UNCHANGED vars
  <2>1. UNCHANGED <<memory, names, steady, pc, ptr, count, path, list>>
    BY <1>9 DEF vars
  <2>2. Clean' = Clean
    BY <2>1 DEF Clean, KindsRead
  <2>3. ASSUME NEW w PROVE PathSoFar(w)' = PathSoFar(w) /\ PathWhole(w)' = PathWhole(w)
    BY <2>1 DEF PathSoFar, PathWhole, Top, Right
  <2>4. PropertiesSoFar' = PropertiesSoFar /\ PropertiesWhole' = PropertiesWhole
    BY <2>1, UFieldListsStay DEF PropertiesSoFar, PropertiesWhole, ListsFirst
  <2>5. FunctionsSoFar' = FunctionsSoFar /\ FunctionsWhole' = FunctionsWhole
    BY <2>1, UFieldListsStay DEF FunctionsSoFar, FunctionsWhole, ListsFirst
  <2> QED BY <2>1, <2>2, <2>3, <2>4, <2>5 DEF RecordInv
<1> QED BY <1>1, <1>2, <1>3, <1>4, <1>5, <1>6, <1>7, <1>8, <1>9 DEF Next, Read

(***************************************************************************)
(* The theorems.                                                           *)
(***************************************************************************)

\* Paths and lists keep to their caps, and the walk stays among fields and
\* objects, whatever the game links them to.
THEOREM ClassTypes == Spec => []ClassTypeOK
BY ClassInit, ClassStep, CInvTypes, PTL DEF Spec

\* A cached name is the beginning of its index's name, and no object's number
\* comes with it, also when a long name was read in part (ue4_reflection.c:166).
THEOREM CacheIsRight == Spec => []CacheRight
BY ClassInit, ClassStep, CInvTypes, PTL DEF Spec

\* The name of a UProperty or a UFunction in a record is the name of the object it
\* is read for, whatever shares its slot of the cache (ue4_reflection.c:152-283).
\* Of the names of what is read as an FProperty nothing is claimed.
THEOREM NamesAreRight == Spec => []NamesRight
<1>1. CInv => NamesRight
  BY DEF CInv
<1> QED BY ClassInit, ClassStep, <1>1, PTL DEF Spec

\* The record of a class that the game left alone is whole if its lists are of UFields,
\* as they are in UE 4.18: its properties and its functions in the order of the list
\* they are linked in, from whichever pointer of the class leads to it, none missed
\* and none twice, up to the caps; and its path and its super class's, outer by outer
\* (ue4_reflection.c:313-540).  Chains that run in a circle are none of Chains.
THEOREM RecordsAreWhole == Spec => []RecordWhole
<1>1. RecordInv => RecordWhole
  BY DEF RecordInv, Clean, RecordWhole
<1> QED BY ClassInit, ClassStep, RecordInit, RecordStep, <1>1, PTL DEF Spec
=============================================================================
