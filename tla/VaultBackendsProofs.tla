------------------------- MODULE VaultBackendsProofs -------------------------
(* Proofs about VaultBackends for every finite set of paths with their       *)
(* prefixes, every set of texts, and every sequence of calls.               *)
EXTENDS VaultBackends, SequenceTheorems, FiniteSetTheorems, WellFoundedInduction, TLAPS

-----------------------------------------------------------------------------
(* Paths are sequences of segments, and one is a prefix of another when it   *)
(* has the same segments up to its end.                                     *)
LEMMA PathsAreSequences ==
  \A p \in Paths : p \in Seq(Segments) /\ Len(p) \in Nat /\ p = SubSeq(p, 1, Len(p))
BY ConstantsAssumption, SubSeqFull

LEMMA InitialSegments ==
  ASSUME NEW p \in Paths, NEW n \in 0..Len(p)
  PROVE  /\ SubSeq(p, 1, n) \in Paths /\ Len(SubSeq(p, 1, n)) = n
         /\ \A i \in 1..n : SubSeq(p, 1, n)[i] = p[i]
<1>1. p \in Seq(Segments) /\ Len(p) \in Nat /\ n \in Int /\ 1 \in Int
  BY PathsAreSequences
<1>2. \A i \in 1..n : p[i] \in Segments
  BY <1>1, ElementOfSeq
<1>3. /\ Len(SubSeq(p, 1, n)) = IF 1 <= n THEN n - 1 + 1 ELSE 0
      /\ \A i \in 1..n - 1 + 1 : SubSeq(p, 1, n)[i] = p[1 + i - 1]
  BY <1>1, <1>2, SubSeqProperties
<1>4. SubSeq(p, 1, n) \in Paths
  BY ConstantsAssumption
<1>5. QED
  BY <1>1, <1>3, <1>4

LEMMA PrefixByIndex ==
  ASSUME NEW p \in Paths, NEW q \in Paths
  PROVE  IsPrefix(p, q) <=> Len(p) <= Len(q) /\ \A i \in 1..Len(p) : p[i] = q[i]
<1>0. p \in Seq(Segments) /\ q \in Seq(Segments) /\ Len(p) \in Nat /\ Len(q) \in Nat
  BY PathsAreSequences
<1>1. SUFFICES ASSUME Len(p) <= Len(q)
      PROVE (SubSeq(p, 1, Len(p)) = SubSeq(q, 1, Len(p))) <=> (\A i \in 1..Len(p) : p[i] = q[i])
  BY DEF IsPrefix
<1>2. \A i \in 1..Len(p) : p[i] \in Segments /\ q[i] \in Segments
  BY <1>0, <1>1, ElementOfSeq
<1>3. /\ SubSeq(p, 1, Len(p)) \in Seq(Segments) /\ SubSeq(q, 1, Len(p)) \in Seq(Segments)
      /\ Len(SubSeq(p, 1, Len(p))) = Len(p) /\ Len(SubSeq(q, 1, Len(p))) = Len(p)
      /\ \A i \in 1..Len(p) : SubSeq(p, 1, Len(p))[i] = p[i] /\ SubSeq(q, 1, Len(p))[i] = q[i]
  BY <1>0, <1>1, <1>2, SubSeqProperties
<1>4. QED
  BY <1>3, SeqEqual

(* The prefixes of a path are ordered by their length.                      *)
LEMMA PrefixOrder ==
  /\ \A p \in Paths : IsPrefix(p, p) /\ IsPrefix(<<>>, p) /\ (IsPrefix(p, <<>>) => p = <<>>)
  /\ \A p, q \in Paths : IsPrefix(p, q) /\ IsPrefix(q, p) => p = q
  /\ \A p, q, r \in Paths : IsPrefix(p, q) /\ IsPrefix(q, r) => IsPrefix(p, r)
  /\ \A p, q, r \in Paths : IsPrefix(p, r) /\ IsPrefix(q, r) => IsPrefix(p, q) \/ IsPrefix(q, p)
<1>0. \A p \in Paths : p \in Seq(Segments) /\ Len(p) \in Nat
  BY PathsAreSequences
<1>1. ASSUME NEW p \in Paths
      PROVE  IsPrefix(p, p) /\ IsPrefix(<<>>, p) /\ (IsPrefix(p, <<>>) => p = <<>>)
  <2>1. <<>> \in Paths /\ Len(<<>>) = 0
    BY ConstantsAssumption
  <2>2. IsPrefix(p, p) /\ IsPrefix(<<>>, p)
    BY <1>0, <2>1, PrefixByIndex
  <2>3. IsPrefix(p, <<>>) => Len(p) = 0
    BY <1>0, <2>1, PrefixByIndex
  <2>4. QED
    BY <1>0, <2>2, <2>3, EmptySeq
<1>2. ASSUME NEW p \in Paths, NEW q \in Paths, IsPrefix(p, q), IsPrefix(q, p) PROVE p = q
  <2>1. Len(p) = Len(q) /\ \A i \in 1..Len(p) : p[i] = q[i]
    BY <1>0, <1>2, PrefixByIndex
  <2>2. QED
    BY <1>0, <2>1, SeqEqual
<1>3. ASSUME NEW p \in Paths, NEW q \in Paths, NEW r \in Paths, IsPrefix(p, q), IsPrefix(q, r)
      PROVE  IsPrefix(p, r)
  <2>1. /\ Len(p) <= Len(q) /\ \A i \in 1..Len(p) : p[i] = q[i]
        /\ Len(q) <= Len(r) /\ \A i \in 1..Len(q) : q[i] = r[i]
    BY <1>3, PrefixByIndex
  <2>2. Len(p) <= Len(r) /\ \A i \in 1..Len(p) : p[i] = r[i]
    BY <1>0, <2>1
  <2>3. QED
    BY <2>2, PrefixByIndex
<1>4. ASSUME NEW p \in Paths, NEW q \in Paths, NEW r \in Paths, IsPrefix(p, r), IsPrefix(q, r),
             Len(p) <= Len(q)
      PROVE  IsPrefix(p, q)
  <2>1. /\ \A i \in 1..Len(p) : p[i] = r[i]
        /\ \A i \in 1..Len(q) : q[i] = r[i]
    BY <1>4, PrefixByIndex
  <2>2. \A i \in 1..Len(p) : p[i] = q[i]
    BY <1>0, <1>4, <2>1
  <2>3. QED
    BY <1>4, <2>2, PrefixByIndex
<1>5. \A p, q \in Paths : Len(p) <= Len(q) \/ Len(q) <= Len(p)
  BY <1>0
<1>6. QED
  BY <1>1, <1>2, <1>3, <1>4, <1>5

(* The directory of a path is the longest of its strict prefixes.           *)
LEMMA ParentIsLongest ==
  ASSUME NEW p \in Paths, p # <<>>
  PROVE  /\ Parent(p) \in Paths
         /\ \A q \in Paths : IsPrefix(q, Parent(p)) <=> IsStrictPrefix(q, p)
<1>0. p \in Seq(Segments) /\ Len(p) \in Nat /\ Len(p) > 0
  BY PathsAreSequences, EmptySeq
<1> DEFINE d == SubSeq(p, 1, Len(p) - 1)
<1>1. /\ d \in Paths /\ Parent(p) = d
      /\ Len(d) = Len(p) - 1 /\ \A i \in 1..Len(p) - 1 : d[i] = p[i]
  <2>1. Len(p) - 1 \in 0..Len(p)
    BY <1>0
  <2>2. QED
    BY <2>1, InitialSegments DEF Parent, Front
<1> HIDE DEF d
<1>2. Len(d) = Len(p) - 1 /\ \A i \in 1..Len(d) : d[i] = p[i]
  BY <1>1
<1>3. ASSUME NEW q \in Paths, IsPrefix(q, d) PROVE IsStrictPrefix(q, p)
  <2>1. Len(q) \in Nat /\ Len(q) <= Len(d) /\ \A i \in 1..Len(q) : q[i] = d[i]
    BY <1>1, <1>3, PrefixByIndex, PathsAreSequences
  <2>2. Len(q) < Len(p) /\ \A i \in 1..Len(q) : q[i] = p[i]
    BY <1>0, <1>2, <2>1
  <2>3. QED
    BY <1>0, <2>1, <2>2, PrefixByIndex DEF IsStrictPrefix
<1>4. ASSUME NEW q \in Paths, IsStrictPrefix(q, p) PROVE IsPrefix(q, d)
  <2>1. Len(q) \in Nat /\ Len(q) <= Len(p) /\ \A i \in 1..Len(q) : q[i] = p[i]
    BY <1>4, PrefixByIndex, PathsAreSequences DEF IsStrictPrefix
  <2>2. Len(q) # Len(p)
    BY <1>0, <1>4, <2>1, PathsAreSequences, SeqEqual DEF IsStrictPrefix
  <2>3. Len(q) <= Len(d) /\ \A i \in 1..Len(q) : q[i] = d[i]
    BY <1>0, <1>2, <2>1, <2>2
  <2>4. QED
    BY <1>1, <2>3, PrefixByIndex
<1>5. QED
  BY <1>1, <1>3, <1>4

(* A path below a directory is a child of it or lies below a child of it.    *)
LEMMA ChildTowards ==
  ASSUME NEW d \in Paths, NEW q \in Paths, IsStrictPrefix(d, q)
  PROVE  \E c \in Children(d) : IsPrefix(c, q)
<1>0. /\ d \in Seq(Segments) /\ Len(d) \in Nat /\ q \in Seq(Segments) /\ Len(q) \in Nat
      /\ Len(d) <= Len(q) /\ \A i \in 1..Len(d) : d[i] = q[i]
  BY PathsAreSequences, PrefixByIndex DEF IsStrictPrefix
<1>1. Len(d) # Len(q)
  BY <1>0, SeqEqual DEF IsStrictPrefix
<1> DEFINE c == SubSeq(q, 1, Len(d) + 1)
<1>2. c \in Paths /\ Len(c) = Len(d) + 1 /\ \A i \in 1..Len(d) + 1 : c[i] = q[i]
  <2>1. Len(d) + 1 \in 0..Len(q)
    BY <1>0, <1>1
  <2>2. QED
    BY <2>1, InitialSegments
<1> HIDE DEF c
<1>3. Len(c) = Len(d) + 1 /\ \A i \in 1..Len(c) : c[i] = q[i]
  BY <1>2
<1>4. IsPrefix(c, q)
  BY <1>0, <1>1, <1>2, <1>3, PrefixByIndex
<1>5. IsPrefix(d, c)
  <2>1. Len(d) <= Len(c) /\ \A i \in 1..Len(d) : d[i] = c[i]
    BY <1>0, <1>3
  <2>2. QED
    BY <1>2, <2>1, PrefixByIndex
<1>6. QED
  BY <1>2, <1>3, <1>4, <1>5 DEF Children, IsChild

(* Nothing lies between a directory and its child.                          *)
LEMMA ChildIsNext ==
  ASSUME NEW d \in Paths, NEW c \in Children(d)
  PROVE  /\ c \in Paths /\ IsStrictPrefix(d, c) /\ c # <<>>
         /\ \A e \in Paths : IsStrictPrefix(d, e) => ~IsStrictPrefix(e, c)
<1>0. c \in Paths /\ Len(c) = Len(d) + 1 /\ IsPrefix(d, c) /\ Len(d) \in Nat
  BY PathsAreSequences DEF Children, IsChild
<1>1. \A p, q \in Paths : IsStrictPrefix(p, q) => Len(p) < Len(q)
  <2>1. ASSUME NEW p \in Paths, NEW q \in Paths, IsStrictPrefix(p, q) PROVE Len(p) < Len(q)
    <3>1. /\ p # q /\ Len(p) <= Len(q) /\ \A i \in 1..Len(p) : p[i] = q[i]
          /\ Len(p) \in Nat /\ Len(q) \in Nat /\ p \in Seq(Segments) /\ q \in Seq(Segments)
      BY <2>1, PathsAreSequences, PrefixByIndex DEF IsStrictPrefix
    <3>2. ASSUME Len(p) = Len(q) PROVE p = q
      <4>1. \A i \in 1..Len(p) : p[i] = q[i]
        BY <3>1
      <4>2. QED
        BY <3>1, <3>2, <4>1, SeqEqual
    <3>3. QED
      BY <3>1, <3>2
  <2>2. QED
    BY <2>1
<1>2. IsStrictPrefix(d, c) /\ c # <<>>
  BY <1>0, EmptySeq DEF IsStrictPrefix
<1>3. ASSUME NEW e \in Paths, IsStrictPrefix(d, e), IsStrictPrefix(e, c) PROVE FALSE
  BY <1>0, <1>1, <1>3, PathsAreSequences
<1>4. QED
  BY <1>0, <1>2, <1>3

-----------------------------------------------------------------------------
(* What the recursion "walk" of enumerateFiles returns.  Its defining        *)
(* equation has one solution, since paths have an end: a directory's         *)
(* children have fewer paths below them than the directory has.             *)
Level(tr, recurse, found, d) ==
  {q \in Children(d) : IsFile(tr, q) /\ Last(q) \in Matching} \cup
  (IF recurse THEN UNION {found[q] : q \in {c \in Children(d) : tr[c] = Dir}} ELSE {})

LEMMA WalkEquation ==
  ASSUME NEW tr, NEW recurse
  PROVE  NativeWalk(tr, recurse)
           = CHOOSE found : found = [d \in Paths |-> Level(tr, recurse, found, d)]
BY DEF NativeWalk, Level

(* The files below a directory, with directories only on the way there.     *)
Below(tr, recurse, d) ==
  {q \in Paths : /\ IsFile(tr, q) /\ Last(q) \in Matching /\ IsStrictPrefix(d, q)
                 /\ recurse \/ IsChild(d, q)
                 /\ \A e \in Paths : IsStrictPrefix(d, e) /\ IsStrictPrefix(e, q) => tr[e] = Dir}

LEMMA BelowSolves ==
  ASSUME NEW tr, NEW recurse \in BOOLEAN, NEW d \in Paths
  PROVE  Below(tr, recurse, d) = Level(tr, recurse, [e \in Paths |-> Below(tr, recurse, e)], d)
<1> DEFINE B == [e \in Paths |-> Below(tr, recurse, e)]
<1>1. ASSUME NEW q \in Below(tr, recurse, d) PROVE q \in Level(tr, recurse, B, d)
  <2>0. q \in Paths /\ IsStrictPrefix(d, q)
    BY DEF Below
  <2>1. CASE IsChild(d, q)
    BY <2>1 DEF Below, Level, Children
  <2>2. CASE ~IsChild(d, q)
    <3>1. PICK c \in Children(d) : IsPrefix(c, q)
      BY <2>0, ChildTowards
    <3>2. c \in Paths /\ IsStrictPrefix(d, c) /\ IsStrictPrefix(c, q) /\ recurse
      BY <2>0, <2>2, <3>1, ChildIsNext DEF Children, IsStrictPrefix, Below
    <3>3. tr[c] = Dir
      BY <3>2 DEF Below
    <3>4. \A e \in Paths : IsStrictPrefix(c, e) => IsStrictPrefix(d, e)
      BY <3>2, PrefixOrder DEF IsStrictPrefix
    <3>5. q \in Below(tr, recurse, c)
      BY <3>2, <3>4 DEF Below
    <3>6. QED
      BY <3>1, <3>2, <3>3, <3>5 DEF Level
  <2>3. QED
    BY <2>1, <2>2
<1>2. ASSUME NEW q \in Level(tr, recurse, B, d) PROVE q \in Below(tr, recurse, d)
  <2>1. CASE q \in Children(d) /\ IsFile(tr, q) /\ Last(q) \in Matching
    BY <2>1, ChildIsNext DEF Below, Children
  <2>2. ASSUME recurse, NEW c \in Children(d), tr[c] = Dir, q \in Below(tr, recurse, c)
        PROVE  q \in Below(tr, recurse, d)
    <3>1. c \in Paths /\ IsStrictPrefix(d, c) /\ q \in Paths /\ IsStrictPrefix(c, q)
      BY <2>2, ChildIsNext DEF Below
    <3>2. IsStrictPrefix(d, q)
      BY <3>1, PrefixOrder DEF IsStrictPrefix
    <3>3. ASSUME NEW e \in Paths, IsStrictPrefix(d, e), IsStrictPrefix(e, q) PROVE tr[e] = Dir
      <4>1. IsPrefix(e, c) \/ IsPrefix(c, e)
        BY <3>1, <3>3, PrefixOrder DEF IsStrictPrefix
      <4>2. e = c \/ IsStrictPrefix(c, e)
        BY <3>3, <4>1, ChildIsNext DEF IsStrictPrefix
      <4>3. QED
        BY <2>2, <3>3, <4>2 DEF Below
    <3>4. QED
      BY <2>2, <3>1, <3>2, <3>3 DEF Below
  <2>3. QED
    <3>1. \A c \in Children(d) : B[c] = Below(tr, recurse, c)
      BY DEF Children
    <3>2. QED
      BY <2>1, <2>2, <3>1 DEF Level
<1>3. QED
  BY <1>1, <1>2

LEMMA WalkUnique ==
  ASSUME NEW tr, NEW recurse \in BOOLEAN, NEW f, NEW g,
         f = [d \in Paths |-> Level(tr, recurse, f, d)],
         g = [d \in Paths |-> Level(tr, recurse, g, d)]
  PROVE  f = g
<1> DEFINE Deeper(d) == {q \in Paths : IsStrictPrefix(d, q)}
           Wrong == {n \in Nat : \E d \in Paths : n = Cardinality(Deeper(d)) /\ f[d] # g[d]}
<1>1. \A d \in Paths : IsFiniteSet(Deeper(d)) /\ Cardinality(Deeper(d)) \in Nat
  BY ConstantsAssumption, FS_Subset, FS_CardinalityType
<1>2. ASSUME NEW d \in Paths, NEW c \in Children(d)
      PROVE  Cardinality(Deeper(c)) < Cardinality(Deeper(d))
  <2>1. c \in Paths /\ IsStrictPrefix(d, c)
    BY ChildIsNext
  <2>2. Deeper(c) \subseteq Deeper(d)
    BY <2>1, PrefixOrder DEF IsStrictPrefix
  <2>3. c \in Deeper(d) /\ c \notin Deeper(c)
    BY <2>1 DEF IsStrictPrefix
  <2> HIDE DEF Deeper
  <2>4. Deeper(c) # Deeper(d)
    BY <2>3
  <2>5. QED
    BY <1>1, <2>1, <2>2, <2>4, FS_Subset
<1>3. ASSUME Wrong # {} PROVE FALSE
  <2>1. PICK n \in Wrong : \A m \in Wrong : ~(<<m, n>> \in OpToRel(<, Nat))
    BY <1>3, WFMin, NatLessThanWellFounded
  <2>2. \A m \in Wrong : ~(m < n)
    BY <2>1 DEF OpToRel
  <2>3. PICK d \in Paths : n = Cardinality(Deeper(d)) /\ f[d] # g[d]
    OBVIOUS
  <2>4. \A c \in Children(d) : f[c] = g[c]
    <3>1. SUFFICES ASSUME NEW c \in Children(d), f[c] # g[c] PROVE FALSE
      OBVIOUS
    <3>2. c \in Paths
      BY ChildIsNext
    <3>3. Cardinality(Deeper(c)) \in Wrong /\ Cardinality(Deeper(c)) < n
      BY <1>1, <1>2, <2>3, <3>1, <3>2
    <3>4. QED
      BY <2>2, <3>3
  <2>5. Level(tr, recurse, f, d) = Level(tr, recurse, g, d)
    <3>1. {f[c] : c \in {e \in Children(d) : tr[e] = Dir}} = {g[c] : c \in {e \in Children(d) : tr[e] = Dir}}
      BY <2>4
    <3>2. QED
      BY <3>1 DEF Level
  <2>6. f[d] = Level(tr, recurse, f, d) /\ g[d] = Level(tr, recurse, g, d)
    OBVIOUS
  <2>7. QED
    BY <2>3, <2>5, <2>6
<1>4. \A d \in Paths : f[d] = g[d]
  BY <1>1, <1>3
<1>5. QED
  BY <1>4

(* The recursion lists what there is below a directory.                     *)
LEMMA WalkFindsAll ==
  ASSUME NEW tr, NEW recurse \in BOOLEAN
  PROVE  NativeWalk(tr, recurse) = [d \in Paths |-> Below(tr, recurse, d)]
<1> DEFINE Solves(f) == f = [d \in Paths |-> Level(tr, recurse, f, d)]
           B == [d \in Paths |-> Below(tr, recurse, d)]
<1>1. Solves(B)
  BY BelowSolves
<1>2. NativeWalk(tr, recurse) = CHOOSE f : Solves(f)
  BY WalkEquation
<1> HIDE DEF B
<1>3. Solves(CHOOSE f : Solves(f))
  BY <1>1
<1>4. Solves(NativeWalk(tr, recurse))
  BY <1>2, <1>3
<1>5. NativeWalk(tr, recurse) = B
  BY <1>1, <1>4, WalkUnique
<1>6. QED
  BY <1>5 DEF B

-----------------------------------------------------------------------------
(* The invariant.  What is there in a native vault lies in directories, and  *)
(* until a name has been wanted for a file and for a directory both vaults   *)
(* keep the same at every path.                                             *)
TreeClosed ==
  /\ tree[<<>>] = Dir
  /\ \A p, q \in Paths : IsStrictPrefix(q, p) /\ tree[p] # Nothing => tree[q] = Dir

SameStores == ~clashed => entries = tree

IInv == TypeOK /\ TreeClosed /\ SameStores

(* Prefixes in the terms that the steps use.                                *)
LEMMA PrefixLaws ==
  /\ <<>> \in Paths
  /\ \A p \in Paths : ~IsStrictPrefix(p, <<>>)
  /\ \A p, q, r \in Paths : IsPrefix(p, q) /\ IsStrictPrefix(q, r) => IsStrictPrefix(p, r)
  /\ \A p, q, r \in Paths : IsStrictPrefix(p, q) /\ IsPrefix(q, r) => IsStrictPrefix(p, r)
  /\ \A p, q \in Paths : IsPrefix(p, q) <=> p = q \/ IsStrictPrefix(p, q)
  /\ \A p \in Paths : p # <<>> => IsStrictPrefix(<<>>, p)
BY PrefixOrder, ConstantsAssumption DEF IsStrictPrefix

(* A closed tree holds no file on the way to anything.                      *)
LEMMA ClosedTree ==
  ASSUME TreeClosed, NEW p \in Paths, tree[p] # Nothing
  PROVE  \A q \in Paths : IsStrictPrefix(q, p) => tree[q] = Dir /\ ~IsFile(tree, q)
BY ConstantsAssumption DEF TreeClosed, IsFile

(* Making directories: they are made as far as no file is in the way, and    *)
(* none is replaced.                                                        *)
LEMMA DirectoriesMade ==
  ASSUME TypeOK, TreeClosed, NEW d \in Paths
  PROVE  LET made == MakeDirectories(tree, d) IN
         /\ made \in [Paths -> Texts \cup {Dir, Nothing}]
         /\ made[<<>>] = Dir
         /\ \A p, q \in Paths : IsStrictPrefix(q, p) /\ made[p] # Nothing => made[q] = Dir
         /\ \A p \in Paths : IsFile(tree, p) => made[p] = tree[p]
         /\ \A p \in Paths : tree[p] = Dir => made[p] = Dir
         /\ \A p \in Paths : made[p] # tree[p] => IsPrefix(p, d) /\ made[p] = Dir
         /\ ~Blocked(tree, d) => made = EnsureDirectory(tree, d)
<1> DEFINE made == MakeDirectories(tree, d)
<1>1. \A p \in Paths : made[p] = IF IsPrefix(p, d) /\ ~Blocked(tree, p) THEN Dir ELSE tree[p]
  BY DEF MakeDirectories
<1>2. made \in [Paths -> Texts \cup {Dir, Nothing}]
  BY DEF MakeDirectories, TypeOK
<1>3. made[<<>>] = Dir
  BY <1>1, PrefixLaws DEF TreeClosed
<1>4. \A p \in Paths : IsFile(tree, p) => made[p] = tree[p]
  BY <1>1, PrefixOrder DEF Blocked
<1>5. ASSUME NEW p \in Paths, NEW q \in Paths, IsStrictPrefix(q, p), made[p] # Nothing
      PROVE  made[q] = Dir
  <2>1. CASE tree[p] # Nothing
    BY <1>1, <1>5, <2>1 DEF TreeClosed
  <2>2. CASE tree[p] = Nothing
    <3>1. IsPrefix(p, d) /\ ~Blocked(tree, p)
      BY <1>1, <1>5, <2>2
    <3>2. IsPrefix(q, d) /\ ~Blocked(tree, q)
      BY <1>5, <3>1, PrefixLaws, PrefixOrder DEF Blocked
    <3>3. QED
      BY <1>1, <3>2
  <2>3. QED
    BY <2>1, <2>2
<1>6. ASSUME ~Blocked(tree, d) PROVE made = EnsureDirectory(tree, d)
  <2>1. \A p \in Paths : IsPrefix(p, d) => ~Blocked(tree, p)
    BY <1>6, PrefixOrder DEF Blocked
  <2>2. QED
    BY <2>1 DEF MakeDirectories, EnsureDirectory
<1>7. QED
  BY <1>1, <1>2, <1>3, <1>4, <1>5, <1>6

(* One step of a call on both vaults: they stay typed, the tree stays        *)
(* closed, files other than the one named stay, and without a clash the two  *)
(* stay the same.                                                           *)
Good ==
  /\ TypeOK' /\ TreeClosed' /\ SameStores'
  /\ \A p \in Paths : p # touched' /\ IsFile(tree, p) => tree'[p] = tree[p]

LEMMA CreateDirectoryStep ==
  ASSUME IInv, NEW called \in DirCalls, CreateDirectory(called) PROVE Good
<1> DEFINE p == Normal(called)
<1>0. p \in Paths /\ TypeOK /\ TreeClosed /\ SameStores
  BY ConstantsAssumption DEF IInv
<1>1. /\ entries' = EnsureDirectory(entries, p) /\ tree' = MakeDirectories(tree, p)
      /\ touched' = p /\ clashed' = (clashed \/ Blocked(tree, p))
  BY DEF CreateDirectory, Touches
<1> HIDE DEF p
<1>2. /\ tree' \in [Paths -> Texts \cup {Dir, Nothing}] /\ TreeClosed'
      /\ \A q \in Paths : IsFile(tree, q) => tree'[q] = tree[q]
      /\ ~Blocked(tree, p) => tree' = EnsureDirectory(tree, p)
  BY <1>0, <1>1, DirectoriesMade DEF TreeClosed
<1>3. entries' \in [Paths -> Texts \cup {Dir, Nothing}] /\ clashed' \in BOOLEAN
  BY <1>0, <1>1 DEF TypeOK, EnsureDirectory, Blocked
<1>4. SameStores'
  BY <1>0, <1>1, <1>2 DEF SameStores
<1>5. QED
  BY <1>0, <1>1, <1>2, <1>3, <1>4 DEF Good, TypeOK

LEMMA WriteStep ==
  ASSUME IInv, NEW called \in FileCalls, NEW x \in Texts, WriteAllText(called, x) PROVE Good
<1> DEFINE p == Normal(called)
           made == MakeDirectories(tree, Parent(p))
<1>0. /\ p \in Paths /\ p # <<>> /\ TypeOK /\ TreeClosed /\ SameStores
      /\ Dir \notin Texts /\ Nothing \notin Texts /\ Dir # Nothing
  BY ConstantsAssumption DEF IInv, WriteAllText
<1>1. /\ entries' = [EnsureDirectory(entries, Parent(p)) EXCEPT ![p] = x]
      /\ tree' = IF CanWrite(tree, p) THEN [made EXCEPT ![p] = x] ELSE made
      /\ touched' = p /\ clashed' = (clashed \/ ~CanWrite(tree, p))
  BY DEF WriteAllText, VirtualWrite, NativeWrite, Touches
<1>2. /\ Parent(p) \in Paths
      /\ \A q \in Paths : IsPrefix(q, Parent(p)) <=> IsStrictPrefix(q, p)
  BY <1>0, ParentIsLongest
<1>3. /\ made \in [Paths -> Texts \cup {Dir, Nothing}]
      /\ made[<<>>] = Dir
      /\ \A r, q \in Paths : IsStrictPrefix(q, r) /\ made[r] # Nothing => made[q] = Dir
      /\ \A q \in Paths : IsFile(tree, q) => made[q] = tree[q]
      /\ \A q \in Paths : made[q] # tree[q] => IsPrefix(q, Parent(p)) /\ made[q] = Dir
      /\ ~Blocked(tree, Parent(p)) => made = EnsureDirectory(tree, Parent(p))
  BY <1>0, <1>2, DirectoriesMade
<1>4. entries' \in [Paths -> Texts \cup {Dir, Nothing}]
  <2>1. EnsureDirectory(entries, Parent(p)) \in [Paths -> Texts \cup {Dir, Nothing}]
    BY <1>0 DEF TypeOK, EnsureDirectory
  <2>2. QED
    BY <1>0, <1>1, <2>1
<1>5. clashed' \in BOOLEAN
  BY <1>0, <1>1 DEF CanWrite, Blocked, TypeOK
<1> HIDE DEF p, made
<1>6. CASE CanWrite(tree, p)
  <2>1. tree' = [made EXCEPT ![p] = x] /\ ~Blocked(tree, Parent(p)) /\ tree[p] # Dir
    BY <1>1, <1>6 DEF CanWrite
  <2>2. /\ tree' \in [Paths -> Texts \cup {Dir, Nothing}] /\ tree'[p] = x
        /\ \A q \in Paths : q # p => tree'[q] = made[q]
    BY <1>0, <1>3, <2>1
  <2>3. made[p] # Dir
    BY <1>0, <1>2, <1>3, <2>1 DEF IsStrictPrefix
  <2>4. \A q \in Paths : IsStrictPrefix(q, p) => made[q] = Dir
    BY <1>2, <1>3, <2>1 DEF EnsureDirectory
  <2>5. TreeClosed'
    <3>1. tree'[<<>>] = Dir
      BY <1>0, <1>3, <2>2, PrefixLaws
    <3>2. ASSUME NEW r \in Paths, NEW q \in Paths, IsStrictPrefix(q, r), tree'[r] # Nothing
          PROVE  tree'[q] = Dir
      <4>1. CASE r = p
        <5>1. q # p
          BY <3>2, <4>1 DEF IsStrictPrefix
        <5>2. QED
          BY <2>2, <2>4, <3>2, <4>1, <5>1
      <4>2. CASE r # p
        BY <1>3, <2>2, <2>3, <3>2, <4>2
      <4>3. QED
        BY <4>1, <4>2
    <3>3. QED
      BY <3>1, <3>2 DEF TreeClosed
  <2>6. SameStores'
    BY <1>0, <1>1, <1>3, <2>1 DEF SameStores
  <2>7. QED
    BY <1>0, <1>1, <1>3, <1>4, <1>5, <2>2, <2>5, <2>6 DEF Good, TypeOK
<1>7. CASE ~CanWrite(tree, p)
  <2>1. tree' = made /\ clashed'
    BY <1>1, <1>7
  <2>2. TreeClosed' /\ SameStores'
    BY <1>3, <2>1 DEF TreeClosed, SameStores
  <2>3. QED
    BY <1>0, <1>1, <1>3, <1>4, <1>5, <2>1, <2>2 DEF Good, TypeOK
<1>8. QED
  BY <1>6, <1>7

LEMMA DeleteStep ==
  ASSUME IInv, NEW called \in FileCalls, DeleteFile(called) PROVE Good
<1> DEFINE p == Normal(called)
<1>0. /\ p \in Paths /\ p # <<>> /\ TypeOK /\ TreeClosed /\ SameStores
      /\ Dir \notin Texts /\ Nothing \notin Texts /\ Dir # Nothing
  BY ConstantsAssumption DEF IInv, DeleteFile
<1>1. /\ entries' = [entries EXCEPT ![p] = Nothing]
      /\ tree' = IF CanDelete(tree, p) THEN [tree EXCEPT ![p] = Nothing] ELSE tree
      /\ touched' = p /\ clashed' = (clashed \/ tree[p] = Dir)
  BY DEF DeleteFile, VirtualDelete, NativeDelete, Touches
<1> HIDE DEF p
<1>2. /\ entries' \in [Paths -> Texts \cup {Dir, Nothing}] /\ clashed' \in BOOLEAN
      /\ tree' \in [Paths -> Texts \cup {Dir, Nothing}]
      /\ \A q \in Paths : q # p => tree'[q] = tree[q]
  BY <1>0, <1>1 DEF TypeOK
<1>3. TreeClosed'
  <2>1. CASE CanDelete(tree, p)
    <3>1. \A q \in Paths : IsStrictPrefix(p, q) => tree[q] = Nothing
      <4>1. ASSUME NEW q \in Paths, IsStrictPrefix(p, q), tree[q] # Nothing PROVE FALSE
        <5>1. PICK c \in Children(p) : IsPrefix(c, q)
          BY <1>0, <4>1, ChildTowards
        <5>2. tree[p] = Dir
          BY <1>0, <4>1 DEF TreeClosed
        <5>3. tree[c] = Nothing
          BY <2>1, <5>2 DEF CanDelete, Children
        <5>4. c \in Paths /\ (c = q \/ IsStrictPrefix(c, q))
          BY <5>1, PrefixLaws DEF Children
        <5>5. QED
          BY <1>0, <4>1, <5>3, <5>4 DEF TreeClosed
      <4>2. QED
        BY <4>1
    <3>2. tree'[p] = Nothing
      BY <1>0, <1>1, <2>1 DEF TypeOK
    <3>3. QED
      BY <1>0, <1>2, <3>1, <3>2, PrefixLaws DEF TreeClosed
  <2>2. CASE ~CanDelete(tree, p)
    BY <1>0, <1>1, <2>2 DEF TreeClosed
  <2>3. QED
    BY <2>1, <2>2
<1>4. SameStores'
  <2>1. CASE tree[p] = Dir
    BY <1>1, <2>1 DEF SameStores
  <2>2. CASE tree[p] # Dir /\ Reachable(tree, Parent(p))
    BY <1>0, <1>1, <2>2 DEF SameStores, CanDelete
  <2>3. CASE tree[p] # Dir /\ ~Reachable(tree, Parent(p))
    <3>1. tree[p] = Nothing
      BY <1>0, <2>3, ParentIsLongest DEF Reachable, TreeClosed
    <3>2. tree' = tree /\ [tree EXCEPT ![p] = Nothing] = tree
      BY <1>0, <1>1, <2>3, <3>1 DEF CanDelete, TypeOK
    <3>3. QED
      BY <1>0, <1>1, <3>2 DEF SameStores
  <2>4. QED
    BY <2>1, <2>2, <2>3
<1>5. QED
  BY <1>0, <1>1, <1>2, <1>3, <1>4 DEF Good, TypeOK

LEMMA NextGood == ASSUME IInv, Next PROVE Good
BY CreateDirectoryStep, WriteStep, DeleteStep DEF Next

-----------------------------------------------------------------------------
LEMMA InitIInv == Init => IInv
<1> SUFFICES ASSUME Init PROVE IInv
  OBVIOUS
<1>1. /\ tree = [p \in Paths |-> IF p = <<>> THEN Dir ELSE Nothing] /\ entries = tree
      /\ touched = <<>> /\ clashed = FALSE /\ <<>> \in Paths
  BY ConstantsAssumption DEF Init
<1>2. TreeClosed
  BY <1>1, PrefixLaws DEF TreeClosed
<1>3. QED
  BY <1>1, <1>2 DEF IInv, TypeOK, SameStores

(* The stores stay typed, the tree closed and, without a clash, the same.    *)
THEOREM Invariance == Spec => []IInv
<1>1. IInv /\ [Next]_vars => IInv'
  <2> SUFFICES ASSUME IInv, [Next]_vars PROVE IInv'
    OBVIOUS
  <2>1. CASE Next
    BY <2>1, NextGood DEF Good, IInv
  <2>2. CASE UNCHANGED vars
    BY <2>2 DEF vars, IInv, TypeOK, TreeClosed, SameStores
  <2>3. QED
    BY <2>1, <2>2
<1>2. QED
  BY <1>1, InitIInv, PTL DEF Spec

(* Type correctness of both stores.                                         *)
THEOREM TypeCorrect == Spec => []TypeOK
<1>1. IInv => TypeOK
  BY DEF IInv
<1>2. QED
  BY <1>1, Invariance, PTL

(* In a closed tree every file can be reached and found by the recursion.   *)
LEMMA ClosedTreeShowsAll ==
  ASSUME TypeOK, TreeClosed
  PROVE  /\ \A p \in Paths : NativeFileExists(tree, p) <=> IsFile(tree, p)
         /\ \A p \in Paths : NativeDirectoryExists(tree, p) <=> tree[p] = Dir
         /\ \A p \in Paths : VirtualDirectoryExists(tree, p) <=> tree[p] = Dir
         /\ \A d \in Paths, recurse \in BOOLEAN :
              NativeEnumerate(tree, d, recurse) = VirtualEnumerate(tree, d, recurse)
<1>0. /\ Dir \notin Texts /\ Nothing \notin Texts /\ Dir # Nothing /\ tree[<<>>] = Dir
      /\ <<>> \in Paths
  BY ConstantsAssumption DEF TreeClosed
<1>1. ASSUME NEW p \in Paths PROVE NativeFileExists(tree, p) <=> IsFile(tree, p)
  <2>1. IsFile(tree, p) => p # <<>> /\ tree[p] # Nothing
    BY <1>0 DEF IsFile
  <2>2. IsFile(tree, p) => Reachable(tree, Parent(p))
    BY <2>1, ClosedTree, ParentIsLongest DEF Reachable
  <2>3. QED
    BY <2>1, <2>2 DEF NativeFileExists
<1>2. ASSUME NEW p \in Paths
      PROVE  /\ Reachable(tree, p) <=> tree[p] = Dir
             /\ NativeDirectoryExists(tree, p) <=> tree[p] = Dir
             /\ VirtualDirectoryExists(tree, p) <=> tree[p] = Dir
  <2>1. Reachable(tree, p) <=> tree[p] = Dir
    BY <1>0, ClosedTree, PrefixOrder, PrefixLaws DEF Reachable
  <2>2. NativeDirectoryExists(tree, p) <=> tree[p] = Dir
    BY <1>0, <2>1 DEF NativeDirectoryExists
  <2>3. VirtualDirectoryExists(tree, p) <=> tree[p] = Dir
    BY <1>0, ClosedTree DEF VirtualDirectoryExists
  <2>4. QED
    BY <2>1, <2>2, <2>3
<1>3. ASSUME NEW d \in Paths, NEW recurse \in BOOLEAN
      PROVE  NativeEnumerate(tree, d, recurse) = VirtualEnumerate(tree, d, recurse)
  <2>1. NativeWalk(tree, recurse)[d] = Below(tree, recurse, d)
    BY WalkFindsAll
  <2>2. Below(tree, recurse, d)
          = {q \in Paths : /\ IsFile(tree, q) /\ IsStrictPrefix(d, q)
                           /\ recurse \/ IsChild(d, q)
                           /\ Last(q) \in Matching}
    <3>1. \A q \in Paths : IsFile(tree, q) =>
            \A e \in Paths : IsStrictPrefix(e, q) => tree[e] = Dir
      BY <1>0, ClosedTree DEF IsFile
    <3>2. QED
      BY <3>1 DEF Below
  <2>3. QED
    BY <1>2, <2>1, <2>2 DEF NativeEnumerate, VirtualEnumerate
<1>4. QED
  BY <1>1, <1>2, <1>3

(* Both vaults show the same: files, texts, directories, and every listing   *)
(* at every depth, for any paths and any calls.                             *)
THEOREM VaultsShowTheSame == Spec => []SameView
<1>1. IInv => SameView
  <2> SUFFICES ASSUME IInv, ~clashed PROVE SameView
    BY DEF SameView
  <2>1. TypeOK /\ TreeClosed /\ entries = tree
    BY DEF IInv, SameStores
  <2>2. \A p \in Paths : VirtualFileExists(tree, p) <=> IsFile(tree, p)
    BY <2>1, ConstantsAssumption DEF VirtualFileExists, TreeClosed, IsFile
  <2>3. ASSUME NEW p \in Paths
        PROVE  /\ VirtualFileExists(entries, p) = NativeFileExists(tree, p)
               /\ VirtualFileExists(entries, p) => entries[p] = tree[p]
               /\ VirtualDirectoryExists(entries, p) = NativeDirectoryExists(tree, p)
               /\ \A recurse \in BOOLEAN :
                    VirtualEnumerate(entries, p, recurse) = NativeEnumerate(tree, p, recurse)
    <3>1. /\ VirtualFileExists(tree, p) <=> NativeFileExists(tree, p)
          /\ VirtualDirectoryExists(tree, p) <=> NativeDirectoryExists(tree, p)
      BY <2>1, <2>2, ClosedTreeShowsAll
    <3>2. /\ VirtualFileExists(tree, p) \in BOOLEAN /\ NativeFileExists(tree, p) \in BOOLEAN
          /\ VirtualDirectoryExists(tree, p) \in BOOLEAN
          /\ NativeDirectoryExists(tree, p) \in BOOLEAN
      BY DEF VirtualFileExists, NativeFileExists, VirtualDirectoryExists,
             NativeDirectoryExists, Reachable, IsFile
    <3>3. QED
      BY <2>1, <3>1, <3>2, ClosedTreeShowsAll
  <2>4. QED
    BY <2>3 DEF SameView
<1>2. QED
  BY <1>1, Invariance, PTL

(* A recursive listing of the root is complete in both vaults, however files *)
(* and directories have taken each other's names.                           *)
THEOREM ListingsComplete == Spec => []ListingComplete
<1>1. IInv => ListingComplete
  <2> SUFFICES ASSUME IInv PROVE ListingComplete
    OBVIOUS
  <2>0. TypeOK /\ TreeClosed /\ <<>> \in Paths
    BY ConstantsAssumption DEF IInv
  <2>1. VirtualEnumerate(entries, <<>>, TRUE)
          = {p \in Paths : VirtualFileExists(entries, p) /\ Last(p) \in Matching}
    BY PrefixLaws DEF VirtualEnumerate, VirtualDirectoryExists, VirtualFileExists
  <2>2. NativeEnumerate(tree, <<>>, TRUE)
          = {p \in Paths : NativeFileExists(tree, p) /\ Last(p) \in Matching}
    <3>1. NativeEnumerate(tree, <<>>, TRUE) = VirtualEnumerate(tree, <<>>, TRUE)
      BY <2>0, ClosedTreeShowsAll
    <3>2. VirtualEnumerate(tree, <<>>, TRUE)
            = {p \in Paths : VirtualFileExists(tree, p) /\ Last(p) \in Matching}
      BY PrefixLaws DEF VirtualEnumerate, VirtualDirectoryExists, VirtualFileExists
    <3>3. \A p \in Paths : VirtualFileExists(tree, p) <=> NativeFileExists(tree, p)
      BY <2>0, ClosedTreeShowsAll, ConstantsAssumption DEF VirtualFileExists, IsFile, TreeClosed
    <3>4. QED
      BY <3>1, <3>2, <3>3
  <2>3. QED
    BY <2>1, <2>2 DEF ListingComplete
<1>2. QED
  BY <1>1, Invariance, PTL

(* No call on a native vault changes or hides another note.                 *)
THEOREM OthersKept == Spec => NativeKeepsOthers
<1> DEFINE Kept == \A p \in Paths : p # touched' /\ NativeFileExists(tree, p) =>
                     NativeFileExists(tree', p) /\ tree'[p] = tree[p]
<1>1. IInv /\ IInv' /\ [Next]_vars => [Kept]_vars
  <2> SUFFICES ASSUME IInv, IInv', Next PROVE Kept
    BY DEF vars
  <2>1. Good
    BY NextGood
  <2>2. \A p \in Paths : NativeFileExists(tree, p) <=> IsFile(tree, p)
    BY ClosedTreeShowsAll DEF IInv
  <2>3. \A p \in Paths : NativeFileExists(tree', p) <=> IsFile(tree', p)
    <3>1. /\ tree'[<<>>] = Dir /\ Dir \notin Texts /\ Nothing \notin Texts /\ <<>> \in Paths
          /\ \A p, q \in Paths : IsStrictPrefix(q, p) /\ tree'[p] # Nothing => tree'[q] = Dir
      BY ConstantsAssumption DEF IInv, TreeClosed
    <3>2. ASSUME NEW p \in Paths, IsFile(tree', p) PROVE NativeFileExists(tree', p)
      <4>1. p # <<>> /\ tree'[p] # Nothing
        BY <3>1, <3>2 DEF IsFile
      <4>2. Reachable(tree', Parent(p))
        BY <3>1, <4>1, ParentIsLongest DEF Reachable
      <4>3. QED
        BY <3>2, <4>1, <4>2 DEF NativeFileExists
    <3>3. QED
      BY <3>2 DEF NativeFileExists
  <2>5. QED
    BY <2>1, <2>2, <2>3 DEF Good, IsFile
<1>2. QED
  BY <1>1, Invariance, PTL DEF Spec, NativeKeepsOthers

=============================================================================
