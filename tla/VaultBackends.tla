--------------------------- MODULE VaultBackends ---------------------------
(***************************************************************************)
(* The two stores behind the file operations of file-system-access.js, in  *)
(* lock-step: a virtual vault keeps a table of entries by path, a native   *)
(* one the directory tree of the device.  Every call is made on both, so   *)
(* that what they show can be compared.                                    *)
(*                                                                         *)
(* A path is the sequence of its segments; the empty segments that         *)
(* "notes//a.md" has are dropped by both stores.  Callers never send "..": *)
(* BrowserFileSystem.Rel and VaultRelativePath resolve or refuse it.       *)
(***************************************************************************)
EXTENDS Naturals, Sequences, SequencesExt

CONSTANTS
  Paths,      \* every path there can be, with all its prefixes
  FileCalls,  \* paths that files are written to and deleted at, as called
  DirCalls,   \* paths that directories are created at, as called
  Texts,
  Matching,   \* names that match the pattern of enumerateFiles
  Dir, Nothing

VARIABLES
  entries,  \* store "entries" of the virtual vault
  tree,     \* the directory of the native vault
  touched,  \* history: the path of the last call
  clashed   \* history: a call wanted a directory where there is a file, or
            \* the other way round

vars == <<entries, tree, touched, clashed>>

Normal(called) == SelectSeq(called, LAMBDA segment : segment # "")
Segments == UNION {Range(p) : p \in Paths}

ASSUME ConstantsAssumption ==
  /\ IsFiniteSet(Paths) /\ Paths \subseteq Seq(Segments) /\ <<>> \in Paths
  /\ \A p \in Paths : \A i \in 0..Len(p) : SubSeq(p, 1, i) \in Paths
  /\ \A p \in FileCalls \cup DirCalls : Normal(p) \in Paths
  /\ {Dir, Nothing} \cap Texts = {} /\ Dir # Nothing

Parent(p) == Front(p)
IsChild(p, q) == Len(q) = Len(p) + 1 /\ IsPrefix(p, q)
IsFile(store, p) == store[p] \in Texts

-----------------------------------------------------------------------------
(* The virtual vault.                                                      *)
EnsureDirectory(es, p) == [q \in Paths |-> IF IsPrefix(q, p) THEN Dir ELSE es[q]]

VirtualWrite(es, p, x) == [EnsureDirectory(es, Parent(p)) EXCEPT ![p] = x]

DropKey(es, p) == [q \in DOMAIN es \ {p} |-> es[q]]   \* mutant

VirtualDelete(es, p) == [es EXCEPT ![p] = Nothing]

VirtualDirectoryExists(es, p) ==
  \/ p = <<>> \/ es[p] = Dir
  \/ \E q \in Paths : es[q] # Nothing /\ IsStrictPrefix(p, q)

VirtualFileExists(es, p) == p # <<>> /\ IsFile(es, p)

ListAnyDepth(es, dir, recurse) ==   \* mutant: recurse is ignored
  {q \in Paths : IsFile(es, q) /\ IsStrictPrefix(dir, q) /\ Last(q) \in Matching}

ListChildren(es, dir, recurse) ==   \* mutant: only children, never deeper
  {q \in Paths : IsFile(es, q) /\ IsChild(dir, q) /\ Last(q) \in Matching}

VirtualEnumerate(es, dir, recurse) ==
  IF ~VirtualDirectoryExists(es, dir) THEN {}
  ELSE {q \in Paths : /\ IsFile(es, q)
                      /\ IsStrictPrefix(dir, q)
                      /\ recurse \/ IsChild(dir, q)
                      /\ Last(q) \in Matching}

-----------------------------------------------------------------------------
(* The native vault.  A path cannot lead through a file.                   *)
Reachable(tr, p) == \A q \in Paths : IsPrefix(q, p) => tr[q] = Dir
Blocked(tr, p) == \E q \in Paths : IsPrefix(q, p) /\ IsFile(tr, q)

OverFile(tr, p) == [q \in Paths |-> IF IsPrefix(q, p) THEN Dir ELSE tr[q]]  \* mutant

(* Directories are made one by one until one of them is a file.            *)
MakeDirectories(tr, p) ==
  [q \in Paths |-> IF IsPrefix(q, p) /\ ~Blocked(tr, q) THEN Dir ELSE tr[q]]

CanWrite(tr, p) == ~Blocked(tr, Parent(p)) /\ tr[p] # Dir
NativeWrite(tr, p, x) ==
  LET made == MakeDirectories(tr, Parent(p)) IN
  IF CanWrite(tr, p) THEN [made EXCEPT ![p] = x] ELSE made

(* resolvePath is outside of the try; removeEntry takes a file or an empty *)
(* directory and reports a name that is not there, which is caught.        *)
CanDelete(tr, p) ==
  /\ Reachable(tr, Parent(p))
  /\ tr[p] = Dir => \A q \in Paths : IsChild(p, q) => tr[q] = Nothing
NativeDelete(tr, p) == IF CanDelete(tr, p) THEN [tr EXCEPT ![p] = Nothing] ELSE tr

NativeDirectoryExists(tr, p) == p = <<>> \/ Reachable(tr, p)

NativeFileExists(tr, p) == p # <<>> /\ Reachable(tr, Parent(p)) /\ IsFile(tr, p)

Children(d) == {q \in Paths : IsChild(d, q)}

NativeWalk(tr, recurse) ==
  LET walk[d \in Paths] ==
        {q \in Children(d) : IsFile(tr, q) /\ Last(q) \in Matching} \cup
        (IF recurse THEN UNION {walk[q] : q \in {c \in Children(d) : tr[c] = Dir}} ELSE {})
  IN walk

NativeEnumerate(tr, dir, recurse) ==
  IF Reachable(tr, dir) THEN NativeWalk(tr, recurse)[dir] ELSE {}

-----------------------------------------------------------------------------
(* An opened vault has its root: ensureVirtualDirectory('') of             *)
(* openVirtualVault, the directory that was picked.                        *)
Init ==
  LET Fresh == [p \in Paths |-> IF p = <<>> THEN Dir ELSE Nothing] IN
  /\ entries = Fresh /\ tree = Fresh
  /\ touched = <<>> /\ clashed = FALSE

Touches(p, clash) == touched' = p /\ clashed' = (clashed \/ clash)

CreateDirectory(called) ==
  LET p == Normal(called) IN
  /\ entries' = EnsureDirectory(entries, p)
  /\ tree' = MakeDirectories(tree, p)
  /\ Touches(p, Blocked(tree, p))

WriteAllText(called, x) ==
  LET p == Normal(called) IN
  /\ p # <<>>
  /\ entries' = VirtualWrite(entries, p, x)
  /\ tree' = NativeWrite(tree, p, x)
  /\ Touches(p, ~CanWrite(tree, p))

DeleteFile(called) ==
  LET p == Normal(called) IN
  /\ p # <<>>
  /\ entries' = VirtualDelete(entries, p)
  /\ tree' = NativeDelete(tree, p)
  /\ Touches(p, tree[p] = Dir)

Next ==
  \/ \E p \in DirCalls : CreateDirectory(p)
  \/ \E p \in FileCalls : DeleteFile(p) \/ \E x \in Texts : WriteAllText(p, x)

Spec == Init /\ [][Next]_vars

-----------------------------------------------------------------------------
TypeOK ==
  /\ entries \in [Paths -> Texts \cup {Dir, Nothing}]
  /\ tree \in [Paths -> Texts \cup {Dir, Nothing}]
  /\ touched \in Paths /\ clashed \in BOOLEAN

(* Both vaults show the same notes with the same texts, list the same      *)
(* notes of every directory at every depth, and agree on which directories *)
(* there are, as long as no name was wanted for a file and for a directory. *)
SameView ==
  ~clashed =>
  \A p \in Paths :
    /\ VirtualFileExists(entries, p) = NativeFileExists(tree, p)
    /\ VirtualFileExists(entries, p) => entries[p] = tree[p]
    /\ VirtualDirectoryExists(entries, p) = NativeDirectoryExists(tree, p)
    /\ \A recurse \in BOOLEAN :
         VirtualEnumerate(entries, p, recurse) = NativeEnumerate(tree, p, recurse)

(* What a recursive listing of the root returns is what fileExists finds,  *)
(* however files and directories have taken each other's names: no note    *)
(* can be opened that is not listed, or the other way round.               *)
ListingComplete ==
  LET Found(Exists(_, _), store) ==
        {p \in Paths : Exists(store, p) /\ Last(p) \in Matching} IN
  /\ VirtualEnumerate(entries, <<>>, TRUE) = Found(VirtualFileExists, entries)
  /\ NativeEnumerate(tree, <<>>, TRUE) = Found(NativeFileExists, tree)

(* A call on a native vault changes no other note: neither do the          *)
(* directories it needs replace one, nor does it leave one behind that no  *)
(* path leads to.                                                          *)
NativeKeepsOthers ==
  [][\A p \in Paths : p # touched' /\ NativeFileExists(tree, p) =>
       NativeFileExists(tree', p) /\ tree'[p] = tree[p]]_vars
=============================================================================
