------------------------------- MODULE MemoryFS -------------------------------
(***************************************************************************)
(* vfs.MemoryFS: a file system kept as one flat map from normalized paths  *)
(* to entries.  Each method holds the mutex from its first look at the map *)
(* to its last change, and so is one step.  A method that answers an error *)
(* changes nothing and is no step.                                         *)
(*                                                                         *)
(* A path is the sequence of its names, which is what normalizePath makes  *)
(* of a string; <<>> is "/".  Contents, the targets of links and times are *)
(* left out; an entry is told from another by the object it is.            *)
(***************************************************************************)
EXTENDS Naturals, Sequences, Functions

CONSTANTS Names,    \* what a path is made of
          Depth,    \* bound: how long a path may get
          Nodes,    \* entry objects; one that nothing points to is garbage
          Careless  \* which of CarelessKinds the callers do

\* "root"   Add* at "/", or a rename of "/"
\* "inside" a rename of a directory into itself
\* "under"  Add*, or Mkdir with parents, below something that is no directory
\* "over"   Add* in place of a directory
CarelessKinds == {"root", "inside", "under", "over"}

ASSUME MemoryFSAssumption == Depth \in Nat /\ Careless \subseteq CarelessKinds

Paths == UNION {[1..n -> Names] : n \in 0..Depth}
Root  == <<>>
Kinds == {"dir", "file", "link"}

VARIABLE entries   \* from the paths that exist to their entries

\* path.Dir; the parent of "/" is "/".
Parent(p) == SubSeq(p, 1, Len(p) - 1)

\* Whether q is p or has p + "/" as a prefix.
Within(q, p) == Len(p) <= Len(q) /\ SubSeq(q, 1, Len(p)) = p

Exists(p)   == p \in DOMAIN entries
IsDir(p)    == Exists(p) /\ entries[p].kind = "dir"
Children(p) == {q \in DOMAIN entries \ {p} : Parent(q) = p}
Used        == {entries[p].node : p \in DOMAIN entries}

Init == \E n \in Nodes : entries = [p \in {Root} |-> [node |-> n, kind |-> "dir"]]

-----------------------------------------------------------------------------
Ancestors(p) == {SubSeq(p, 1, n) : n \in 0..(Len(p) - 1)}

\* The directories ensureParents makes for p: those below the nearest ancestor
\* that exists.  "/" is never made.
Missing(p) == {q \in Ancestors(p) \ {Root} :
                 \A r \in Ancestors(p) : Exists(r) => Len(r) < Len(q)}

\* New entries at p and at the directories dirs.
Create(p, k, dirs) ==
  \E f \in Injection(dirs \cup {p}, Nodes \ Used) :
    entries' = [q \in DOMAIN entries \cup dirs \cup {p} |->
                  IF q \in DOMAIN f
                  THEN [node |-> f[q], kind |-> IF q = p THEN k ELSE "dir"]
                  ELSE entries[q]]

Delete(ps) == entries' = [q \in DOMAIN entries \ ps |-> entries[q]]

\* What ensureParents leaves p below: a directory, unless the caller is careless.
ParentsAllow(p) == "under" \in Careless \/
                     \A q \in Ancestors(p) : Exists(q) => IsDir(q)

\* "/" + "/" is a prefix of no path: a rename of "/" moves "/" alone.
Moved(old) == IF old = Root THEN {Root} ELSE {q \in DOMAIN entries : Within(q, old)}

\* The path q with its prefix old replaced.
Rebase(q, old, new) == new \o SubSeq(q, Len(old) + 1, Len(q))

-----------------------------------------------------------------------------
(* Faulty variants of actions below, that no specification uses: slips in  *)
(* the code that some property would notice.                               *)

\* The old paths of what is renamed are not deleted.
RelocateCopying(old, new) ==
  LET targets == {Rebase(q, old, new) : q \in Moved(old)}
  IN  /\ targets \subseteq Paths
      /\ entries' = [q \in DOMAIN entries \cup targets |->
                       IF q \in targets THEN entries[Rebase(q, new, old)] ELSE entries[q]]

\* Nobody looks for what is in the directory.
RmdirFull(p) == /\ IsDir(p) /\ p # Root
                /\ Delete({p})

-----------------------------------------------------------------------------
(* The operations.                                                         *)

\* Every entry at or below old moves below new.
Relocate(old, new) ==
  LET targets == {Rebase(q, old, new) : q \in Moved(old)}
  IN  /\ targets \subseteq Paths
      /\ entries' = [q \in (DOMAIN entries \ Moved(old)) \cup targets |->
                       IF q \in targets THEN entries[Rebase(q, new, old)] ELSE entries[q]]

\* WriteText, WriteBytes: a new file object, in place of a file or a link.
Write(p) == /\ IsDir(Parent(p)) /\ ~IsDir(p)
            /\ Create(p, "file", {})

\* AddText, AddBytes, AddSymlink: parents are made, anything is replaced.
Add(p, k) == /\ "root" \in Careless \/ p # Root
             /\ "over" \in Careless \/ ~IsDir(p)
             /\ ParentsAllow(p)
             /\ Create(p, k, Missing(p))

Mkdir(p) == /\ p # Root /\ ~Exists(p) /\ IsDir(Parent(p))
            /\ Create(p, "dir", {})

\* Mkdir with parents.
MkdirParents(p) == /\ p # Root /\ ~Exists(p)
                   /\ ParentsAllow(p)
                   /\ Create(p, "dir", Missing(p))

Unlink(p) == /\ Exists(p) /\ ~IsDir(p)
             /\ Delete({p})

\* Rmdir of "/" answers no error and deletes nothing.
Rmdir(p) == /\ IsDir(p) /\ Children(p) = {} /\ p # Root
            /\ Delete({p})

\* Faulty variant of Rename: it takes the place of what exists already.
RenameOver(old, new) == /\ Exists(old) /\ IsDir(Parent(new))
                        /\ old # Root /\ ~Within(new, old)
                        /\ Relocate(old, new)

Rename(old, new) == /\ Exists(old) /\ ~Exists(new) /\ IsDir(Parent(new))
                    /\ "root" \in Careless \/ old # Root
                    /\ "inside" \in Careless \/ ~Within(new, old)
                    /\ Relocate(old, new)

Change == \E p \in Paths :
            \/ Write(p) \/ Mkdir(p) \/ MkdirParents(p) \/ Unlink(p) \/ Rmdir(p)
            \/ \E k \in {"file", "link"} : Add(p, k)
            \/ \E q \in Paths : Rename(p, q)

TreeSpec == Init /\ [][Change]_entries

-----------------------------------------------------------------------------
\* The shape of the map; in particular, an entry object is at one path.
TypeOK == /\ DOMAIN entries \subseteq Paths
          /\ \A p \in DOMAIN entries : entries[p] \in [node : Nodes, kind : Kinds]
          /\ \A p, q \in DOMAIN entries : entries[p].node = entries[q].node => p = q

\* The map is a tree below a directory "/", as long as no caller is careless:
\* every ancestor of what exists is a directory that exists, so that Iterdir,
\* Path.scan and a rename of a directory find everything.
IsTree == /\ IsDir(Root)
          /\ \A p \in DOMAIN entries : \A q \in Ancestors(p) : IsDir(q)

\* What the map stands for: see FileTree.
PathOf(n) == CHOOSE p \in DOMAIN entries : entries[p].node = n
tree == [n \in Used |-> LET p == PathOf(n) IN
           [kind |-> entries[p].kind,
            up   |-> entries[Parent(p)].node,
            name |-> IF p = Root THEN "/" ELSE p[Len(p)]]]

Abstract == INSTANCE FileTree
ImplementsFileTree == Abstract!Spec
=============================================================================
