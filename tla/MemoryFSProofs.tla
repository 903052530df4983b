---------------------------- MODULE MemoryFSProofs ----------------------------
(***************************************************************************)
(* Proofs about MemoryFS: with careful callers the flat map is a tree, at  *)
(* any depth and with any names, no entry object is at two paths, and the  *)
(* map implements FileTree.                                                *)
(***************************************************************************)
EXTENDS MemoryFS, SequencesExt, FiniteSetTheorems, TLAPS

\* The map is finite, so that Iterdir has an end.
Bounded == DOMAIN entries \subseteq Paths /\ IsFiniteSet(DOMAIN entries)

-----------------------------------------------------------------------------

(* Paths, ancestors and prefixes.                                          *)

LEMMA PathsAreSequences ==
  ASSUME NEW p \in Paths
  PROVE  p \in Seq(Names) /\ Len(p) \in 0..Depth
BY MemoryFSAssumption DEF Paths

LEMMA SequencesArePaths ==
  ASSUME NEW p \in Seq(Names), Len(p) <= Depth
  PROVE  p \in Paths
<1>1. Len(p) \in 0..Depth /\ p \in [1..Len(p) -> Names]
  BY MemoryFSAssumption
<1> QED
  BY <1>1 DEF Paths

\* A prefix of a sequence, position by position.
LEMMA Prefix ==
  ASSUME NEW p \in Seq(Names), NEW n \in 0..Len(p)
  PROVE  /\ SubSeq(p, 1, n) \in Seq(Names) /\ Len(SubSeq(p, 1, n)) = n
         /\ \A i \in 1..n : SubSeq(p, 1, n)[i] = p[i]
OBVIOUS

LEMMA SameSequence ==
  ASSUME NEW p \in Seq(Names), NEW q \in Seq(Names), Len(p) = Len(q),
         \A i \in 1..Len(p) : p[i] = q[i]
  PROVE  p = q
OBVIOUS

LEMMA PrefixOfPrefix ==
  ASSUME NEW p \in Seq(Names), NEW n \in 0..Len(p), NEW m \in 0..n
  PROVE  SubSeq(SubSeq(p, 1, n), 1, m) = SubSeq(p, 1, m)
<1>1. /\ SubSeq(p, 1, n) \in Seq(Names) /\ Len(SubSeq(p, 1, n)) = n
      /\ \A i \in 1..n : SubSeq(p, 1, n)[i] = p[i]
  BY Prefix
<1>2. /\ SubSeq(p, 1, m) \in Seq(Names) /\ Len(SubSeq(p, 1, m)) = m
      /\ \A i \in 1..m : SubSeq(p, 1, m)[i] = p[i]
  BY Prefix
<1>3. /\ SubSeq(SubSeq(p, 1, n), 1, m) \in Seq(Names)
      /\ Len(SubSeq(SubSeq(p, 1, n), 1, m)) = m
      /\ \A i \in 1..m : SubSeq(SubSeq(p, 1, n), 1, m)[i] = SubSeq(p, 1, n)[i]
  BY <1>1, Prefix
<1> QED
  BY <1>1, <1>2, <1>3, SameSequence

\* What an ancestor is, position by position.
LEMMA AncestorsAre ==
  ASSUME NEW p \in Seq(Names), NEW r
  PROVE  r \in Ancestors(p) <=> /\ r \in Seq(Names) /\ Len(r) < Len(p)
                                /\ \A i \in 1..Len(r) : r[i] = p[i]
<1>1. ASSUME r \in Ancestors(p)
      PROVE  r \in Seq(Names) /\ Len(r) < Len(p) /\ \A i \in 1..Len(r) : r[i] = p[i]
  <2>1. PICK n \in 0..(Len(p) - 1) : r = SubSeq(p, 1, n)
    BY <1>1 DEF Ancestors
  <2> QED
    BY <2>1, Prefix
<1>2. ASSUME r \in Seq(Names), Len(r) < Len(p), \A i \in 1..Len(r) : r[i] = p[i]
      PROVE  r \in Ancestors(p)
  <2>1. Len(r) \in 0..(Len(p) - 1)
    BY <1>2
  <2>2. r = SubSeq(p, 1, Len(r))
    BY <1>2, <2>1, Prefix, SameSequence
  <2> QED
    BY <2>1, <2>2 DEF Ancestors
<1> QED
  BY <1>1, <1>2

LEMMA WithinIs ==
  ASSUME NEW p \in Seq(Names), NEW q \in Seq(Names)
  PROVE  Within(q, p) <=> Len(p) <= Len(q) /\ \A i \in 1..Len(p) : p[i] = q[i]
<1>1. CASE Len(p) <= Len(q)
  <2>1. Len(p) \in 0..Len(q)
    BY <1>1
  <2> QED
    BY <1>1, <2>1, Prefix, SameSequence DEF Within
<1> QED
  BY <1>1 DEF Within

\* Within is the ancestor relation and equality.
LEMMA WithinOrSame ==
  ASSUME NEW p \in Seq(Names), NEW q \in Seq(Names)
  PROVE  Within(q, p) <=> q = p \/ p \in Ancestors(q)
BY WithinIs, AncestorsAre, SameSequence

LEMMA AncestorOfAncestor ==
  ASSUME NEW p \in Seq(Names), NEW q \in Ancestors(p), NEW r \in Ancestors(q)
  PROVE  r \in Ancestors(p)
<1>1. q \in Seq(Names) /\ Len(q) < Len(p) /\ \A i \in 1..Len(q) : q[i] = p[i]
  BY AncestorsAre
<1>2. r \in Seq(Names) /\ Len(r) < Len(q) /\ \A i \in 1..Len(r) : r[i] = q[i]
  BY <1>1, AncestorsAre
<1> QED
  BY <1>1, <1>2, AncestorsAre

\* The ancestors of one path are in a line.
LEMMA AncestorsInLine ==
  ASSUME NEW p \in Seq(Names), NEW r \in Ancestors(p), NEW s \in Ancestors(p),
         Len(r) <= Len(s)
  PROVE  r = s \/ r \in Ancestors(s)
<1>1. /\ r \in Seq(Names) /\ Len(r) < Len(p) /\ \A i \in 1..Len(r) : r[i] = p[i]
      /\ s \in Seq(Names) /\ Len(s) < Len(p) /\ \A i \in 1..Len(s) : s[i] = p[i]
  BY AncestorsAre
<1>2. \A i \in 1..Len(r) : r[i] = s[i]
  BY <1>1
<1>3. CASE Len(r) = Len(s)
  BY <1>1, <1>2, <1>3, SameSequence
<1>4. CASE Len(r) < Len(s)
  BY <1>1, <1>2, <1>4, AncestorsAre
<1> QED
  BY <1>1, <1>3, <1>4

\* The ancestors of p are its parent and the ancestors of its parent.
LEMMA ParentFirst ==
  ASSUME NEW p \in Seq(Names), NEW r \in Ancestors(p)
  PROVE  Parent(p) \in Ancestors(p) /\ (r = Parent(p) \/ r \in Ancestors(Parent(p)))
<1>1. r \in Seq(Names) /\ Len(r) < Len(p) /\ \A i \in 1..Len(r) : r[i] = p[i]
  BY AncestorsAre
<1>2. Len(p) - 1 \in 0..(Len(p) - 1) /\ Len(p) - 1 \in 0..Len(p)
  BY <1>1
<1>3. Parent(p) \in Ancestors(p)
  BY <1>2 DEF Parent, Ancestors
<1>4. Parent(p) \in Seq(Names) /\ Len(Parent(p)) = Len(p) - 1
  BY <1>2, Prefix DEF Parent
<1>5. Len(r) <= Len(Parent(p))
  BY <1>1, <1>4
<1> QED
  BY <1>3, <1>5, AncestorsInLine

\* Between an ancestor of q and q there is a child of that ancestor.
LEMMA ChildBetween ==
  ASSUME NEW q \in Seq(Names), NEW p \in Ancestors(q)
  PROVE  \E c \in Ancestors(q) \cup {q} : Parent(c) = p /\ c # p
<1>1. p \in Seq(Names) /\ Len(p) < Len(q) /\ \A i \in 1..Len(p) : p[i] = q[i]
  BY AncestorsAre
<1> DEFINE n == Len(p) + 1
           c == SubSeq(q, 1, n)
<1>2. n \in 0..Len(q) /\ Len(p) \in 0..n
  BY <1>1
<1>3. c \in Seq(Names) /\ Len(c) = n /\ \A i \in 1..n : c[i] = q[i]
  BY <1>2, Prefix
<1>4. c \in Ancestors(q) \cup {q}
  <2>1. CASE n = Len(q)
    BY <1>3, <2>1, SameSequence
  <2>2. CASE n < Len(q)
    BY <1>3, <2>2, AncestorsAre
  <2> QED
    BY <1>2, <2>1, <2>2
<1>5. Parent(c) = p
  <2>1. Parent(c) = SubSeq(q, 1, Len(p))
    BY <1>1, <1>2, <1>3, PrefixOfPrefix DEF Parent
  <2>2. Len(p) \in 0..Len(q)
    BY <1>1
  <2> QED
    BY <1>1, <2>1, <2>2, Prefix, SameSequence
<1>6. c # p
  BY <1>1, <1>3
<1> QED
  BY <1>4, <1>5, <1>6

\* Rebase keeps what follows the prefix old and goes back and forth.
LEMMA RebaseIs ==
  ASSUME NEW old \in Seq(Names), NEW new \in Seq(Names), NEW q \in Seq(Names),
         Within(q, old)
  PROVE  LET t == Rebase(q, old, new) IN
         /\ t \in Seq(Names) /\ Len(t) = Len(new) + Len(q) - Len(old)
         /\ \A i \in 1..Len(new) : t[i] = new[i]
         /\ \A i \in 1..(Len(q) - Len(old)) : t[Len(new) + i] = q[Len(old) + i]
BY DEF Within, Rebase

LEMMA RebaseStaysWithin ==
  ASSUME NEW old \in Seq(Names), NEW new \in Seq(Names), NEW q \in Seq(Names),
         Within(q, old)
  PROVE  Within(Rebase(q, old, new), new)
<1> DEFINE t == Rebase(q, old, new)
<1>1. Len(old) <= Len(q) /\ Len(old) \in Nat /\ Len(q) \in Nat /\ Len(new) \in Nat
  BY DEF Within
<1>2. /\ t \in Seq(Names) /\ Len(t) = Len(new) + Len(q) - Len(old)
      /\ \A i \in 1..Len(new) : t[i] = new[i]
  BY RebaseIs
<1> HIDE DEF t
<1>3. Within(t, new)
  BY <1>1, <1>2, WithinIs
<1> QED
  BY <1>3 DEF t

LEMMA RebaseBack ==
  ASSUME NEW old \in Seq(Names), NEW new \in Seq(Names), NEW q \in Seq(Names),
         Within(q, old)
  PROVE  Rebase(Rebase(q, old, new), new, old) = q
<1> DEFINE t == Rebase(q, old, new)
           u == Rebase(t, new, old)
<1>1. Len(old) <= Len(q) /\ \A i \in 1..Len(old) : old[i] = q[i]
  BY WithinIs
<1>2. /\ t \in Seq(Names) /\ Len(t) = Len(new) + Len(q) - Len(old)
      /\ \A i \in 1..(Len(q) - Len(old)) : t[Len(new) + i] = q[Len(old) + i]
      /\ Within(t, new)
  BY RebaseIs, RebaseStaysWithin
<1>3. /\ u \in Seq(Names) /\ Len(u) = Len(old) + Len(t) - Len(new)
      /\ \A i \in 1..Len(old) : u[i] = old[i]
      /\ \A i \in 1..(Len(t) - Len(new)) : u[Len(old) + i] = t[Len(new) + i]
  <2> HIDE DEF t
  <2> QED
    BY <1>2, RebaseIs
<1> HIDE DEF t, u
<1>4. Len(u) = Len(q)
  BY <1>2, <1>3
<1>5. ASSUME NEW i \in 1..Len(q)
      PROVE  u[i] = q[i]
  <2>1. CASE i <= Len(old)
    BY <1>1, <1>3, <2>1
  <2>2. CASE i > Len(old)
    <3>1. i - Len(old) \in 1..(Len(q) - Len(old)) /\ i = Len(old) + (i - Len(old))
      BY <1>1, <2>2
    <3>2. Len(t) - Len(new) = Len(q) - Len(old)
      BY <1>2
    <3> QED
      BY <1>2, <1>3, <3>1, <3>2
  <2> QED
    BY <2>1, <2>2
<1>6. u = q
  BY <1>3, <1>4, <1>5, SameSequence
<1> QED
  BY <1>6 DEF u, t

\* An ancestor of a path that moved is an ancestor of new, or an ancestor that
\* moved with it.
LEMMA RebaseAncestors ==
  ASSUME NEW old \in Seq(Names), NEW new \in Seq(Names), NEW q \in Seq(Names),
         Within(q, old), NEW r \in Ancestors(Rebase(q, old, new))
  PROVE  \/ r \in Ancestors(new)
         \/ \E s \in Ancestors(q) : Within(s, old) /\ r = Rebase(s, old, new)
<1> DEFINE t == Rebase(q, old, new)
<1>1. Len(old) <= Len(q) /\ \A i \in 1..Len(old) : old[i] = q[i]
  BY WithinIs
<1>2. /\ t \in Seq(Names) /\ Len(t) = Len(new) + Len(q) - Len(old)
      /\ \A i \in 1..Len(new) : t[i] = new[i]
      /\ \A i \in 1..(Len(q) - Len(old)) : t[Len(new) + i] = q[Len(old) + i]
  BY RebaseIs
<1>3. r \in Ancestors(t)
  OBVIOUS
<1> HIDE DEF t
<1>4. r \in Seq(Names) /\ Len(r) < Len(t) /\ \A i \in 1..Len(r) : r[i] = t[i]
  BY <1>2, <1>3, AncestorsAre
<1>5. CASE Len(r) < Len(new)
  <2>1. \A i \in 1..Len(r) : r[i] = new[i]
    BY <1>2, <1>4, <1>5
  <2> QED
    BY <1>4, <1>5, <2>1, AncestorsAre
<1>6. CASE Len(new) <= Len(r)
  <2> DEFINE n == Len(old) + (Len(r) - Len(new))
             s == SubSeq(q, 1, n)
  <2>1. n \in 0..(Len(q) - 1) /\ n \in 0..Len(q) /\ Len(old) <= n
    BY <1>1, <1>2, <1>4, <1>6
  <2>2. s \in Seq(Names) /\ Len(s) = n /\ \A i \in 1..n : s[i] = q[i]
    BY <2>1, Prefix
  <2>3. s \in Ancestors(q)
    BY <2>1 DEF Ancestors
  <2>4. Within(s, old)
    <3> HIDE DEF s, n
    <3> QED
      BY <1>1, <2>1, <2>2, WithinIs
  <2> DEFINE u == Rebase(s, old, new)
  <2>5. /\ u \in Seq(Names) /\ Len(u) = Len(new) + Len(s) - Len(old)
        /\ \A i \in 1..Len(new) : u[i] = new[i]
        /\ \A i \in 1..(Len(s) - Len(old)) : u[Len(new) + i] = s[Len(old) + i]
    <3> HIDE DEF s, n
    <3> QED
      BY <2>2, <2>4, RebaseIs
  <2>6. Len(u) = Len(r)
    <3> HIDE DEF s, u
    <3> QED
      BY <1>4, <2>2, <2>5
  <2>7. ASSUME NEW i \in 1..Len(r)
        PROVE  u[i] = r[i]
    <3> HIDE DEF s, u
    <3>1. CASE i <= Len(new)
      BY <1>2, <1>4, <2>5, <3>1
    <3>2. CASE i > Len(new)
      <4> DEFINE j == i - Len(new)
      <4>1. /\ j \in 1..(Len(s) - Len(old)) /\ i = Len(new) + j
            /\ j \in 1..(Len(q) - Len(old)) /\ Len(old) + j \in 1..n
        BY <1>1, <1>2, <1>4, <2>1, <2>2, <3>2
      <4> HIDE DEF j, n
      <4> QED
        BY <1>2, <1>4, <2>2, <2>5, <4>1
    <3> QED
      BY <1>4, <3>1, <3>2
  <2>8. r = u
    <3> HIDE DEF u
    <3> QED
      BY <1>4, <2>5, <2>6, <2>7, SameSequence
  <2> QED
    BY <2>3, <2>4, <2>8
<1> QED
  BY <1>2, <1>4, <1>5, <1>6

-----------------------------------------------------------------------------
(* The steps.  What every step changes is one of three: new entries, the   *)
(* end of one, a move.                                                     *)

Inv == TypeOK /\ IsTree

\* Every path but "/" has a parent, and "/" above it.
LEMMA BelowRoot ==
  ASSUME NEW p \in Paths, p # Root
  PROVE  Parent(p) \in Ancestors(p) /\ Root \in Ancestors(p)
<1>1. p \in Seq(Names) /\ Len(p) \in Nat
  BY PathsAreSequences
<1>2. Len(p) # 0
  BY <1>1 DEF Root
<1>3. 0 \in 0..(Len(p) - 1) /\ Len(p) - 1 \in 0..(Len(p) - 1)
  BY <1>1, <1>2
<1>4. SubSeq(p, 1, 0) = Root
  BY <1>1 DEF Root
<1> QED
  BY <1>3, <1>4 DEF Ancestors, Parent

\* New entries keep the tree when every path they are below is a directory or
\* becomes one, and they take the place of no directory.
LEMMA CreateKeeps ==
  ASSUME Inv, NEW p \in Paths, NEW k \in Kinds, NEW dirs \in SUBSET Paths,
         p # Root, Root \notin dirs, ~IsDir(p), p \notin dirs,
         dirs \cap DOMAIN entries = {},
         \A q \in dirs \cup {p} : \A r \in Ancestors(q) : IsDir(r) \/ r \in dirs,
         Create(p, k, dirs)
  PROVE  Inv'
<1>1. PICK f \in Injection(dirs \cup {p}, Nodes \ Used) :
        entries' = [q \in DOMAIN entries \cup dirs \cup {p} |->
                      IF q \in DOMAIN f
                      THEN [node |-> f[q], kind |-> IF q = p THEN k ELSE "dir"]
                      ELSE entries[q]]
  BY DEF Create
<1>2. /\ f \in [dirs \cup {p} -> Nodes \ Used]
      /\ \A a, b \in dirs \cup {p} : f[a] = f[b] => a = b
  BY DEF Injection, IsInjective
<1>3. DOMAIN f = dirs \cup {p} /\ DOMAIN entries' = DOMAIN entries \cup dirs \cup {p}
  BY <1>1, <1>2
<1>4. \A q \in dirs \cup {p} :
        entries'[q] = [node |-> f[q], kind |-> IF q = p THEN k ELSE "dir"]
  BY <1>1, <1>3
<1>5. \A q \in DOMAIN entries \ (dirs \cup {p}) : entries'[q] = entries[q]
  BY <1>1, <1>3
<1>6. \A q \in DOMAIN entries : entries[q].node \in Used
  BY DEF Used
<1>7. /\ \A q \in dirs \cup {p} : entries'[q].node = f[q] /\ f[q] \notin Used
      /\ \A q \in dirs : entries'[q].kind = "dir"
      /\ \A q \in dirs \cup {p} : entries'[q] \in [node : Nodes, kind : Kinds]
  <2>1. ASSUME NEW q \in dirs \cup {p}
        PROVE  /\ entries'[q].node = f[q] /\ f[q] \in Nodes /\ f[q] \notin Used
               /\ q \in dirs => entries'[q].kind = "dir"
               /\ entries'[q] \in [node : Nodes, kind : Kinds]
    <3>1. f[q] \in Nodes /\ f[q] \notin Used
      BY <1>2
    <3>2. CASE q = p
      <4>1. entries'[q] = [node |-> f[q], kind |-> k]
        BY <1>4, <3>2
      <4> QED
        BY <3>1, <3>2, <4>1
    <3>3. CASE q # p
      <4>1. entries'[q] = [node |-> f[q], kind |-> "dir"]
        BY <1>4, <3>3
      <4> QED
        BY <3>1, <4>1 DEF Kinds
    <3> QED
      BY <3>2, <3>3
  <2> QED
    BY <2>1
<1>8. TypeOK'
  <2>1. DOMAIN entries' \subseteq Paths
    BY <1>3 DEF Inv, TypeOK
  <2>2. ASSUME NEW q \in DOMAIN entries'
        PROVE  entries'[q] \in [node : Nodes, kind : Kinds]
    <3>1. CASE q \in dirs \cup {p}
      BY <1>7, <3>1
    <3>2. CASE q \notin dirs \cup {p}
      BY <1>3, <1>5, <3>2 DEF Inv, TypeOK
    <3> QED
      BY <3>1, <3>2
  <2>3. ASSUME NEW q \in DOMAIN entries', NEW r \in DOMAIN entries',
               entries'[q].node = entries'[r].node
        PROVE  q = r
    <3>1. CASE q \in dirs \cup {p} /\ r \in dirs \cup {p}
      BY <1>2, <1>7, <2>3, <3>1
    <3>2. CASE q \in dirs \cup {p} /\ r \notin dirs \cup {p}
      BY <1>3, <1>5, <1>6, <1>7, <2>3, <3>2
    <3>3. CASE q \notin dirs \cup {p} /\ r \in dirs \cup {p}
      BY <1>3, <1>5, <1>6, <1>7, <2>3, <3>3
    <3>4. CASE q \notin dirs \cup {p} /\ r \notin dirs \cup {p}
      BY <1>3, <1>5, <2>3, <3>4 DEF Inv, TypeOK
    <3> QED
      BY <3>1, <3>2, <3>3, <3>4
  <2> QED
    BY <2>1, <2>2, <2>3 DEF TypeOK
<1>9. ASSUME NEW r, IsDir(r) \/ r \in dirs
      PROVE  IsDir(r)'
  <2>1. CASE r \in dirs
    BY <1>3, <1>7, <2>1 DEF IsDir, Exists
  <2>2. CASE r \notin dirs
    BY <1>3, <1>5, <1>9, <2>2 DEF IsDir, Exists
  <2> QED
    BY <2>1, <2>2
<1>10. IsTree'
  <2>1. IsDir(Root)'
    BY <1>9 DEF Inv, IsTree
  <2>2. ASSUME NEW q \in DOMAIN entries', NEW r \in Ancestors(q)
        PROVE  IsDir(r)'
    <3>1. CASE q \in dirs \cup {p}
      BY <1>9, <3>1
    <3>2. CASE q \notin dirs \cup {p}
      BY <1>3, <1>9, <3>2 DEF Inv, IsTree
    <3> QED
      BY <3>1, <3>2
  <2> QED
    BY <2>1, <2>2 DEF IsTree, Ancestors
<1> QED
  BY <1>8, <1>10 DEF Inv

\* What ends is no directory, or one that nothing is below.
LEMMA DeleteKeeps ==
  ASSUME Inv, NEW p \in Paths, p # Root, Delete({p}),
         \A q \in DOMAIN entries : p \notin Ancestors(q)
  PROVE  Inv'
<1>1. /\ DOMAIN entries' = DOMAIN entries \ {p}
      /\ \A q \in DOMAIN entries' : entries'[q] = entries[q]
  BY DEF Delete
<1>2. TypeOK'
  BY <1>1 DEF Inv, TypeOK
<1>3. ASSUME NEW r, r # p, IsDir(r)
      PROVE  IsDir(r)'
  BY <1>1, <1>3 DEF IsDir, Exists
<1>4. IsDir(Root)'
  BY <1>3 DEF Inv, IsTree
<1>5. ASSUME NEW q \in DOMAIN entries', NEW r \in Ancestors(q)
      PROVE  IsDir(r)'
  BY <1>1, <1>3 DEF Inv, IsTree
<1> QED
  BY <1>2, <1>4, <1>5 DEF Inv, IsTree, Ancestors

\* What moves is a path and what is below it, to a path that does not exist and
\* is not below it, in a directory.
\* A rename carries each entry at or below old to its place below new, and
\* leaves the others alone; nothing was there before.
LEMMA RelocateCarries ==
  ASSUME Inv, NEW old \in Paths, NEW new \in Paths, old # Root,
         ~Exists(new), Relocate(old, new)
  PROVE  LET moved   == {q \in DOMAIN entries : Within(q, old)}
             targets == {Rebase(q, old, new) : q \in moved}
         IN /\ targets \subseteq Paths
            /\ DOMAIN entries' = (DOMAIN entries \ moved) \cup targets
            /\ \A q \in moved : entries'[Rebase(q, old, new)] = entries[q]
            /\ \A q \in DOMAIN entries \ moved : q \in DOMAIN entries' /\ entries'[q] = entries[q]
<1> DEFINE moved == {q \in DOMAIN entries : Within(q, old)}
           targets == {Rebase(q, old, new) : q \in moved}
<1>1. Moved(old) = moved
  BY DEF Moved
<1>2. /\ targets \subseteq Paths
      /\ entries' = [q \in (DOMAIN entries \ moved) \cup targets |->
                       IF q \in targets THEN entries[Rebase(q, new, old)] ELSE entries[q]]
  BY <1>1 DEF Relocate
<1>3. DOMAIN entries \subseteq Paths /\ old \in Seq(Names) /\ new \in Seq(Names)
  BY PathsAreSequences DEF Inv, TypeOK
<1>4. \A q \in moved : q \in Seq(Names) /\ q \in DOMAIN entries /\ Within(q, old)
  BY <1>3, PathsAreSequences
<1> HIDE DEF moved
<1>5. DOMAIN entries' = (DOMAIN entries \ moved) \cup targets
  BY <1>2
<1>6. ASSUME NEW q \in moved
      PROVE  /\ Rebase(q, old, new) \in targets
             /\ entries'[Rebase(q, old, new)] = entries[q]
  <2>1. Rebase(q, old, new) \in targets
    OBVIOUS
  <2>2. Rebase(Rebase(q, old, new), new, old) = q
    BY <1>3, <1>4, RebaseBack
  <2> QED
    BY <1>2, <2>1, <2>2
<1>7. ASSUME NEW t \in targets
      PROVE  /\ t \in Seq(Names) /\ Within(t, new) /\ t \notin DOMAIN entries
  <2>1. PICK q \in moved : t = Rebase(q, old, new)
    OBVIOUS
  <2>2. t \in Seq(Names) /\ Within(t, new)
    BY <1>3, <1>4, <2>1, RebaseIs, RebaseStaysWithin
  <2>3. t = new \/ new \in Ancestors(t)
    BY <1>3, <2>2, WithinOrSame
  <2>4. t \notin DOMAIN entries
    BY <2>3 DEF Inv, IsTree, IsDir, Exists
  <2> QED
    BY <2>2, <2>4
<1>8. \A q \in DOMAIN entries \ moved : q \in DOMAIN entries' /\ entries'[q] = entries[q]
  BY <1>2, <1>7
<1> QED
  BY <1>2, <1>5, <1>6, <1>8 DEF moved

LEMMA RelocateKeeps ==
  ASSUME Inv, NEW old \in Paths, NEW new \in Paths, old # Root,
         Exists(old), ~Exists(new), IsDir(Parent(new)), ~Within(new, old),
         Relocate(old, new)
  PROVE  Inv'
<1> DEFINE moved == {q \in DOMAIN entries : Within(q, old)}
           targets == {Rebase(q, old, new) : q \in moved}
<1>2. targets \subseteq Paths /\ DOMAIN entries' = (DOMAIN entries \ moved) \cup targets
  BY RelocateCarries
<1>3. DOMAIN entries \subseteq Paths /\ old \in Seq(Names) /\ new \in Seq(Names)
  BY PathsAreSequences DEF Inv, TypeOK
<1>4. \A q \in moved : q \in Seq(Names) /\ q \in DOMAIN entries /\ Within(q, old)
  BY <1>3, PathsAreSequences
<1>6. \A q \in moved : Rebase(q, old, new) \in targets /\ entries'[Rebase(q, old, new)] = entries[q]
  BY RelocateCarries
<1>8. \A q \in DOMAIN entries \ moved : q \in DOMAIN entries' /\ entries'[q] = entries[q]
  BY RelocateCarries
<1> HIDE DEF moved
<1>5. DOMAIN entries' = (DOMAIN entries \ moved) \cup targets
  BY <1>2
<1>9. ASSUME NEW t \in targets
      PROVE  \E q \in moved : t = Rebase(q, old, new) /\ entries'[t] = entries[q]
  <2>1. PICK q \in moved : t = Rebase(q, old, new)
    OBVIOUS
  <2> QED
    BY <1>6, <2>1
<1> HIDE DEF targets
<1>10. ASSUME NEW q \in DOMAIN entries'
       PROVE  \E r \in DOMAIN entries :
                /\ entries'[q] = entries[r]
                /\ (r = q /\ r \notin moved) \/ (r \in moved /\ q = Rebase(r, old, new))
  BY <1>4, <1>5, <1>8, <1>9
<1>11. TypeOK'
  <2>1. DOMAIN entries' \subseteq Paths
    BY <1>2, <1>3, <1>5
  <2>2. \A q \in DOMAIN entries' : entries'[q] \in [node : Nodes, kind : Kinds]
    BY <1>10 DEF Inv, TypeOK
  <2>3. ASSUME NEW p \in DOMAIN entries', NEW q \in DOMAIN entries',
               entries'[p].node = entries'[q].node
        PROVE  p = q
    <3>1. PICK r \in DOMAIN entries :
            /\ entries'[p] = entries[r]
            /\ (r = p /\ r \notin moved) \/ (r \in moved /\ p = Rebase(r, old, new))
      BY <1>10
    <3>2. PICK s \in DOMAIN entries :
            /\ entries'[q] = entries[s]
            /\ (s = q /\ s \notin moved) \/ (s \in moved /\ q = Rebase(s, old, new))
      BY <1>10
    <3>3. r = s
      BY <2>3, <3>1, <3>2 DEF Inv, TypeOK
    <3> QED
      BY <3>1, <3>2, <3>3
  <2> QED
    BY <2>1, <2>2, <2>3 DEF TypeOK
\* A directory that stays is one still, and one that moves is one where it went.
<1>12. ASSUME NEW r, IsDir(r)
       PROVE  /\ r \notin moved => IsDir(r)'
              /\ r \in moved => IsDir(Rebase(r, old, new))'
  BY <1>5, <1>6, <1>8, <1>12 DEF IsDir, Exists
<1>13. IsDir(Root)'
  <2>1. Root \notin moved
    BY <1>3, <1>4 DEF Within, Root
  <2> QED
    BY <1>12, <2>1 DEF Inv, IsTree
\* What is above new is a directory that stays.
<1>14. ASSUME NEW r \in Ancestors(new)
       PROVE  IsDir(r)'
  <2>1. r = Parent(new) \/ r \in Ancestors(Parent(new))
    BY <1>3, ParentFirst
  <2>2. IsDir(r)
    BY <2>1 DEF Inv, IsTree, IsDir, Exists
  <2>3. r \notin moved
    <3>1. SUFFICES ASSUME r \in moved PROVE FALSE
      OBVIOUS
    <3>2. r \in Seq(Names) /\ (r = old \/ old \in Ancestors(r))
      BY <1>3, <1>4, <3>1, WithinOrSame
    <3>3. old \in Ancestors(new)
      BY <1>3, <3>2, AncestorOfAncestor
    <3> QED
      BY <1>3, <3>3, WithinOrSame
  <2> QED
    BY <1>12, <2>2, <2>3
<1>15. ASSUME NEW q \in DOMAIN entries \ moved, NEW r \in Ancestors(q)
       PROVE  IsDir(r)'
  <2>1. IsDir(r)
    BY DEF Inv, IsTree
  <2>2. r \notin moved
    <3>1. SUFFICES ASSUME r \in moved PROVE FALSE
      OBVIOUS
    <3>2. q \in Seq(Names) /\ r \in Seq(Names) /\ (r = old \/ old \in Ancestors(r))
      BY <1>3, <1>4, <3>1, PathsAreSequences, WithinOrSame
    <3>3. Within(q, old)
      BY <1>3, <3>2, AncestorOfAncestor, WithinOrSame
    <3> QED
      BY <3>3 DEF moved
  <2> QED
    BY <1>12, <2>1, <2>2
<1>16. ASSUME NEW q \in moved, NEW r \in Ancestors(Rebase(q, old, new))
       PROVE  IsDir(r)'
  <2>1. CASE r \in Ancestors(new)
    BY <1>14, <2>1
  <2>2. ASSUME NEW s \in Ancestors(q), Within(s, old), r = Rebase(s, old, new)
        PROVE  IsDir(r)'
    <3>1. IsDir(s)
      BY <1>4 DEF Inv, IsTree
    <3>2. s \in moved
      BY <2>2, <3>1 DEF moved, IsDir, Exists
    <3> QED
      BY <1>12, <2>2, <3>1, <3>2
  <2> QED
    BY <1>3, <1>4, <2>1, <2>2, RebaseAncestors
<1>17. IsTree'
  <2>1. ASSUME NEW q \in DOMAIN entries', NEW r \in Ancestors(q)
        PROVE  IsDir(r)'
    BY <1>10, <1>15, <1>16
  <2> QED
    BY <1>13, <2>1 DEF IsTree, Ancestors
<1> QED
  BY <1>11, <1>17 DEF Inv

\* What a careful ensureParents finds and makes.
LEMMA MissingCompletes ==
  ASSUME Inv, NEW p \in Paths, p # Root, ~Exists(p) \/ ~IsDir(p),
         \A q \in Ancestors(p) : Exists(q) => IsDir(q)
  PROVE  /\ Missing(p) \in SUBSET Paths
         /\ Root \notin Missing(p) /\ p \notin Missing(p)
         /\ Missing(p) \cap DOMAIN entries = {}
         /\ \A q \in Missing(p) \cup {p} : \A r \in Ancestors(q) :
              IsDir(r) \/ r \in Missing(p)
<1>1. p \in Seq(Names) /\ Len(p) <= Depth
  BY PathsAreSequences
<1>2. \A r \in Ancestors(p) : r \in Seq(Names) /\ Len(r) < Len(p)
  BY <1>1, AncestorsAre
<1>3. \A q \in Missing(p) : q \in Ancestors(p) /\ q # Root /\ ~Exists(q)
  BY <1>2 DEF Missing
<1>4. Missing(p) \in SUBSET Paths
  <2>1. ASSUME NEW q \in Missing(p)
        PROVE  q \in Paths
    <3>1. q \in Seq(Names) /\ Len(q) <= Depth
      BY <1>1, <1>2, <1>3, MemoryFSAssumption
    <3> QED
      BY <3>1, SequencesArePaths
  <2> QED
    BY <2>1
<1>5. p \notin Missing(p)
  BY <1>2, <1>3
<1>6. Missing(p) \cap DOMAIN entries = {}
  BY <1>3 DEF Exists
<1>7. ASSUME NEW r \in Ancestors(p), ~Exists(r)
      PROVE  r \in Missing(p)
  <2>1. r # Root
    BY <1>7 DEF Inv, IsTree, IsDir
  <2>2. ASSUME NEW s \in Ancestors(p), Exists(s), Len(r) <= Len(s)
        PROVE  FALSE
    <3>1. r = s \/ r \in Ancestors(s)
      BY <1>1, <2>2, AncestorsInLine
    <3>2. Exists(r)
      BY <2>2, <3>1 DEF Inv, IsTree, IsDir, Exists
    <3> QED
      BY <1>7, <3>2
  <2>3. ASSUME NEW s \in Ancestors(p), Exists(s)
        PROVE  Len(s) < Len(r)
    BY <1>2, <2>2, <2>3
  <2> QED
    BY <2>1, <2>3 DEF Missing
<1>8. ASSUME NEW q \in Missing(p) \cup {p}, NEW r \in Ancestors(q)
      PROVE  IsDir(r) \/ r \in Missing(p)
  <2>1. r \in Ancestors(p)
    BY <1>1, <1>3, AncestorOfAncestor
  <2> QED
    BY <1>7, <2>1
<1> QED
  BY <1>3, <1>4, <1>5, <1>6, <1>8

LEMMA InitHolds == Init => Inv
<1> SUFFICES ASSUME Init PROVE Inv
  OBVIOUS
<1>1. PICK n \in Nodes : entries = [p \in {Root} |-> [node |-> n, kind |-> "dir"]]
  BY DEF Init
<1>2. Root \in Seq(Names) /\ Len(Root) = 0
  BY DEF Root
<1>3. Root \in Paths
  <2>1. Len(Root) <= Depth
    BY <1>2, MemoryFSAssumption
  <2> QED
    BY <1>2, <2>1, SequencesArePaths
<1>4. TypeOK
  BY <1>1, <1>3 DEF TypeOK, Kinds
<1>5. Ancestors(Root) = {}
  BY <1>2 DEF Ancestors
<1>6. IsTree
  BY <1>1, <1>5 DEF IsTree, IsDir, Exists
<1> QED
  BY <1>4, <1>6 DEF Inv

\* The handler's operations, one by one, when no caller is careless.
LEMMA StepKeeps ==
  ASSUME Careless = {}, Inv, [Change]_entries
  PROVE  Inv'
<1>1. DOMAIN entries \subseteq Paths /\ IsDir(Root)
  BY DEF Inv, TypeOK, IsTree
\* A directory has directories above it.
<1>2. ASSUME NEW p \in Paths, p # Root, IsDir(Parent(p))
      PROVE  \A r \in Ancestors(p) : IsDir(r)
  <2>1. p \in Seq(Names)
    BY PathsAreSequences
  <2> QED
    BY <1>2, <2>1, ParentFirst DEF Inv, IsTree, IsDir, Exists
\* What is no directory has nothing below it, nor has a directory with no children.
<1>3. ASSUME NEW p \in Paths, ~IsDir(p) \/ Children(p) = {}
      PROVE  \A q \in DOMAIN entries : p \notin Ancestors(q)
  <2>1. SUFFICES ASSUME NEW q \in DOMAIN entries, p \in Ancestors(q) PROVE FALSE
    OBVIOUS
  <2>2. IsDir(p) /\ q \in Seq(Names)
    BY <1>1, <2>1, PathsAreSequences DEF Inv, IsTree
  <2>3. PICK c \in Ancestors(q) \cup {q} : Parent(c) = p /\ c # p
    BY <2>1, <2>2, ChildBetween
  <2>4. c \in Children(p)
    BY <2>1, <2>3 DEF Children, Inv, IsTree, IsDir, Exists
  <2> QED
    BY <1>3, <2>2, <2>4
<1>4. CASE UNCHANGED entries
  BY <1>4 DEF Inv, TypeOK, IsTree, IsDir, Exists, Ancestors
<1>5. ASSUME NEW p \in Paths, Write(p)
      PROVE  Inv'
  <2>1. p # Root /\ ~IsDir(p) /\ IsDir(Parent(p)) /\ Create(p, "file", {})
    BY <1>1, <1>5 DEF Write
  <2> QED
    BY <1>2, <2>1, CreateKeeps DEF Kinds
<1>6. ASSUME NEW p \in Paths, Mkdir(p)
      PROVE  Inv'
  <2>1. p # Root /\ ~IsDir(p) /\ IsDir(Parent(p)) /\ Create(p, "dir", {})
    BY <1>6 DEF Mkdir, IsDir
  <2> QED
    BY <1>2, <2>1, CreateKeeps DEF Kinds
<1>7. ASSUME NEW p \in Paths, MkdirParents(p)
      PROVE  Inv'
  <2>1. /\ p # Root /\ ~IsDir(p) /\ Create(p, "dir", Missing(p))
        /\ \A q \in Ancestors(p) : Exists(q) => IsDir(q)
    BY <1>7 DEF MkdirParents, ParentsAllow, IsDir
  <2> QED
    BY <2>1, MissingCompletes, CreateKeeps DEF Kinds
<1>8. ASSUME NEW p \in Paths, NEW k \in {"file", "link"}, Add(p, k)
      PROVE  Inv'
  <2>1. /\ p # Root /\ ~IsDir(p) /\ Create(p, k, Missing(p))
        /\ \A q \in Ancestors(p) : Exists(q) => IsDir(q)
    BY <1>8 DEF Add, ParentsAllow
  <2> QED
    BY <2>1, MissingCompletes, CreateKeeps DEF Kinds
<1>9. ASSUME NEW p \in Paths, Unlink(p)
      PROVE  Inv'
  BY <1>1, <1>3, <1>9, DeleteKeeps DEF Unlink
<1>10. ASSUME NEW p \in Paths, Rmdir(p)
       PROVE  Inv'
  BY <1>3, <1>10, DeleteKeeps DEF Rmdir
<1>11. ASSUME NEW p \in Paths, NEW q \in Paths, Rename(p, q)
       PROVE  Inv'
  BY <1>11, RelocateKeeps DEF Rename
<1> QED
  BY <1>4, <1>5, <1>6, <1>7, <1>8, <1>9, <1>10, <1>11 DEF Change

-----------------------------------------------------------------------------
LEMMA Invariance == ASSUME Careless = {} PROVE TreeSpec => []Inv
<1>1. Inv /\ [Change]_entries => Inv'
  BY StepKeeps
<1> QED
  BY <1>1, InitHolds, PTL DEF TreeSpec

LEMMA Enumerates ==
  ASSUME NEW S, IsFiniteSet(S)
  PROVE  LET s == SetToSeq(S) IN
         /\ s \in Seq(S)
         /\ \A i, j \in 1..Len(s) : s[i] = s[j] => i = j
         /\ \A x \in S : \E i \in 1..Len(s) : s[i] = x
<1> DEFINE n == Cardinality(S)
           s == SetToSeq(S)
<1>1. n \in Nat /\ ExistsBijection(1..n, S)
  BY FS_CardinalityType
<1>2. \E f \in [1..n -> S] : IsInjective(f)
  BY <1>1 DEF ExistsBijection, Bijection, Injection
<1>3. s \in [1..n -> S] /\ IsInjective(s)
  BY <1>2 DEF SetToSeq
<1>4. IsFiniteSet(1..n) /\ Cardinality(1..n) = n
  BY <1>1, FS_Interval
<1>5. s \in Injection(1..n, S)
  BY <1>3 DEF Injection
<1>6. s \in Surjection(1..n, S)
  BY <1>4, <1>5, FS_Injection
<1> HIDE DEF s, n
<1>7. s \in Seq(S) /\ Len(s) = n
  BY <1>1, <1>3
<1> QED
  BY <1>3, <1>6, <1>7 DEF IsInjective, Surjection, s

-----------------------------------------------------------------------------
(* The map stays finite, and within the bound on paths.                    *)

LEMMA MissingFinite ==
  ASSUME NEW p \in Paths
  PROVE  IsFiniteSet(Missing(p)) /\ Missing(p) \subseteq Paths
<1>1. p \in Seq(Names) /\ Len(p) \in 0..Depth
  BY PathsAreSequences
<1> DEFINE Lengths == 0..(Len(p) - 1)
           f == [n \in Lengths |-> SubSeq(p, 1, n)]
<1>2. IsFiniteSet(Lengths)
  BY <1>1, FS_Interval
<1>3. f \in Surjection(Lengths, Ancestors(p))
  BY DEF Surjection, Ancestors
<1>4. IsFiniteSet(Ancestors(p))
  BY <1>2, <1>3, FS_Surjection
<1>5. Missing(p) \in SUBSET Ancestors(p)
  BY DEF Missing
<1>6. Ancestors(p) \subseteq Paths
  BY <1>1, AncestorsAre, SequencesArePaths, MemoryFSAssumption
<1> QED
  BY <1>4, <1>5, <1>6, FS_Subset

LEMMA BoundedInit == Init => Bounded
<1> SUFFICES ASSUME Init PROVE Bounded
  OBVIOUS
<1>1. DOMAIN entries = {Root}
  BY DEF Init
<1>2. Root \in Paths
  BY InitHolds DEF Inv, TypeOK, IsTree, IsDir, Exists
<1> QED
  BY <1>1, <1>2, FS_Singleton DEF Bounded

LEMMA CreateBounded ==
  ASSUME Bounded, NEW p \in Paths, NEW k, NEW dirs \in SUBSET Paths, IsFiniteSet(dirs),
         Create(p, k, dirs)
  PROVE  Bounded'
<1>1. DOMAIN entries' = (DOMAIN entries \cup dirs) \cup {p}
  BY DEF Create
<1>2. IsFiniteSet((DOMAIN entries \cup dirs) \cup {p})
  BY FS_Union, FS_AddElement DEF Bounded
<1> QED
  BY <1>1, <1>2 DEF Bounded

LEMMA RelocateBounded ==
  ASSUME Bounded, NEW old \in Paths, NEW new \in Paths, Exists(old), Relocate(old, new)
  PROVE  Bounded'
<1> DEFINE targets == {Rebase(q, old, new) : q \in Moved(old)}
           f == [q \in Moved(old) |-> Rebase(q, old, new)]
<1>1. Moved(old) \subseteq DOMAIN entries
  BY DEF Moved, Exists
<1>2. IsFiniteSet(Moved(old)) /\ IsFiniteSet(DOMAIN entries \ Moved(old))
  BY <1>1, FS_Subset, FS_Difference DEF Bounded
<1>3. f \in Surjection(Moved(old), targets)
  BY DEF Surjection
<1>4. IsFiniteSet(targets)
  BY <1>2, <1>3, FS_Surjection
<1>5. DOMAIN entries' = (DOMAIN entries \ Moved(old)) \cup targets /\ targets \subseteq Paths
  BY DEF Relocate
<1>6. IsFiniteSet((DOMAIN entries \ Moved(old)) \cup targets)
  BY <1>2, <1>4, FS_Union
<1> QED
  BY <1>5, <1>6 DEF Bounded

LEMMA BoundedStep == Bounded /\ [Change]_entries => Bounded'
<1> SUFFICES ASSUME Bounded, [Change]_entries PROVE Bounded'
  OBVIOUS
<1>1. CASE UNCHANGED entries
  BY <1>1 DEF Bounded
<1>2. ASSUME NEW p \in Paths, NEW k, Create(p, k, {}) \/ Create(p, k, Missing(p)) PROVE Bounded'
  BY <1>2, CreateBounded, MissingFinite, FS_EmptySet
<1>3. ASSUME NEW p \in Paths, Delete({p}) PROVE Bounded'
  <2>1. DOMAIN entries' = DOMAIN entries \ {p}
    BY <1>3 DEF Delete
  <2> QED
    BY <2>1, FS_RemoveElement DEF Bounded
<1>4. ASSUME NEW p \in Paths, NEW q \in Paths, Rename(p, q) PROVE Bounded'
  BY <1>4, RelocateBounded DEF Rename
<1> QED
  BY <1>1, <1>2, <1>3, <1>4 DEF Change, Write, Mkdir, MkdirParents, Unlink, Rmdir, Add

-----------------------------------------------------------------------------
\* No two paths share an entry object, and every entry is a kind vfs.go knows:
\* WriteText through one path can never change another.
THEOREM TypeCorrect == ASSUME Careless = {} PROVE TreeSpec => []TypeOK
BY Invariance, PTL DEF Inv

\* The flat map of NewMemoryFS stays a tree: no sequence of writes, mkdirs,
\* unlinks, rmdirs and renames leaves an entry below a missing directory or
\* below a file, however deep the paths are.
THEOREM TreeStays == ASSUME Careless = {} PROVE TreeSpec => []IsTree
BY Invariance, PTL DEF Inv

-----------------------------------------------------------------------------
(* Numbers.                                                                *)

LEMMA Least ==
  ASSUME NEW N \in Nat, NEW T \in SUBSET (0..N), T # {}
  PROVE  \E m \in T : \A n \in T : m <= n
<1>. SUFFICES ASSUME \A m \in T : \E n \in T : n < m
              PROVE  FALSE
  OBVIOUS
<1> DEFINE D  == {n \in 0..N : \A t \in T : n <= t}
           up == [n \in D |-> n + 1]
<1>1. 0 \in D
  OBVIOUS
<1>2. ASSUME NEW n \in D
      PROVE  n + 1 \in D \ {0}
  <2>1. \A t \in T : n < t
    <3>. SUFFICES ASSUME NEW t \in T PROVE n < t
      OBVIOUS
    <3>1. PICK u \in T : u < t
      OBVIOUS
    <3>. QED
      BY <3>1
  <2>2. PICK t \in T : TRUE
    OBVIOUS
  <2>3. n + 1 \in 0..N
    BY <2>1, <2>2
  <2>. QED
    BY <2>1, <2>3
<1>3. up \in Injection(D, D \ {0})
  BY <1>2 DEF Injection, IsInjective
<1>4. IsFiniteSet(D)
  <2>1. D \in SUBSET (0..N) /\ IsFiniteSet(0..N)
    BY FS_Interval
  <2>. HIDE DEF D
  <2>. QED
    BY <2>1, FS_Subset
<1>. HIDE DEF D, up
<1>5. Cardinality(D) \in Nat /\ Cardinality(D \ {0}) = Cardinality(D) - 1 /\ IsFiniteSet(D \ {0})
  BY <1>1, <1>4, FS_CardinalityType, FS_RemoveElement
<1>6. Cardinality(D) <= Cardinality(D \ {0})
  BY <1>3, <1>5, FS_Injection
<1>. QED
  BY <1>5, <1>6

\* w is a way of N steps up t.
WayUp(t, N, w) == /\ N \in Nat /\ w = [k \in 0..N |-> w[k]]
                  /\ \A k \in 1..N : w[k] = t[w[k - 1]].up

\* Every way of that many steps leads to the ancestor.
LEMMA UpIs ==
  ASSUME NEW t, NEW n, NEW N, NEW w, Cardinality(DOMAIN t) = N, WayUp(t, N, w), w[0] = n
  PROVE  Abstract!Ancestor(t, n) = w[N]
<1>. N \in Nat
  BY Zenon DEF WayUp
<1>a. \A k \in 1..N : w[k] = t[w[k - 1]].up
  BY Zenon DEF WayUp
<1>b. w = [k \in 0..N |-> w[k]]
  BY Zenon DEF WayUp
<1> DEFINE up == CHOOSE g : g = [k \in 0..N |-> IF k = 0 THEN n ELSE t[g[k - 1]].up]
<1>1. up = [k \in 0..N |-> IF k = 0 THEN n ELSE t[up[k - 1]].up]
  <2>1. w = [k \in 0..N |-> IF k = 0 THEN n ELSE t[w[k - 1]].up]
    <3>1. \A k \in 0..N : w[k] = IF k = 0 THEN n ELSE t[w[k - 1]].up
      BY <1>a
    <3>. QED
      BY <1>b, <3>1, Zenon
  <2>. QED
    BY <2>1
<1>0. Abstract!Cardinality(DOMAIN t) = Cardinality(DOMAIN t)
  BY Zenon DEF Cardinality, Abstract!Cardinality
<1>2. Abstract!Ancestor(t, n) = up[N]
  BY <1>0, Zenon DEF Abstract!Ancestor
<1>. HIDE DEF up
<1>3. up[0] = w[0]
  BY <1>1
<1>4. \A k \in 1..N : up[k - 1] = w[k - 1] => up[k] = w[k]
  BY <1>1, <1>a
<1> DEFINE T == {k \in 0..N : up[k] # w[k]}
<1>5. T = {}
  <2>. SUFFICES ASSUME T # {} PROVE FALSE
    OBVIOUS
  <2>1. PICK m \in T : \A k \in T : m <= k
    <3>. HIDE DEF T
    <3>1. T \in SUBSET (0..N)
      BY DEF T
    <3>. QED
      BY <3>1, Least
  <2>2. m \in 1..N
    BY <1>3
  <2>3. m - 1 \notin T /\ m - 1 \in 0..N
    BY <2>1, <2>2
  <2>. QED
    BY <1>4, <2>2, <2>3
<1>6. up[N] = w[N]
  <2>1. \A k \in 0..N : up[k] = w[k]
    BY <1>5
  <2>. QED
    BY <2>1
<1>. QED
  BY <1>2, <1>6, Zenon

-----------------------------------------------------------------------------
(* The tree that a map e stands for.                                       *)

NodesOf(e) == {e[p].node : p \in DOMAIN e}
NameOf(p)  == IF p = Root THEN "/" ELSE p[Len(p)]

TreeOf(e) == [n \in NodesOf(e) |->
                LET p == CHOOSE p \in DOMAIN e : e[p].node = n
                IN  [kind |-> e[p].kind, up |-> e[Parent(p)].node, name |-> NameOf(p)]]

LEMMA TreeIsTreeOf == tree = TreeOf(entries)
BY DEF tree, TreeOf, NodesOf, NameOf, Used, PathOf

\* What the map is while callers are careful.
Good(e) ==
  /\ DOMAIN e \subseteq Paths /\ IsFiniteSet(DOMAIN e)
  /\ \A p \in DOMAIN e : e[p] \in [node : Nodes, kind : Kinds]
  /\ \A p, q \in DOMAIN e : e[p].node = e[q].node => p = q
  /\ Root \in DOMAIN e /\ e[Root].kind = "dir"
  /\ \A p \in DOMAIN e : \A q \in Ancestors(p) : q \in DOMAIN e /\ e[q].kind = "dir"

LEMMA RootIs == Root \in Seq(Names) /\ Len(Root) = 0 /\ Parent(Root) = Root
<1>1. Root \in Seq(Names) /\ Len(Root) = 0
  BY DEF Root
<1>2. SubSeq(Root, 1, Len(Root) - 1) \in Seq(Names) /\ Len(SubSeq(Root, 1, Len(Root) - 1)) = 0
  BY <1>1
<1>. QED
  BY <1>1, <1>2, SameSequence DEF Parent

LEMMA ParentIs ==
  ASSUME NEW p \in Seq(Names), p # Root
  PROVE  /\ Parent(p) \in Seq(Names) /\ Len(p) \in Nat \ {0} /\ Len(Parent(p)) = Len(p) - 1
         /\ Parent(p) # p
         /\ \A i \in 1..(Len(p) - 1) : Parent(p)[i] = p[i]
<1>1. Len(p) \in Nat \ {0}
  BY DEF Root
<1>2. Len(p) - 1 \in 0..Len(p)
  BY <1>1
<1> DEFINE n == Len(p) - 1
<1>3. /\ SubSeq(p, 1, n) \in Seq(Names) /\ Len(SubSeq(p, 1, n)) = n
      /\ \A i \in 1..n : SubSeq(p, 1, n)[i] = p[i]
  <2>. HIDE DEF n
  <2>. QED
    BY <1>2, Prefix DEF n
<1>4. Parent(p) = SubSeq(p, 1, n)
  BY DEF Parent
<1>. QED
  BY <1>1, <1>3, <1>4

\* A path is what its parent and its name are.
LEMMA PlaceIsPath ==
  ASSUME NEW p \in Seq(Names), NEW q \in Seq(Names), p # Root, q # Root,
         Parent(p) = Parent(q), NameOf(p) = NameOf(q)
  PROVE  p = q
<1>1. /\ Len(p) \in Nat \ {0} /\ Len(q) \in Nat \ {0} /\ Len(p) - 1 = Len(q) - 1
      /\ \A i \in 1..(Len(p) - 1) : Parent(p)[i] = p[i]
      /\ \A i \in 1..(Len(q) - 1) : Parent(q)[i] = q[i]
  BY ParentIs
<1>2. p[Len(p)] = q[Len(q)]
  BY DEF NameOf
<1>3. Len(p) = Len(q)
  BY <1>1
<1>4. ASSUME NEW i \in 1..Len(p) PROVE p[i] = q[i]
  <2>1. CASE i = Len(p)
    BY <1>2, <1>3, <2>1
  <2>2. CASE i \in 1..(Len(p) - 1)
    BY <1>1, <1>3, <2>2
  <2>. QED
    BY <1>1, <2>1, <2>2
<1>. QED
  BY <1>3, <1>4, SameSequence

LEMMA ParentExists ==
  ASSUME NEW e, Good(e), NEW p \in DOMAIN e
  PROVE  /\ p \in Seq(Names) /\ p \in Paths
         /\ Parent(p) \in DOMAIN e /\ e[Parent(p)].kind = "dir"
         /\ Parent(p) = p => p = Root
<1>1. p \in Seq(Names) /\ p \in Paths
  BY PathsAreSequences DEF Good
<1>2. CASE p = Root
  BY <1>1, <1>2, RootIs DEF Good
<1>3. CASE p # Root
  BY <1>1, <1>3, BelowRoot, ParentIs DEF Good
<1>. QED
  BY <1>2, <1>3

\* The node of a path.
LEMMA TreeAt ==
  ASSUME NEW e, Good(e), NEW p \in DOMAIN e
  PROVE  /\ e[p].node \in DOMAIN TreeOf(e)
         /\ TreeOf(e)[e[p].node] =
              [kind |-> e[p].kind, up |-> e[Parent(p)].node, name |-> NameOf(p)]
<1> DEFINE n == e[p].node
           P == CHOOSE q \in DOMAIN e : e[q].node = n
<1>1. n \in NodesOf(e)
  BY DEF NodesOf
<1>2. P = p
  BY DEF Good
<1>3. TreeOf(e)[n] = [kind |-> e[P].kind, up |-> e[Parent(P)].node, name |-> NameOf(P)]
  BY <1>1, Zenon DEF TreeOf
<1>4. DOMAIN TreeOf(e) = NodesOf(e)
  BY DEF TreeOf
<1>. HIDE DEF n, P
<1>. QED
  BY <1>1, <1>2, <1>3, <1>4 DEF n

\* Every node is that of a path.
LEMMA NodeHasPath ==
  ASSUME NEW e, Good(e), NEW n \in DOMAIN TreeOf(e)
  PROVE  \E p \in DOMAIN e : e[p].node = n
BY DEF TreeOf, NodesOf

LEMMA TreeFields ==
  ASSUME NEW e, Good(e), NEW p \in DOMAIN e
  PROVE  /\ e[p].node \in DOMAIN TreeOf(e) /\ TreeOf(e)[e[p].node].kind = e[p].kind
         /\ TreeOf(e)[e[p].node].up = e[Parent(p)].node
         /\ TreeOf(e)[e[p].node].name = NameOf(p)
<1>1. /\ e[p].node \in DOMAIN TreeOf(e)
      /\ TreeOf(e)[e[p].node] =
           [kind |-> e[p].kind, up |-> e[Parent(p)].node, name |-> NameOf(p)]
  BY TreeAt
<1>. QED
  BY <1>1

LEMMA TreeFinite ==
  ASSUME NEW e, Good(e)
  PROVE  IsFiniteSet(DOMAIN TreeOf(e)) /\ Cardinality(DOMAIN TreeOf(e)) \in Nat
<1> DEFINE f == [p \in DOMAIN e |-> e[p].node]
<1>1. f \in Surjection(DOMAIN e, NodesOf(e))
  BY DEF Surjection, NodesOf
<1>2. IsFiniteSet(DOMAIN e)
  BY DEF Good
<1>3. IsFiniteSet(NodesOf(e))
  <2>. HIDE DEF f
  <2>. QED
    BY <1>1, <1>2, FS_Surjection
<1>4. DOMAIN TreeOf(e) = NodesOf(e)
  BY DEF TreeOf
<1>. QED
  BY <1>3, <1>4, FS_CardinalityType

\* A tree has more nodes than any of its paths has names.
LEMMA DeepEnough ==
  ASSUME NEW e, Good(e), NEW p \in DOMAIN e
  PROVE  Len(p) < Cardinality(DOMAIN TreeOf(e))
<1>1. p \in Seq(Names) /\ Len(p) \in Nat
  BY ParentExists
<1>2. ASSUME NEW j \in 0..Len(p)
      PROVE  SubSeq(p, 1, j) \in DOMAIN e /\ Len(SubSeq(p, 1, j)) = j
  <2>1. SubSeq(p, 1, j) \in Seq(Names) /\ Len(SubSeq(p, 1, j)) = j
        /\ \A i \in 1..j : SubSeq(p, 1, j)[i] = p[i]
    BY <1>1, Prefix
  <2>2. CASE j = Len(p)
    BY <1>1, <2>1, <2>2, SameSequence
  <2>3. CASE j # Len(p)
    <3>1. j \in 0..(Len(p) - 1)
      BY <1>1, <2>3
    <3>2. SubSeq(p, 1, j) \in Ancestors(p)
      BY <3>1 DEF Ancestors
    <3>. QED
      BY <2>1, <3>2 DEF Good
  <2>. QED
    BY <2>1, <2>2, <2>3
<1> DEFINE f == [j \in 0..Len(p) |-> e[SubSeq(p, 1, j)].node]
<1>3. f \in [0..Len(p) -> DOMAIN TreeOf(e)]
  BY <1>2, TreeFields
<1>4. ASSUME NEW i \in 0..Len(p), NEW j \in 0..Len(p), f[i] = f[j]
      PROVE  i = j
  <2>1. e[SubSeq(p, 1, i)].node = e[SubSeq(p, 1, j)].node
    BY <1>4
  <2>2. SubSeq(p, 1, i) = SubSeq(p, 1, j)
    BY <1>2, <2>1 DEF Good
  <2>3. Len(SubSeq(p, 1, i)) = i /\ Len(SubSeq(p, 1, j)) = j
    BY <1>2
  <2>. QED
    BY <2>2, <2>3
<1>. HIDE DEF f
<1>5. f \in Injection(0..Len(p), DOMAIN TreeOf(e))
  BY <1>3, <1>4 DEF Injection, IsInjective
<1>6. Cardinality(0..Len(p)) <= Cardinality(DOMAIN TreeOf(e))
  BY <1>5, TreeFinite, FS_Injection
<1>7. Cardinality(0..Len(p)) = Len(p) + 1
  BY <1>1, FS_Interval
<1>. QED
  BY <1>1, <1>6, <1>7, TreeFinite

\* From every node the way up goes along the prefixes of its path to "/".
LEMMA LeadsToRoot ==
  ASSUME NEW e, Good(e), NEW p \in DOMAIN e
  PROVE  Abstract!Ancestor(TreeOf(e), e[p].node) = e[Root].node
<1> DEFINE t    == TreeOf(e)
           N    == Cardinality(DOMAIN t)
           n    == e[p].node
           L(k) == IF k <= Len(p) THEN Len(p) - k ELSE 0
           w    == [k \in 0..N |-> e[SubSeq(p, 1, L(k))].node]
<1>1. N \in Nat /\ Len(p) < N /\ p \in Seq(Names) /\ Len(p) \in Nat
  BY TreeFinite, DeepEnough, ParentExists
<1>. HIDE DEF N
<1>2. ASSUME NEW j \in 0..Len(p)
      PROVE  SubSeq(p, 1, j) \in DOMAIN e /\ SubSeq(p, 1, j) \in Seq(Names)
             /\ Len(SubSeq(p, 1, j)) = j
  <2>1. SubSeq(p, 1, j) \in Seq(Names) /\ Len(SubSeq(p, 1, j)) = j
        /\ \A i \in 1..j : SubSeq(p, 1, j)[i] = p[i]
    BY <1>1, Prefix
  <2>2. CASE j = Len(p)
    BY <1>1, <2>1, <2>2, SameSequence
  <2>3. CASE j # Len(p)
    <3>1. j \in 0..(Len(p) - 1)
      BY <1>1, <2>3
    <3>2. SubSeq(p, 1, j) \in Ancestors(p)
      BY <3>1 DEF Ancestors
    <3>. QED
      BY <2>1, <3>2 DEF Good
  <2>. QED
    BY <2>1, <2>2, <2>3
<1>3. SubSeq(p, 1, 0) = Root /\ SubSeq(p, 1, Len(p)) = p
  <2>1. 0 \in 0..Len(p) /\ Len(p) \in 0..Len(p)
    BY <1>1
  <2>2. SubSeq(p, 1, 0) = Root
    BY <1>2, <2>1, RootIs, SameSequence
  <2>3. /\ SubSeq(p, 1, Len(p)) \in Seq(Names) /\ Len(SubSeq(p, 1, Len(p))) = Len(p)
        /\ \A i \in 1..Len(p) : SubSeq(p, 1, Len(p))[i] = p[i]
    BY <1>1, <2>1, Prefix
  <2>. QED
    BY <1>1, <2>2, <2>3, SameSequence
<1>4. ASSUME NEW j \in 0..Len(p)
      PROVE  Parent(SubSeq(p, 1, j)) = SubSeq(p, 1, IF j = 0 THEN 0 ELSE j - 1)
  <2>1. CASE j = 0
    BY <1>3, <2>1, RootIs
  <2>2. CASE j # 0
    <3>1. j - 1 \in 0..j
      BY <2>2
    <3>2. Parent(SubSeq(p, 1, j)) = SubSeq(SubSeq(p, 1, j), 1, j - 1)
      BY <1>2 DEF Parent
    <3>. QED
      BY <1>1, <2>2, <3>1, <3>2, PrefixOfPrefix
  <2>. QED
    BY <2>1, <2>2
<1>5. w[0] = n
  <2>1. L(0) = Len(p) /\ 0 \in 0..N
    BY <1>1
  <2>. HIDE DEF L
  <2>2. w[0] = e[SubSeq(p, 1, Len(p))].node
    BY <2>1
  <2>. QED
    BY <1>3, <2>2
<1>6. ASSUME NEW k \in 1..N
      PROVE  w[k] = t[w[k - 1]].up
  <2>1. k - 1 \in 0..N /\ k \in 0..N /\ L(k - 1) \in 0..Len(p)
    BY <1>1
  <2>2. L(k) = IF L(k - 1) = 0 THEN 0 ELSE L(k - 1) - 1
    BY <1>1
  <2> DEFINE q == SubSeq(p, 1, L(k - 1))
  <2>. HIDE DEF L
  <2>3. q \in DOMAIN e /\ Parent(q) = SubSeq(p, 1, L(k))
    BY <1>2, <1>4, <2>1, <2>2
  <2>4. w[k - 1] = e[q].node /\ w[k] = e[Parent(q)].node
    BY <2>1, <2>3
  <2>5. t[e[q].node].up = e[Parent(q)].node
    BY <2>3, TreeFields
  <2>. QED
    BY <2>4, <2>5
<1>7. w[N] = e[Root].node
  <2>1. L(N) = 0 /\ N \in 0..N
    BY <1>1
  <2>. QED
    BY <1>3, <2>1
<1>8. Abstract!Ancestor(t, n) = w[N]
  <2>1. Cardinality(DOMAIN t) = N
    BY DEF N
  <2>2. w = [k \in 0..N |-> w[k]]
    OBVIOUS
  <2>. HIDE DEF w, t, n, L
  <2>3. WayUp(t, N, w)
    BY <1>1, <1>6, <2>2, Zenon DEF WayUp
  <2>. QED
    BY <1>5, <2>1, <2>3, UpIs, Zenon
<1>. QED
  BY <1>7, <1>8

LEMMA IsProper ==
  ASSUME NEW e, Good(e)
  PROVE  Abstract!Proper(TreeOf(e))
<1> DEFINE t == TreeOf(e)
           r == e[Root].node
<1>1. Root \in DOMAIN e /\ r \in DOMAIN t
  BY TreeFields DEF Good
<1>. HIDE DEF t, r
<1>2. ASSUME NEW n \in DOMAIN t
      PROVE  /\ t[n].up \in DOMAIN t /\ t[t[n].up].kind = "dir"
             /\ t[n].up = n => n = r
             /\ Abstract!Ancestor(t, n) = r
  <2>1. PICK p \in DOMAIN e : e[p].node = n
    BY NodeHasPath DEF t
  <2>2. t[n].up = e[Parent(p)].node
    BY <2>1, TreeFields DEF t
  <2>3. Parent(p) \in DOMAIN e /\ e[Parent(p)].kind = "dir"
    BY ParentExists
  <2>4. e[Parent(p)].node \in DOMAIN t /\ t[e[Parent(p)].node].kind = "dir"
    BY <2>3, TreeFields DEF t
  <2>5. ASSUME t[n].up = n PROVE n = r
    <3>1. Parent(p) = p
      BY <2>1, <2>2, <2>3, <2>5 DEF Good
    <3>. QED
      BY <2>1, <3>1, ParentExists DEF r
  <2>6. Abstract!Ancestor(t, n) = r
    BY <2>1, LeadsToRoot DEF t, r
  <2>. QED
    BY <2>2, <2>4, <2>5, <2>6
<1>3. ASSUME NEW m \in DOMAIN t \ {r}, NEW n \in DOMAIN t \ {r},
             t[m].up = t[n].up, t[m].name = t[n].name
      PROVE  m = n
  <2>1. PICK p \in DOMAIN e : e[p].node = m
    BY NodeHasPath DEF t
  <2>2. PICK q \in DOMAIN e : e[q].node = n
    BY NodeHasPath DEF t
  <2>3. p # Root /\ q # Root /\ p \in Seq(Names) /\ q \in Seq(Names)
    BY <2>1, <2>2, ParentExists DEF r
  <2>4. e[Parent(p)].node = e[Parent(q)].node /\ NameOf(p) = NameOf(q)
    BY <1>3, <2>1, <2>2, TreeFields DEF t
  <2>5. Parent(p) = Parent(q)
    BY <2>4, ParentExists DEF Good
  <2>. QED
    BY <2>1, <2>2, <2>3, <2>4, <2>5, PlaceIsPath
<1>4. Abstract!Proper(t)
  BY <1>1, <1>2, <1>3 DEF Abstract!Proper, Abstract!IsRoot
<1>. QED
  BY <1>4 DEF t

-----------------------------------------------------------------------------
(* The steps of FileTree, between the trees of two maps.                   *)

GrowsTo(t, u) == DOMAIN t \subseteq DOMAIN u /\ \A n \in DOMAIN t : u[n] = t[n]

ReplacedBy(t, u, n, m) == /\ t[n].kind # "dir"
                          /\ DOMAIN u = (DOMAIN t \ {n}) \cup {m}
                          /\ \A k \in DOMAIN t \ {n} : u[k] = t[k]
                          /\ u[m].kind # "dir" /\ u[m].up = t[n].up /\ u[m].name = t[n].name

RemovedFrom(t, u, n) == /\ \A m \in DOMAIN t : t[m].up # n
                        /\ u = [m \in DOMAIN t \ {n} |-> t[m]]

MovedIn(t, u, n) == /\ DOMAIN u = DOMAIN t
                    /\ \A m \in DOMAIN t \ {n} : u[m] = t[m]
                    /\ u[n].kind = t[n].kind

\* A node is as before if its path is, with an entry that is as before, below
\* a node that is as before.
LEMMA SameNode ==
  ASSUME NEW e, Good(e), NEW f, Good(f), NEW p \in DOMAIN e, NEW q \in DOMAIN f,
         f[q] = e[p], f[Parent(q)] = e[Parent(p)], NameOf(p) = NameOf(q)
  PROVE  /\ e[p].node \in DOMAIN TreeOf(f)
         /\ TreeOf(f)[e[p].node] = TreeOf(e)[e[p].node]
<1>1. TreeOf(e)[e[p].node] = [kind |-> e[p].kind, up |-> e[Parent(p)].node, name |-> NameOf(p)]
  BY TreeAt
<1>2. /\ f[q].node \in DOMAIN TreeOf(f)
      /\ TreeOf(f)[f[q].node] = [kind |-> f[q].kind, up |-> f[Parent(q)].node, name |-> NameOf(q)]
  BY TreeAt, Zenon
<1>. QED
  BY <1>1, <1>2

LEMMA NewPathsGrow ==
  ASSUME NEW e, Good(e), NEW f, Good(f),
         \A p \in DOMAIN e : p \in DOMAIN f /\ f[p] = e[p]
  PROVE  GrowsTo(TreeOf(e), TreeOf(f))
<1>1. ASSUME NEW n \in DOMAIN TreeOf(e)
      PROVE  n \in DOMAIN TreeOf(f) /\ TreeOf(f)[n] = TreeOf(e)[n]
  <2>1. PICK p \in DOMAIN e : e[p].node = n
    BY NodeHasPath
  <2>2. Parent(p) \in DOMAIN e
    BY ParentExists
  <2>. QED
    BY <2>1, <2>2, SameNode
<1>. QED
  BY <1>1 DEF GrowsTo

\* Nothing is below what is no directory.
LEMMA FileHasNoChild ==
  ASSUME NEW e, Good(e), NEW p \in DOMAIN e, e[p].kind # "dir", NEW q \in DOMAIN e
  PROVE  p # Root /\ Parent(q) # p
BY ParentExists DEF Good

LEMMA NewEntryReplaces ==
  ASSUME NEW e, Good(e), NEW f, Good(f), NEW p \in DOMAIN e, DOMAIN f = DOMAIN e,
         \A q \in DOMAIN e \ {p} : f[q] = e[q],
         e[p].kind # "dir", f[p].kind # "dir", f[p].node \notin NodesOf(e)
  PROVE  /\ ReplacedBy(TreeOf(e), TreeOf(f), e[p].node, f[p].node)
         /\ f[p].node \in Nodes \ DOMAIN TreeOf(e) /\ e[p].node \in DOMAIN TreeOf(e)
<1> DEFINE t == TreeOf(e)
           u == TreeOf(f)
           n == e[p].node
           m == f[p].node
<1>1. \A q \in DOMAIN e : Parent(q) \in DOMAIN e /\ Parent(q) # p
  BY FileHasNoChild, ParentExists
<1>2. DOMAIN t = NodesOf(e) /\ DOMAIN u = NodesOf(f)
  BY DEF TreeOf
<1>3. /\ n \in DOMAIN t /\ t[n].kind # "dir" /\ t[n].up = e[Parent(p)].node
      /\ t[n].name = NameOf(p)
  BY TreeFields
<1>4. /\ m \in DOMAIN u /\ u[m].kind # "dir" /\ u[m].up = e[Parent(p)].node
      /\ u[m].name = NameOf(p)
  BY <1>1, TreeFields
<1>5. m \in Nodes
  BY DEF Good
<1>. HIDE DEF t, u
<1>6. ASSUME NEW k \in DOMAIN t \ {n}
      PROVE  k \in DOMAIN u /\ u[k] = t[k]
  <2>1. PICK q \in DOMAIN e : e[q].node = k
    BY NodeHasPath DEF t
  <2>. QED
    BY <1>1, <2>1, SameNode DEF t, u
<1>7. ASSUME NEW k \in DOMAIN u
      PROVE  k \in (DOMAIN t \ {n}) \cup {m}
  <2>1. PICK q \in DOMAIN f : f[q].node = k
    BY NodeHasPath DEF u
  <2>2. CASE q = p
    BY <2>1, <2>2
  <2>3. CASE q # p
    <3>1. e[q].node = k /\ k # n
      BY <2>1, <2>3 DEF Good
    <3>. QED
      BY <1>2, <3>1 DEF NodesOf
  <2>. QED
    BY <2>2, <2>3
<1>8. DOMAIN u = (DOMAIN t \ {n}) \cup {m}
  BY <1>4, <1>6, <1>7
<1>9. ReplacedBy(t, u, n, m)
  BY <1>3, <1>4, <1>6, <1>8 DEF ReplacedBy
<1>. QED
  BY <1>2, <1>3, <1>5, <1>9 DEF t, u

LEMMA LeafIsRemoved ==
  ASSUME NEW e, Good(e), NEW p \in DOMAIN e, p # Root,
         \A q \in DOMAIN e \ {p} : Parent(q) # p,
         NEW f, Good(f), DOMAIN f = DOMAIN e \ {p}, \A q \in DOMAIN f : f[q] = e[q]
  PROVE  RemovedFrom(TreeOf(e), TreeOf(f), e[p].node) /\ e[p].node \in DOMAIN TreeOf(e)
<1> DEFINE t == TreeOf(e)
           u == TreeOf(f)
           n == e[p].node
<1>1. \A q \in DOMAIN e : Parent(q) \in DOMAIN e /\ Parent(q) # p
  BY ParentExists
<1>2. DOMAIN t = NodesOf(e) /\ DOMAIN u = NodesOf(f)
  BY DEF TreeOf
<1>3. u = [m \in DOMAIN u |-> u[m]]
  BY DEF TreeOf
<1>4. n \in DOMAIN t
  BY TreeFields
<1>. HIDE DEF t, u
<1>5. ASSUME NEW m \in DOMAIN t
      PROVE  t[m].up # n
  <2>1. PICK q \in DOMAIN e : e[q].node = m
    BY NodeHasPath DEF t
  <2>2. t[m].up = e[Parent(q)].node
    BY <2>1, TreeFields DEF t
  <2>. QED
    BY <1>1, <2>2 DEF Good
<1>6. ASSUME NEW m \in DOMAIN t \ {n}
      PROVE  m \in DOMAIN u /\ u[m] = t[m]
  <2>1. PICK q \in DOMAIN e : e[q].node = m
    BY NodeHasPath DEF t
  <2>. QED
    BY <1>1, <2>1, SameNode DEF t, u
<1>7. ASSUME NEW m \in DOMAIN u
      PROVE  m \in DOMAIN t \ {n}
  <2>1. PICK q \in DOMAIN f : f[q].node = m
    BY NodeHasPath DEF u
  <2>2. q \in DOMAIN e /\ q # p /\ e[q].node = m
    BY <2>1
  <2>. QED
    BY <1>2, <2>2 DEF NodesOf, Good
<1>8. u = [m \in DOMAIN t \ {n} |-> t[m]]
  <2>1. DOMAIN u = DOMAIN t \ {n}
    BY <1>6, <1>7
  <2>. QED
    BY <1>3, <1>6, <2>1
<1>9. RemovedFrom(t, u, n)
  BY <1>5, <1>8 DEF RemovedFrom
<1>. QED
  BY <1>4, <1>9 DEF t, u

\* What moves keeps its name and its place below what moves with it.
LEMMA RebaseParent ==
  ASSUME NEW old \in Seq(Names), NEW new \in Seq(Names), NEW q \in Seq(Names),
         Within(q, old), q # old
  PROVE  /\ Parent(q) \in Seq(Names) /\ Within(Parent(q), old)
         /\ Parent(Rebase(q, old, new)) = Rebase(Parent(q), old, new)
         /\ NameOf(Rebase(q, old, new)) = NameOf(q)
<1> DEFINE t == Rebase(q, old, new)
           s == Parent(q)
           r == Rebase(s, old, new)
<1>1. /\ Len(old) \in Nat /\ Len(new) \in Nat /\ Len(q) \in Nat /\ Len(old) <= Len(q)
      /\ old \in Ancestors(q)
  BY WithinIs, WithinOrSame
<1>2. Len(old) < Len(q) /\ q # Root
  BY <1>1, AncestorsAre DEF Root
<1>3. /\ s \in Seq(Names) /\ Len(s) = Len(q) - 1 /\ \A i \in 1..(Len(q) - 1) : s[i] = q[i]
  BY <1>2, ParentIs
<1>4. Within(s, old)
  <2>1. old = s \/ old \in Ancestors(s)
    BY <1>1, ParentFirst
  <2>. QED
    BY <1>3, <2>1, WithinOrSame
<1>5. /\ t \in Seq(Names) /\ Len(t) = Len(new) + Len(q) - Len(old)
      /\ \A i \in 1..Len(new) : t[i] = new[i]
      /\ \A i \in 1..(Len(q) - Len(old)) : t[Len(new) + i] = q[Len(old) + i]
  BY RebaseIs
<1>6. /\ r \in Seq(Names) /\ Len(r) = Len(new) + Len(s) - Len(old)
      /\ \A i \in 1..Len(new) : r[i] = new[i]
      /\ \A i \in 1..(Len(s) - Len(old)) : r[Len(new) + i] = s[Len(old) + i]
  BY <1>3, <1>4, RebaseIs
<1>. HIDE DEF t, r, s
<1>7. t # Root
  BY <1>1, <1>2, <1>5 DEF Root
<1>8. /\ Parent(t) \in Seq(Names) /\ Len(Parent(t)) = Len(t) - 1
      /\ \A i \in 1..(Len(t) - 1) : Parent(t)[i] = t[i]
  BY <1>5, <1>7, ParentIs
<1>9. Len(Parent(t)) = Len(r) /\ Len(r) = Len(new) + (Len(q) - 1 - Len(old))
  BY <1>1, <1>3, <1>5, <1>6, <1>8
<1>10. ASSUME NEW i \in 1..Len(r)
       PROVE  Parent(t)[i] = r[i]
  <2>1. Parent(t)[i] = t[i]
    BY <1>5, <1>8, <1>9
  <2>2. CASE i \in 1..Len(new)
    BY <1>5, <1>6, <2>1, <2>2
  <2>3. CASE i \notin 1..Len(new)
    <3>1. PICK j \in 1..(Len(q) - 1 - Len(old)) : i = Len(new) + j
      <4>1. i - Len(new) \in 1..(Len(q) - 1 - Len(old)) /\ i = Len(new) + (i - Len(new))
        BY <1>1, <1>9, <2>3
      <4>. QED
        BY <4>1
    <3>2. /\ j \in 1..(Len(q) - Len(old)) /\ j \in 1..(Len(s) - Len(old))
          /\ Len(old) + j \in 1..(Len(q) - 1)
      BY <1>1, <1>3
    <3>3. t[Len(new) + j] = q[Len(old) + j]
      BY <1>5, <3>2
    <3>4. r[Len(new) + j] = s[Len(old) + j]
      BY <1>6, <3>2
    <3>5. s[Len(old) + j] = q[Len(old) + j]
      BY <1>3, <3>2
    <3>. QED
      BY <2>1, <3>1, <3>3, <3>4, <3>5
  <2>. QED
    BY <2>2, <2>3
<1>11. Parent(t) = r
  BY <1>6, <1>8, <1>9, <1>10, SameSequence
<1>12. t[Len(t)] = q[Len(q)]
  <2> DEFINE j == Len(q) - Len(old)
  <2>1. /\ j \in 1..(Len(q) - Len(old)) /\ Len(new) + j = Len(t) /\ Len(old) + j = Len(q)
    BY <1>1, <1>2, <1>5
  <2>. HIDE DEF j
  <2>2. t[Len(new) + j] = q[Len(old) + j]
    BY <1>5, <2>1
  <2>. QED
    BY <2>1, <2>2
<1>13. NameOf(t) = NameOf(q)
  BY <1>2, <1>7, <1>12 DEF NameOf
<1>. QED
  BY <1>3, <1>4, <1>11, <1>13 DEF t, r, s

LEMMA SubtreeMoves ==
  ASSUME NEW e, Good(e), NEW f, Good(f), NEW old \in DOMAIN e, old # Root,
         NEW new \in Seq(Names), NEW moved, moved = {q \in DOMAIN e : Within(q, old)},
         DOMAIN f = (DOMAIN e \ moved) \cup {Rebase(q, old, new) : q \in moved},
         \A q \in moved : f[Rebase(q, old, new)] = e[q],
         \A q \in DOMAIN e \ moved : q \in DOMAIN f /\ f[q] = e[q]
  PROVE  MovedIn(TreeOf(e), TreeOf(f), e[old].node) /\ e[old].node \in DOMAIN TreeOf(e)
<1> DEFINE t == TreeOf(e)
           u == TreeOf(f)
           n == e[old].node
<1>1. DOMAIN t = NodesOf(e) /\ DOMAIN u = NodesOf(f)
  BY DEF TreeOf
<1>2. \A q \in DOMAIN e : q \in Seq(Names) /\ Parent(q) \in DOMAIN e
  BY ParentExists
<1>3. old \in moved
  BY <1>2, WithinOrSame
<1>4. \A q \in moved : Rebase(q, old, new) \in DOMAIN f
  OBVIOUS
\* Above what stays is what stays.
<1>5. ASSUME NEW q \in DOMAIN e \ moved
      PROVE  Parent(q) \in DOMAIN e \ moved
  <2>1. CASE q = Root
    BY <2>1, RootIs
  <2>2. CASE q # Root
    <3>. SUFFICES ASSUME Within(Parent(q), old) PROVE FALSE
      BY <1>2
    <3>1. Parent(q) \in Seq(Names) /\ Parent(q) \in Ancestors(q)
      BY <1>2, <2>2, ParentExists, BelowRoot
    <3>2. old = Parent(q) \/ old \in Ancestors(Parent(q))
      BY <1>2, <3>1, WithinOrSame
    <3>3. old \in Ancestors(q)
      BY <1>2, <3>1, <3>2, AncestorOfAncestor
    <3>. QED
      BY <1>2, <3>3, WithinOrSame
  <2>. QED
    BY <2>1, <2>2
<1>6. ASSUME NEW q \in moved, q # old
      PROVE  /\ Parent(q) \in moved
             /\ Parent(Rebase(q, old, new)) = Rebase(Parent(q), old, new)
             /\ NameOf(Rebase(q, old, new)) = NameOf(q)
  <2>1. q \in Seq(Names) /\ old \in Seq(Names) /\ Within(q, old) /\ Parent(q) \in DOMAIN e
    BY <1>2
  <2>2. /\ Within(Parent(q), old)
        /\ Parent(Rebase(q, old, new)) = Rebase(Parent(q), old, new)
        /\ NameOf(Rebase(q, old, new)) = NameOf(q)
    BY <1>6, <2>1, RebaseParent, Zenon
  <2>. QED
    BY <2>1, <2>2
<1>7. ASSUME NEW q \in DOMAIN e, q # old
      PROVE  e[q].node \in DOMAIN u /\ u[e[q].node] = t[e[q].node]
  <2>1. CASE q \notin moved
    BY <1>5, <2>1, SameNode
  <2>2. CASE q \in moved
    <3>1. f[Parent(Rebase(q, old, new))] = e[Parent(q)]
      BY <1>6, <1>7, <2>2
    <3>. QED
      BY <1>4, <1>6, <1>7, <2>2, <3>1, SameNode
  <2>. QED
    BY <2>1, <2>2
<1>8. n \in DOMAIN t /\ t[n].kind = e[old].kind /\ n \in DOMAIN u /\ u[n].kind = e[old].kind
  <2>1. n \in DOMAIN t /\ t[n].kind = e[old].kind
    BY TreeFields
  <2>2. Rebase(old, old, new) \in DOMAIN f /\ f[Rebase(old, old, new)] = e[old]
    BY <1>3, <1>4
  <2>. QED
    BY <2>1, <2>2, TreeFields
<1>9. ASSUME NEW m \in DOMAIN u
      PROVE  m \in DOMAIN t
  <2>1. PICK q \in DOMAIN f : f[q].node = m
    BY NodeHasPath
  <2>2. \E p \in DOMAIN e : f[q] = e[p]
    OBVIOUS
  <2>. QED
    BY <1>1, <2>1, <2>2 DEF NodesOf
<1>. HIDE DEF t, u
<1>10. ASSUME NEW m \in DOMAIN t
       PROVE  m \in DOMAIN u /\ (m # n => u[m] = t[m])
  <2>1. PICK q \in DOMAIN e : e[q].node = m
    BY NodeHasPath DEF t
  <2>. QED
    BY <1>7, <1>8, <2>1
<1>11. MovedIn(t, u, n)
  <2>1. DOMAIN u = DOMAIN t
    BY <1>9, <1>10
  <2>. QED
    BY <1>8, <1>10, <2>1 DEF MovedIn
<1>. QED
  BY <1>8, <1>11 DEF t, u

-----------------------------------------------------------------------------
(* The steps of MemoryFS.                                                  *)

LEMMA MapIsGood ==
  ASSUME Inv, Bounded
  PROVE  Good(entries) /\ Root \in DOMAIN entries
BY DEF Inv, TypeOK, IsTree, Bounded, Good, IsDir, Exists

\* An entry object that is in use is made by none of the methods.
LEMMA Creates ==
  ASSUME Inv, NEW p \in Paths, NEW k, NEW dirs \in SUBSET Paths, Create(p, k, dirs)
  PROVE  /\ DOMAIN entries' = DOMAIN entries \cup dirs \cup {p}
         /\ \A q \in DOMAIN entries \ (dirs \cup {p}) : entries'[q] = entries[q]
         /\ entries'[p].kind = k /\ entries'[p].node \notin Used
<1>1. PICK f \in Injection(dirs \cup {p}, Nodes \ Used) :
        entries' = [q \in DOMAIN entries \cup dirs \cup {p} |->
                      IF q \in DOMAIN f
                      THEN [node |-> f[q], kind |-> IF q = p THEN k ELSE "dir"]
                      ELSE entries[q]]
  BY DEF Create
<1>2. DOMAIN f = dirs \cup {p} /\ f[p] \in Nodes \ Used
  BY DEF Injection
<1>3. entries'[p] = [node |-> f[p], kind |-> k]
  BY <1>1, <1>2
<1>. QED
  BY <1>1, <1>2, <1>3

\* One of the steps of FileTree, from the tree of entries to that of entries'.
Mapped == LET t == TreeOf(entries)
              u == TreeOf(entries')
          IN  \/ GrowsTo(t, u)
              \/ \E n \in DOMAIN t : \/ RemovedFrom(t, u, n) \/ MovedIn(t, u, n)
                                      \/ \E m \in Nodes \ DOMAIN t : ReplacedBy(t, u, n, m)

\* Writes and mkdirs grow the tree or replace a file or link.
LEMMA CreateMapped ==
  ASSUME Inv, Bounded, Good(entries'), NEW p \in Paths, NEW k, ~IsDir(p),
         NEW dirs \in SUBSET Paths, Create(p, k, dirs),
         dirs \cap DOMAIN entries = {},
         Exists(p) => dirs = {} /\ k # "dir"
  PROVE  Mapped
<1>1. Good(entries)
  BY MapIsGood
<1>2. /\ DOMAIN entries' = DOMAIN entries \cup dirs \cup {p}
      /\ \A q \in DOMAIN entries \ (dirs \cup {p}) : entries'[q] = entries[q]
      /\ entries'[p].kind = k /\ entries'[p].node \notin Used
  BY Creates
<1>3. CASE ~Exists(p)
  <2>1. \A q \in DOMAIN entries : q \in DOMAIN entries' /\ entries'[q] = entries[q]
    BY <1>2, <1>3 DEF Exists
  <2>2. GrowsTo(TreeOf(entries), TreeOf(entries'))
    BY <1>1, <2>1, NewPathsGrow
  <2>. QED
    BY <2>2 DEF Mapped
<1>4. CASE Exists(p)
  <2>1. p \in DOMAIN entries /\ DOMAIN entries' = DOMAIN entries /\ k # "dir"
    BY <1>2, <1>4 DEF Exists
  <2>2. /\ \A q \in DOMAIN entries \ {p} : entries'[q] = entries[q]
        /\ entries[p].kind # "dir" /\ entries'[p].kind # "dir"
        /\ entries'[p].node \notin NodesOf(entries)
    BY <1>2, <1>4, <2>1 DEF IsDir, Exists, Used, NodesOf
  <2>3. /\ ReplacedBy(TreeOf(entries), TreeOf(entries'), entries[p].node, entries'[p].node)
        /\ entries'[p].node \in Nodes \ DOMAIN TreeOf(entries)
        /\ entries[p].node \in DOMAIN TreeOf(entries)
    BY <1>1, <2>1, <2>2, NewEntryReplaces
  <2>. QED
    BY <2>3 DEF Mapped
<1>. QED
  BY <1>3, <1>4

\* Unlink and rmdir remove a node without children.
LEMMA DeleteMapped ==
  ASSUME Inv, Bounded, Good(entries'), NEW p \in DOMAIN entries, p # Root, Delete({p}),
         \A q \in DOMAIN entries \ {p} : Parent(q) # p
  PROVE  Mapped
<1>1. Good(entries)
  BY MapIsGood
<1>2. /\ DOMAIN entries' = DOMAIN entries \ {p}
      /\ \A q \in DOMAIN entries' : entries'[q] = entries[q]
  BY DEF Delete
<1>3. /\ RemovedFrom(TreeOf(entries), TreeOf(entries'), entries[p].node)
      /\ entries[p].node \in DOMAIN TreeOf(entries)
  BY <1>1, <1>2, LeafIsRemoved
<1>. QED
  BY <1>3 DEF Mapped

\* A rename changes the place of one node.
LEMMA RenameMapped ==
  ASSUME Careless = {}, Inv, Bounded, Good(entries'), NEW old \in Paths, NEW new \in Paths,
         Rename(old, new)
  PROVE  Mapped
<1> DEFINE moved == {q \in DOMAIN entries : Within(q, old)}
<1>1. Good(entries)
  BY MapIsGood
<1>2. /\ old \in DOMAIN entries /\ old # Root /\ ~Exists(new) /\ Relocate(old, new)
      /\ new \in Seq(Names)
  BY PathsAreSequences DEF Rename, Exists
<1>3. /\ DOMAIN entries' = (DOMAIN entries \ moved) \cup {Rebase(q, old, new) : q \in moved}
      /\ \A q \in moved : entries'[Rebase(q, old, new)] = entries[q]
      /\ \A q \in DOMAIN entries \ moved : q \in DOMAIN entries' /\ entries'[q] = entries[q]
  BY <1>2, RelocateCarries
<1>4. moved = {q \in DOMAIN entries : Within(q, old)}
  OBVIOUS
<1>. HIDE DEF moved
<1>5. /\ MovedIn(TreeOf(entries), TreeOf(entries'), entries[old].node)
      /\ entries[old].node \in DOMAIN TreeOf(entries)
  BY <1>1, <1>2, <1>3, <1>4, SubtreeMoves
<1>. QED
  BY <1>5 DEF Mapped

\* Nothing is missing above what exists.
LEMMA NothingMissingAbove ==
  ASSUME Inv, NEW p \in DOMAIN entries
  PROVE  Missing(p) = {}
<1>1. ASSUME NEW q \in Missing(p)
      PROVE  FALSE
  <2>1. q \in Ancestors(p) /\ Exists(q)
    BY DEF Missing, Inv, IsTree, IsDir
  <2>2. Len(q) < Len(q) /\ Len(q) \in Nat
    BY <2>1, PathsAreSequences DEF Missing, Inv, TypeOK, Exists
  <2>. QED
    BY <2>2
<1>. QED
  BY <1>1

LEMMA ChangeMapped ==
  ASSUME Careless = {}, Inv, Bounded, Good(entries'), Change
  PROVE  Mapped
<1>1. Good(entries) /\ Root \in DOMAIN entries /\ IsDir(Root)
  BY MapIsGood DEF Inv, IsTree
<1>2. ASSUME NEW p \in Paths, Write(p) PROVE Mapped
  BY <1>2, CreateMapped DEF Write
<1>3. ASSUME NEW p \in Paths, Mkdir(p) PROVE Mapped
  BY <1>3, CreateMapped DEF Mkdir, IsDir
<1>4. ASSUME NEW p \in Paths, MkdirParents(p) PROVE Mapped
  <2>1. /\ Missing(p) \in SUBSET Paths /\ Missing(p) \cap DOMAIN entries = {}
        /\ ~IsDir(p) /\ ~Exists(p) /\ Create(p, "dir", Missing(p))
    BY <1>4, MissingCompletes DEF MkdirParents, ParentsAllow, IsDir
  <2>. QED
    BY <2>1, CreateMapped
<1>5. ASSUME NEW p \in Paths, NEW k \in {"file", "link"}, Add(p, k) PROVE Mapped
  <2>1. /\ Missing(p) \in SUBSET Paths /\ Missing(p) \cap DOMAIN entries = {}
        /\ ~IsDir(p) /\ Create(p, k, Missing(p))
    BY <1>5, MissingCompletes DEF Add, ParentsAllow
  <2>2. Exists(p) => Missing(p) = {} /\ k # "dir"
    BY NothingMissingAbove DEF Exists
  <2>. QED
    BY <2>1, <2>2, CreateMapped
<1>6. ASSUME NEW p \in Paths, Unlink(p) PROVE Mapped
  <2>1. /\ p \in DOMAIN entries /\ entries[p].kind # "dir" /\ Delete({p})
    BY <1>6 DEF Unlink, IsDir, Exists
  <2>2. p # Root /\ \A q \in DOMAIN entries \ {p} : Parent(q) # p
    BY <1>1, <2>1, FileHasNoChild
  <2>. QED
    BY <2>1, <2>2, DeleteMapped
<1>7. ASSUME NEW p \in Paths, Rmdir(p) PROVE Mapped
  <2>1. /\ p \in DOMAIN entries /\ p # Root /\ Delete({p})
        /\ \A q \in DOMAIN entries \ {p} : Parent(q) # p
    BY <1>7 DEF Rmdir, IsDir, Exists, Children
  <2>. QED
    BY <2>1, DeleteMapped
<1>8. ASSUME NEW p \in Paths, NEW q \in Paths, Rename(p, q) PROVE Mapped
  BY <1>8, RenameMapped
<1>. QED
  BY <1>2, <1>3, <1>4, <1>5, <1>6, <1>7, <1>8 DEF Change

-----------------------------------------------------------------------------
(* The refinement.                                                         *)

LEMMA TreeOfPrimed == tree' = TreeOf(entries')
BY DEF tree, TreeOf, NodesOf, NameOf, Used, PathOf

LEMMA InitMapped == Init => Abstract!Init
<1>. SUFFICES ASSUME Init PROVE Abstract!Init
  OBVIOUS
<1>1. PICK n \in Nodes : entries = [p \in {Root} |-> [node |-> n, kind |-> "dir"]]
  BY DEF Init
<1>2. Good(entries) /\ Root \in DOMAIN entries
  BY InitHolds, BoundedInit, MapIsGood
<1>3. DOMAIN entries = {Root} /\ entries[Root].node = n /\ entries[Root].kind = "dir"
  BY <1>1
<1>4. TreeOf(entries)[n] = [kind |-> "dir", up |-> n, name |-> "/"]
  <2>1. TreeOf(entries)[entries[Root].node] =
          [kind |-> entries[Root].kind, up |-> entries[Parent(Root)].node, name |-> NameOf(Root)]
    BY <1>2, TreeAt
  <2>2. Parent(Root) = Root /\ NameOf(Root) = "/"
    BY RootIs DEF NameOf
  <2>. QED
    BY <1>3, <2>1, <2>2
<1>5. DOMAIN TreeOf(entries) = {n} /\ TreeOf(entries) = [m \in {n} |-> TreeOf(entries)[m]]
  BY <1>3 DEF TreeOf, NodesOf
<1>6. tree = [m \in {n} |-> [kind |-> "dir", up |-> n, name |-> "/"]]
  BY <1>4, <1>5, TreeIsTreeOf
<1>. QED
  BY <1>6 DEF Abstract!Init

LEMMA StepMapped ==
  ASSUME Careless = {}, Inv, Bounded, Inv', Bounded', [Change]_entries
  PROVE  [Abstract!Next]_tree
<1>1. CASE UNCHANGED entries
  <2>1. tree' = tree
    BY <1>1, TreeOfPrimed, TreeIsTreeOf
  <2>. QED
    BY <2>1
<1>2. CASE Change
  <2>1. Good(entries')
    BY DEF Inv, TypeOK, IsTree, Bounded, Good, IsDir, Exists
  <2>2. Abstract!Proper(tree')
    BY <2>1, IsProper, TreeOfPrimed
  <2>3. Mapped
    BY <1>2, <2>1, ChangeMapped
  <2>4. \/ GrowsTo(tree, tree')
        \/ \E n \in DOMAIN tree : \/ RemovedFrom(tree, tree', n) \/ MovedIn(tree, tree', n)
                                   \/ \E m \in Nodes \ DOMAIN tree : ReplacedBy(tree, tree', n, m)
    BY <2>3, TreeOfPrimed, TreeIsTreeOf DEF Mapped
  <2>5. Abstract!Next
    BY <2>2, <2>4 DEF Abstract!Next, Abstract!Grow, Abstract!Remove, Abstract!Move, Abstract!Replace,
                      GrowsTo, RemovedFrom, MovedIn, ReplacedBy
  <2>. QED
    BY <2>5
<1>. QED
  BY <1>1, <1>2

\* With careful callers every method of MemoryFS does to the tree of entries
\* what it would do to directories that hold their entries: in particular the
\* loop over string prefixes in Rename changes the place of one node.
THEOREM FileTreeImplemented == ASSUME Careless = {} PROVE TreeSpec => ImplementsFileTree
<1>1. Inv /\ [Change]_entries => Inv'
  BY StepKeeps
<1>2. Inv /\ Bounded /\ Inv' /\ Bounded' /\ [Change]_entries => [Abstract!Next]_tree
  BY StepMapped
<1>. QED
  BY <1>1, <1>2, InitHolds, InitMapped, BoundedInit, BoundedStep, PTL
     DEF TreeSpec, ImplementsFileTree, Abstract!Spec
=============================================================================
