---------------------------- MODULE PathScanProofs ----------------------------
(***************************************************************************)
(* Proofs about PathScan: however many goroutines change the file system   *)
(* while Path.scan walks it, and however careless they are, no path is     *)
(* reported twice; if none is careless, what stays is not missed.          *)
(***************************************************************************)
EXTENDS PathScan, MemoryFSProofs

Asking == stage \in {"dir", "file", "link", "list"}

\* The shape of a scan, the answers that are in and the head they are about.
Shape == /\ stage \in Stages /\ top \in Paths /\ limit \in Limits \cup {Unlimited}
         /\ follow \in BOOLEAN
         /\ queue \in Seq(Paths)
         /\ out \in Seq([path : Paths, dir : BOOLEAN, file : BOOLEAN, link : BOOLEAN])
         /\ visited \subseteq Paths /\ steady \subseteq Paths
         /\ answer \in Seq(BOOLEAN) /\ changes \in Nat
         /\ Asking => queue # <<>>
         /\ stage = "done" => queue = <<>>
         /\ stage = "file" => Len(answer) = 1
         /\ stage = "link" => Len(answer) = 2

\* Until somebody changes the map, what IsDir said of the head is so.
Undisturbed == /\ changes = 0 /\ stage \in {"file", "link"} /\ answer[1] => IsDir(Head(queue))
               /\ changes = 0 /\ stage = "list" => IsDir(Head(queue))
               /\ stage \in {"list", "raised"} => out # <<>>
               /\ stage = "raised" => changes > 0

Walking == stage \notin {"off", "raised"}

\* A path is reported or queued below the root of the scan, by the listing of
\* its parent; the head is listed after it was reported.
Once == Walking =>
  /\ \A i, j \in 1..Len(out) : out[i].path = out[j].path => i = j
  /\ \A i, j \in 1..Len(queue) : queue[i] = queue[j] => i = j
  /\ \A i \in 1..Len(out), j \in 1..Len(queue) :
        out[i].path = queue[j] => stage = "list" /\ j = 1
  /\ \A v \in visited : \E i \in 1..Len(out) : out[i].path = v
  /\ stage = "list" => Head(queue) \in visited

Known == {x \in Paths : /\ Within(x, top)
                        /\ x # top => /\ Parent(x) \in visited
                                      /\ stage = "list" => Parent(x) # Head(queue)}

Origins == Walking => /\ \A i \in 1..Len(out) : out[i].path \in Known
                      /\ \A i \in 1..Len(queue) : queue[i] \in Known

\* What a scan must report: it and the directories above it have stayed.
Due(p) == /\ p \in steady
          /\ Within(p, top) /\ (limit = Unlimited \/ DepthOf(p) <= limit)
          /\ \A q \in Paths : Within(q, top) /\ Within(p, q) => q \in steady

Reported(p) == \E i \in 1..Len(out) : /\ out[i].path = p
                                      /\ out[i].dir = IsDir(p)
                                      /\ out[i].file = IsKind(p, "file")
                                      /\ out[i].link = IsKind(p, "link")

\* It is in the queue, or a directory above it is.
Awaits(p) == \E i \in 1..Len(queue) :
               Within(p, queue[i]) /\ ~(stage = "list" /\ i = 1 /\ queue[i] = p)

\* The answers hold of a head that has stayed, and nothing due is forgotten.
Covered == /\ steady \subseteq DOMAIN entries /\ (stage = "off" => steady = {})
           /\ stage \in {"file", "link"} /\ Head(queue) \in steady => answer[1] = IsDir(Head(queue))
           /\ stage = "link" /\ Head(queue) \in steady => answer[2] = IsKind(Head(queue), "file")
           /\ Walking => \A p \in Paths : Due(p) => Reported(p) \/ Awaits(p)

ScanInv == Bounded /\ Shape /\ Undisturbed /\ Once /\ Origins

-----------------------------------------------------------------------------
(* Iterdir: each child once, all of them, one name below the directory.    *)

LEMMA ChildWithin ==
  ASSUME NEW t \in Paths, NEW h \in Paths, NEW c \in Paths, Parent(c) = h, c # h, Within(h, t)
  PROVE  Within(c, t) /\ c # t
<1>1. t \in Seq(Names) /\ h \in Seq(Names) /\ c \in Seq(Names)
  BY PathsAreSequences
<1>2. c # Root
  <2>1. Parent(Root) = Root
    BY DEF Parent, Root
  <2> QED
    BY <2>1
<1>3. h \in Ancestors(c)
  BY <1>2, BelowRoot
<1>4. t \in Ancestors(c)
  BY <1>1, <1>3, WithinOrSame, AncestorOfAncestor
<1> QED
  BY <1>1, <1>4, WithinOrSame, AncestorsAre

LEMMA ChildrenBounded ==
  ASSUME Bounded, NEW p
  PROVE  IsFiniteSet(Children(p)) /\ Children(p) \subseteq Paths
<1>1. Children(p) \in SUBSET DOMAIN entries
  BY DEF Children
<1> QED
  BY <1>1, FS_Subset DEF Bounded

LEMMA Answers == ASSUME NEW p, NEW k PROVE IsDir(p) \in BOOLEAN /\ IsKind(p, k) \in BOOLEAN
BY DEF IsDir, IsKind, Exists

\* An entry is what the three questions answer.
LEMMA Entry ==
  ASSUME NEW p \in Paths, NEW d \in BOOLEAN, NEW f \in BOOLEAN, NEW l \in BOOLEAN
  PROVE  [path |-> p, dir |-> d, file |-> f, link |-> l]
           \in [path : Paths, dir : BOOLEAN, file : BOOLEAN, link : BOOLEAN]
OBVIOUS

LEMMA Longer ==
  ASSUME NEW S, NEW s \in Seq(S), NEW x \in S
  PROVE  Append(s, x) \in Seq(S) /\ Len(Append(s, x)) = Len(s) + 1
OBVIOUS

\* The second answer does not disturb the first.
LEMMA Appended ==
  ASSUME NEW S, NEW s \in Seq(S), Len(s) = 1, NEW x \in S
  PROVE  Append(s, x)[1] = s[1] /\ Append(s, x)[2] = x
<1>1. Append(s, x)[Len(s) + 1] = x /\ \A i \in 1..Len(s) : Append(s, x)[i] = s[i]
  OBVIOUS
<1>2. Len(s) + 1 = 2 /\ 1 \in 1..Len(s)
  OBVIOUS
<1> QED
  BY <1>1, <1>2

LEMMA Elements ==
  ASSUME NEW S, NEW s \in Seq(S), NEW i \in 1..Len(s)
  PROVE  s[i] \in S
OBVIOUS

LEMMA Nothing == ASSUME NEW S PROVE <<>> \in Seq(S)
OBVIOUS

LEMMA RootIsPath == Root \in Paths
<1>1. Root \in Seq(Names) /\ Len(Root) <= Depth
  BY MemoryFSAssumption DEF Root
<1> QED
  BY <1>1, SequencesArePaths

-----------------------------------------------------------------------------
(* The shape of a scan.                                                    *)

\* The head leaves, what it brought comes last.
LEMMA Continues ==
  ASSUME Shape, Asking, NEW more \in Seq(Paths), Continue(more)
  PROVE  /\ queue' \in Seq(Paths) /\ Len(queue') = Len(queue) - 1 + Len(more)
         /\ \A i \in 1..(Len(queue) - 1) : queue'[i] = queue[i + 1]
         /\ \A i \in 1..Len(more) : queue'[Len(queue) - 1 + i] = more[i]
         /\ stage' \in {"dir", "done"} /\ (stage' = "done" <=> queue' = <<>>)
<1>1. queue \in Seq(Paths) /\ queue # <<>>
  BY DEF Shape
<1> QED
  BY <1>1 DEF Continue

\* A head that brings nothing.
LEMMA ContinuesAlone ==
  ASSUME Shape, Asking, Continue(<<>>)
  PROVE  /\ queue' \in Seq(Paths) /\ Len(queue') = Len(queue) - 1
         /\ \A i \in 1..(Len(queue) - 1) : queue'[i] = queue[i + 1]
         /\ stage' \in {"dir", "done"} /\ (stage' = "done" <=> queue' = <<>>)
<1>1. queue \in Seq(Paths) /\ queue # <<>>
  BY DEF Shape
<1>2. queue' = Tail(queue)
  BY <1>1 DEF Continue
<1> QED
  BY <1>1, <1>2 DEF Continue

LEMMA BringsNothing ==
  ASSUME Continue(<<>>)
  PROVE  \E more \in Seq(Paths) : Continue(more) /\ Len(more) = 0
<1>1. <<>> \in Seq(Paths) /\ Len(<<>>) = 0
  OBVIOUS
<1> QED
  BY <1>1, Zenon

\* What a listing brings.
LEMMA Listed ==
  ASSUME Bounded, NEW p
  PROVE  LET s == SetToSeq(Children(p)) IN
         /\ s \in Seq(Paths) /\ s \in Seq(Children(p))
         /\ \A i, j \in 1..Len(s) : s[i] = s[j] => i = j
         /\ \A x \in Children(p) : \E i \in 1..Len(s) : s[i] = x
<1>1. IsFiniteSet(Children(p)) /\ Children(p) \subseteq Paths
  BY ChildrenBounded
<1> QED
  BY <1>1, Enumerates

LEMMA HeadIs ==
  ASSUME Shape, Asking
  PROVE  /\ Len(queue) \in Nat /\ 1 \in 1..Len(queue)
         /\ Head(queue) = queue[1] /\ Head(queue) \in Paths
BY DEF Shape

LEMMA ShapeStep == Bounded /\ Shape /\ [Next]_vars => Shape'
<1> SUFFICES ASSUME Bounded, Shape, [Next]_vars PROVE Shape'
  OBVIOUS
<1> USE DEF Stages, Asking, options, history, walk
<1>1. CASE AskDir
  BY <1>1, Answers DEF AskDir, Shape
<1>2. CASE AskFile
  <2>1. PICK b \in BOOLEAN : answer' = Append(answer, b)
    BY <1>2, Answers, Zenon DEF AskFile
  <2>2. answer' \in Seq(BOOLEAN) /\ Len(answer') = 2
    <3>1. answer \in Seq(BOOLEAN) /\ Len(answer) = 1
      BY <1>2 DEF AskFile, Shape
    <3>2. Append(answer, b) \in Seq(BOOLEAN) /\ Len(Append(answer, b)) = Len(answer) + 1
      BY <3>1, Longer, Zenon
    <3> QED
      BY <2>1, <3>1, <3>2
  <2> QED
    BY <1>2, <2>2 DEF AskFile, Shape
<1>3. CASE AskLink
  <2> DEFINE e == [path |-> Head(queue), dir |-> answer[1], file |-> answer[2],
                   link |-> IsKind(Head(queue), "link")]
  <2>1. e \in [path : Paths, dir : BOOLEAN, file : BOOLEAN, link : BOOLEAN]
    <3>1. /\ Head(queue) \in Paths /\ answer \in Seq(BOOLEAN)
          /\ 1 \in 1..Len(answer) /\ 2 \in 1..Len(answer)
      <4>1. answer \in Seq(BOOLEAN) /\ Len(answer) = 2 /\ Head(queue) \in Paths
        BY <1>3, HeadIs DEF AskLink, Shape
      <4> QED
        BY <4>1
    <3>2. answer[1] \in BOOLEAN /\ answer[2] \in BOOLEAN
      BY <3>1, Elements, Zenon
    <3> QED
      BY <3>1, <3>2, Answers, Entry, Zenon
  <2>2. out' = Append(out, e) /\ answer' = <<>> /\ UNCHANGED <<top, limit, follow, changes, steady>>
    BY <1>3 DEF AskLink
  <2>3. CASE Continue(<<>>) /\ UNCHANGED visited
    <3>1. Asking
      BY <1>3 DEF AskLink
    <3> QED
      BY <2>1, <2>2, <2>3, <3>1, ContinuesAlone DEF Shape
  <2>4. CASE stage' = "list" /\ visited' = visited \cup {Head(queue)} /\ UNCHANGED queue
    BY <1>3, <2>1, <2>2, <2>4, HeadIs DEF AskLink, Shape
  <2> QED
    BY <1>3, <2>3, <2>4 DEF AskLink
<1>4. CASE List
  <2>1. UNCHANGED <<top, limit, follow, answer, visited, out, changes, steady>>
    BY <1>4 DEF List
  <2>2. ASSUME NEW more \in Seq(Paths), Continue(more) PROVE Shape'
    BY <1>4, <2>1, <2>2, Continues DEF List, Shape
  <2>3. CASE stage' = "raised" /\ UNCHANGED queue
    BY <2>1, <2>3 DEF Shape
  <2>4. CASE Continue(<<>>)
    BY <2>2, <2>4, BringsNothing
  <2>5. CASE Continue(SetToSeq(Children(Head(queue))))
    BY <2>2, <2>5, Listed
  <2> QED
    BY <1>4, <2>3, <2>4, <2>5 DEF List
<1>5. CASE Finish
  <2>1. queue' \in Seq(Paths) /\ answer' \in Seq(BOOLEAN)
        /\ out' \in Seq([path : Paths, dir : BOOLEAN, file : BOOLEAN, link : BOOLEAN])
    BY <1>5, Nothing, Zenon DEF Finish
  <2> QED
    BY <1>5, <2>1, RootIsPath DEF Finish, Shape
<1>6. ASSUME NEW p \in Paths, NEW n \in Limits \cup {Unlimited}, NEW f \in BOOLEAN, Start(p, n, f)
      PROVE  Shape'
  BY <1>6 DEF Start, Shape, Bounded
<1>7. CASE Disturb
  <2>1. PICK ch \in Nat : changes' = ch
    BY <1>7, PathScanAssumption DEF Disturb, Shape
  <2>2. steady' \subseteq Paths
    BY <1>7 DEF Disturb, Shape
  <2> QED
    BY <1>7, <2>1, <2>2 DEF Disturb, Shape
<1>8. CASE UNCHANGED vars
  BY <1>8 DEF vars, Shape
<1> QED
  BY <1>1, <1>2, <1>3, <1>4, <1>5, <1>6, <1>7, <1>8 DEF Next, Scan

LEMMA UndisturbedStep == Shape /\ Undisturbed /\ [Next]_vars => Undisturbed'
<1> SUFFICES ASSUME Shape, Undisturbed, [Next]_vars PROVE Undisturbed'
  OBVIOUS
<1> USE DEF options, history, walk
<1>1. CASE AskDir
  BY <1>1 DEF AskDir, Undisturbed, IsDir, Exists
<1>2. CASE AskFile
  <2>1. answer'[1] = answer[1]
    BY <1>2 DEF AskFile, Shape
  <2> QED
    BY <1>2, <2>1 DEF AskFile, Undisturbed, IsDir, Exists
<1>3. CASE AskLink
  <2>1. out' # <<>>
    BY <1>3 DEF AskLink, Shape
  <2>2. CASE Continue(<<>>)
    BY <1>3, <2>2, ContinuesAlone DEF AskLink, Undisturbed, Asking
  <2>3. CASE answer[1] /\ stage' = "list" /\ UNCHANGED <<queue, changes, entries>>
    BY <1>3, <2>1, <2>3 DEF AskLink, Undisturbed, IsDir, Exists
  <2> QED
    BY <1>3, <2>2, <2>3, Answers DEF AskLink, Shape
<1>4. CASE List
  <2>1. CASE stage' = "raised" /\ ~IsDir(Head(queue))
    BY <1>4, <2>1 DEF List, Undisturbed, Shape
  <2>2. CASE stage' \in {"done", "dir"}
    BY <2>2 DEF Undisturbed
  <2> QED
    BY <1>4, <2>1, <2>2 DEF List, Continue
<1>5. CASE Finish \/ \E p \in Paths, n \in Limits \cup {Unlimited}, f \in BOOLEAN : Start(p, n, f)
  BY <1>5 DEF Finish, Start, Undisturbed
<1>6. CASE Disturb
  <2>1. CASE stage = "off"
    BY <1>6, <2>1 DEF Disturb, Undisturbed
  <2>2. CASE stage # "off"
    BY <1>6, <2>2 DEF Disturb, Undisturbed, Shape
  <2> QED
    BY <2>1, <2>2
<1>7. CASE UNCHANGED vars
  BY <1>7 DEF vars, Undisturbed, IsDir, Exists
<1> QED
  BY <1>1, <1>2, <1>3, <1>4, <1>5, <1>6, <1>7 DEF Next, Scan

-----------------------------------------------------------------------------
(* No path twice.                                                          *)

\* After a step that takes the head, each path in the queue was there behind
\* the head, or is new.
LEMMA Follows ==
  ASSUME Shape, Asking, NEW more \in Seq(Paths), Continue(more), NEW i \in 1..Len(queue')
  PROVE  \/ \E k \in 2..Len(queue) : i = k - 1 /\ queue'[i] = queue[k]
         \/ \E m \in 1..Len(more) : i = Len(queue) - 1 + m /\ queue'[i] = more[m]
<1>1. /\ Len(queue') = Len(queue) - 1 + Len(more)
      /\ \A j \in 1..(Len(queue) - 1) : queue'[j] = queue[j + 1]
      /\ \A j \in 1..Len(more) : queue'[Len(queue) - 1 + j] = more[j]
  BY Continues
<1>2. Len(queue) \in Nat \ {0} /\ Len(more) \in Nat /\ i \in Nat
  BY HeadIs
<1>3. CASE i <= Len(queue) - 1
  <2>1. i + 1 \in 2..Len(queue) /\ queue'[i] = queue[i + 1] /\ i = (i + 1) - 1
    BY <1>1, <1>2, <1>3
  <2> QED
    BY <2>1
<1>4. CASE i > Len(queue) - 1
  <2>1. i - (Len(queue) - 1) \in 1..Len(more)
    BY <1>1, <1>2, <1>4
  <2>2. queue'[Len(queue) - 1 + (i - (Len(queue) - 1))] = more[i - (Len(queue) - 1)]
    BY <1>1, <2>1
  <2> QED
    BY <1>2, <2>1, <2>2
<1> QED
  BY <1>2, <1>3, <1>4

\* A listing brings what was neither reported nor queued.
LEMMA ListingIsNew ==
  ASSUME ScanInv, stage = "list", NEW c \in Children(Head(queue))
  PROVE  /\ c \in Paths /\ Within(c, top) /\ c # top /\ Parent(c) = Head(queue)
         /\ \A i \in 1..Len(out) : out[i].path # c
         /\ \A i \in 1..Len(queue) : queue[i] # c
<1>1. /\ Walking /\ Asking /\ Head(queue) = queue[1] /\ Head(queue) \in Paths /\ top \in Paths
      /\ 1 \in 1..Len(queue) /\ c \in Paths
  BY HeadIs, ChildrenBounded DEF ScanInv, Walking, Asking, Shape
<1>2. Parent(c) = Head(queue) /\ c # Head(queue)
  BY DEF Children
<1>3. Within(Head(queue), top)
  BY <1>1 DEF ScanInv, Origins, Known
<1>4. Within(c, top) /\ c # top
  BY <1>1, <1>2, <1>3, ChildWithin
<1>5. c \notin Known
  BY <1>2, <1>4 DEF Known
<1> QED
  BY <1>1, <1>2, <1>4, <1>5 DEF ScanInv, Origins

LEMMA OnceStep == ScanInv /\ [Next]_vars => Once'
<1> SUFFICES ASSUME ScanInv, [Next]_vars, Walking' PROVE Once'
  BY DEF Once
<1> USE DEF ScanInv, options, history, walk
<1>0. /\ out \in Seq([path : Paths, dir : BOOLEAN, file : BOOLEAN, link : BOOLEAN])
      /\ Len(out) \in Nat /\ queue \in Seq(Paths)
  BY DEF Shape
<1>1. CASE AskDir \/ AskFile \/ Disturb \/ UNCHANGED vars
  BY <1>1 DEF AskDir, AskFile, Disturb, vars, Once, Walking
<1>2. ASSUME NEW p \in Paths, NEW n \in Limits \cup {Unlimited}, NEW f \in BOOLEAN, Start(p, n, f)
      PROVE  Once'
  BY <1>2 DEF Start, Once
<1>3. CASE AskLink
  <2> DEFINE h == Head(queue)
             e == [path |-> h, dir |-> answer[1], file |-> answer[2], link |-> IsKind(h, "link")]
  <2>1. Once /\ Walking /\ Asking /\ stage # "list"
    BY <1>3 DEF AskLink, Walking, Asking
  <2>2. h = queue[1] /\ 1 \in 1..Len(queue) /\ Len(queue) \in Nat
    BY <2>1, HeadIs
  <2>3. out' = Append(out, e) /\ e.path = h
    BY <1>3 DEF AskLink
  <2> HIDE DEF e, h
  <2>4. /\ Len(out') = Len(out) + 1 /\ out'[Len(out) + 1].path = h
        /\ \A i \in 1..Len(out) : out'[i] = out[i]
    BY <1>0, <2>3
  <2>5. /\ \A i \in 1..Len(out) : out[i].path # h
        /\ \A i \in 1..Len(queue) : queue[i] = h => i = 1
    BY <2>1, <2>2 DEF Once, Walking
  <2>6. \A i, j \in 1..Len(out') : out'[i].path = out'[j].path => i = j
    BY <1>0, <2>1, <2>4, <2>5 DEF Once
  <2>7. \A v \in visited \cup {h} : \E i \in 1..Len(out') : out'[i].path = v
    BY <1>0, <2>1, <2>4 DEF Once
  <2>8. CASE Continue(<<>>) /\ UNCHANGED visited
    <3>2. /\ Len(queue') = Len(queue) - 1 /\ stage' # "list"
          /\ \A i \in 1..(Len(queue) - 1) : queue'[i] = queue[i + 1]
      BY <2>1, <2>8, ContinuesAlone
    <3>3. \A i, j \in 1..Len(queue') : queue'[i] = queue'[j] => i = j
      BY <2>1, <2>2, <3>2 DEF Once
    <3>4. \A i \in 1..Len(out'), j \in 1..Len(queue') : out'[i].path # queue'[j]
      BY <1>0, <2>1, <2>2, <2>4, <2>5, <3>2 DEF Once
    <3> QED
      BY <2>6, <2>7, <2>8, <3>2, <3>3, <3>4 DEF Once
  <2>9. CASE stage' = "list" /\ visited' = visited \cup {h} /\ UNCHANGED queue
    <3>1. \A i \in 1..Len(out'), j \in 1..Len(queue') : out'[i].path = queue'[j] => j = 1
      BY <1>0, <2>1, <2>4, <2>5, <2>9 DEF Once
    <3> QED
      BY <2>1, <2>6, <2>7, <2>9, <3>1 DEF Once, h
  <2> QED
    BY <1>3, <2>8, <2>9 DEF AskLink, h
<1>4. CASE List
  <2>1. Once /\ Walking /\ Asking /\ stage = "list" /\ UNCHANGED <<out, visited>>
    BY <1>4 DEF List, Walking, Asking
  <2>2. PICK more \in Seq(Paths) :
          /\ Continue(more) /\ Len(more) \in Nat
          /\ \A i, j \in 1..Len(more) : more[i] = more[j] => i = j
          /\ \A i \in 1..Len(more) : more[i] \in Children(Head(queue))
    <3>1. CASE Continue(<<>>)
      BY <3>1, BringsNothing
    <3>2. CASE Continue(SetToSeq(Children(Head(queue))))
      BY <3>2, Listed
    <3> QED
      BY <1>4, <3>1, <3>2 DEF List, Walking
  <2>3. /\ \A i \in 1..Len(more) : \A j \in 1..Len(queue) : more[i] # queue[j]
        /\ \A i \in 1..Len(more) : \A j \in 1..Len(out) : more[i] # out[j].path
    BY <2>1, <2>2, ListingIsNew
  <2>4. Len(queue) \in Nat \ {0}
    BY <2>1, HeadIs
  <2>5. \A i \in 1..Len(queue') :
          \/ \E k \in 2..Len(queue) : i = k - 1 /\ queue'[i] = queue[k]
          \/ \E m \in 1..Len(more) : i = Len(queue) - 1 + m /\ queue'[i] = more[m]
    BY <2>1, <2>2, Follows
  <2>6. Len(queue') \in Nat /\ stage' # "list"
    BY <2>1, <2>2, Continues
  <2>7. \A i, j \in 1..Len(queue') : queue'[i] = queue'[j] => i = j
    <3> SUFFICES ASSUME NEW i \in 1..Len(queue'), NEW j \in 1..Len(queue'), queue'[i] = queue'[j]
                 PROVE  i = j
      OBVIOUS
    <3>1. ASSUME NEW k \in 2..Len(queue), NEW l \in 2..Len(queue), i = k - 1, j = l - 1,
                 queue[k] = queue[l]
          PROVE  i = j
      BY <2>1, <2>4, <3>1 DEF Once
    <3>2. ASSUME NEW m \in 1..Len(more), NEW n \in 1..Len(more),
                 i = Len(queue) - 1 + m, j = Len(queue) - 1 + n, more[m] = more[n]
          PROVE  i = j
      BY <2>2, <3>2
    <3>3. \A m \in 1..Len(more), k \in 2..Len(queue) : more[m] # queue[k]
      BY <2>3, <2>4
    <3> QED
      BY <2>5, <3>1, <3>2, <3>3
  <2>8. \A i \in 1..Len(out), j \in 1..Len(queue') : out[i].path # queue'[j]
    <3> SUFFICES ASSUME NEW i \in 1..Len(out), NEW j \in 1..Len(queue')
                 PROVE  out[i].path # queue'[j]
      OBVIOUS
    <3>1. \A k \in 2..Len(queue) : out[i].path # queue[k]
      BY <2>1, <2>4 DEF Once
    <3> QED
      BY <2>3, <2>5, <3>1
  <2> QED
    BY <2>1, <2>6, <2>7, <2>8 DEF Once
<1>5. ~Finish
  BY DEF Finish, Walking
<1> QED
  BY <1>1, <1>2, <1>3, <1>4, <1>5 DEF Next, Scan

LEMMA OriginsStep == ScanInv /\ [Next]_vars => Origins'
<1> SUFFICES ASSUME ScanInv, [Next]_vars, Walking' PROVE Origins'
  BY DEF Origins
<1> USE DEF ScanInv, options, history, walk
<1>0. /\ out \in Seq([path : Paths, dir : BOOLEAN, file : BOOLEAN, link : BOOLEAN])
      /\ Len(out) \in Nat /\ queue \in Seq(Paths)
  BY DEF Shape
<1>1. CASE AskDir \/ AskFile \/ Disturb \/ UNCHANGED vars
  BY <1>1 DEF AskDir, AskFile, Disturb, vars, Origins, Known, Walking
<1>2. ASSUME NEW p \in Paths, NEW n \in Limits \cup {Unlimited}, NEW f \in BOOLEAN, Start(p, n, f)
      PROVE  Origins'
  <2>1. p \in Seq(Names)
    BY PathsAreSequences
  <2>2. Within(p, p)
    BY <2>1, WithinIs
  <2> QED
    BY <1>2, <2>2 DEF Start, Origins, Known
<1>3. CASE AskLink
  <2> DEFINE h == Head(queue)
             e == [path |-> h, dir |-> answer[1], file |-> answer[2], link |-> IsKind(h, "link")]
  <2>1. Once /\ Origins /\ Walking /\ Asking /\ stage # "list" /\ UNCHANGED top
    BY <1>3 DEF AskLink, Walking, Asking
  <2>2. h = queue[1] /\ 1 \in 1..Len(queue) /\ Len(queue) \in Nat
    BY <2>1, HeadIs
  <2>3. out' = Append(out, e) /\ e.path = h
    BY <1>3 DEF AskLink
  <2> HIDE DEF e, h
  <2>4. /\ Len(out') = Len(out) + 1 /\ out'[Len(out) + 1].path = h
        /\ \A i \in 1..Len(out) : out'[i] = out[i]
    BY <1>0, <2>3
  <2>5. h \notin visited
    BY <2>1, <2>2 DEF Once, Walking
  <2>6. visited \subseteq visited' /\ (stage' = "list" => queue' = queue)
    BY <1>3, <2>1, Continues DEF AskLink, Continue
  <2>7. ASSUME NEW x \in Known PROVE x \in Known'
    BY <2>1, <2>5, <2>6, <2>7 DEF Known, h
  <2>8. \A i \in 1..Len(out') : out'[i].path \in Known'
    BY <1>0, <2>1, <2>2, <2>4, <2>7 DEF Origins
  <2>9. \A i \in 1..Len(queue') : queue'[i] \in Known'
    <3>1. CASE queue' = queue
      BY <2>1, <2>7, <3>1 DEF Origins
    <3>2. CASE Continue(<<>>)
      <4>1. /\ Len(queue') = Len(queue) - 1
            /\ \A i \in 1..(Len(queue) - 1) : queue'[i] = queue[i + 1]
        BY <2>1, <3>2, ContinuesAlone
      <4> QED
        BY <2>1, <2>2, <2>7, <4>1 DEF Origins
    <3> QED
      BY <1>3, <3>1, <3>2 DEF AskLink
  <2> QED
    BY <2>8, <2>9 DEF Origins
<1>4. CASE List
  <2>1. Once /\ Origins /\ Walking /\ Asking /\ stage = "list" /\ UNCHANGED <<out, visited, top>>
    BY <1>4 DEF List, Walking, Asking
  <2>2. PICK more \in Seq(Paths) :
          /\ Continue(more) /\ Len(more) \in Nat
          /\ \A i \in 1..Len(more) : more[i] \in Children(Head(queue))
    <3>1. CASE Continue(<<>>)
      BY <3>1, BringsNothing
    <3>2. CASE Continue(SetToSeq(Children(Head(queue))))
      BY <3>2, Listed
    <3> QED
      BY <1>4, <3>1, <3>2 DEF List, Walking
  <2>3. Len(queue) \in Nat \ {0} /\ stage' # "list" /\ Head(queue) \in visited
    BY <2>1, <2>2, HeadIs, Continues DEF Once
  <2>4. ASSUME NEW x \in Known PROVE x \in Known'
    BY <2>1, <2>3, <2>4 DEF Known
  <2>5. ASSUME NEW x \in Children(Head(queue)) PROVE x \in Known'
    BY <2>1, <2>3, <2>5, ListingIsNew DEF Known
  <2>6. \A i \in 1..Len(out') : out'[i].path \in Known'
    BY <2>1, <2>4 DEF Origins
  <2>7. \A i \in 1..Len(queue') : queue'[i] \in Known'
    <3>1. \A k \in 2..Len(queue) : queue[k] \in Known
      BY <2>1, <2>3 DEF Origins
    <3>2. \A i \in 1..Len(queue') : \/ \E k \in 2..Len(queue) : queue'[i] = queue[k]
                                    \/ \E m \in 1..Len(more) : queue'[i] = more[m]
      BY <2>1, <2>2, Follows
    <3> QED
      BY <2>2, <2>4, <2>5, <3>1, <3>2
  <2> QED
    BY <2>6, <2>7 DEF Origins
<1>5. ~Finish
  BY DEF Finish, Walking
<1> QED
  BY <1>1, <1>2, <1>3, <1>4, <1>5 DEF Next, Scan

LEMMA ScanInit0 == ScanInit => ScanInv
<1> SUFFICES ASSUME ScanInit PROVE ScanInv
  OBVIOUS
<1>1. queue \in Seq(Paths) /\ answer \in Seq(BOOLEAN)
      /\ out \in Seq([path : Paths, dir : BOOLEAN, file : BOOLEAN, link : BOOLEAN])
  BY Nothing, Zenon DEF ScanInit
<1>2. Shape
  BY <1>1, RootIsPath DEF ScanInit, Shape, Stages, Asking
<1> QED
  BY <1>2, BoundedInit DEF ScanInit, ScanInv, Undisturbed, Once, Origins, Walking

LEMMA ScanStep == ScanInv /\ [Next]_vars => ScanInv'
<1>1. ScanInv /\ [Next]_vars => Bounded'
  <2>1. [Next]_vars => [Change]_entries
    BY DEF Next, Scan, Disturb, AskDir, AskFile, AskLink, List, Finish, Start, vars
  <2> QED
    BY <2>1, BoundedStep DEF ScanInv
<1> QED
  BY <1>1, ShapeStep, UndisturbedStep, OnceStep, OriginsStep DEF ScanInv

LEMMA ScanInductive == Spec => []ScanInv
BY ScanInit0, ScanStep, PTL DEF Spec

\* A scan keeps its shape, and raises only where somebody else took its root
\* away: Iterdir of a directory never fails on its own.
THEOREM ScansWellFormed == Spec => []ScanTypeOK
<1>1. ScanInv => ScanTypeOK
  BY DEF ScanInv, Shape, Undisturbed, ScanTypeOK
<1> QED
  BY <1>1, ScanInductive, PTL

\* Two sequences without repetitions that share nothing, one after the other.
LEMMA Concatenated ==
  ASSUME NEW S, NEW a \in Seq(S), NEW b \in Seq(S),
         \A i, j \in 1..Len(a) : a[i] = a[j] => i = j,
         \A i, j \in 1..Len(b) : b[i] = b[j] => i = j,
         \A i \in 1..Len(a), j \in 1..Len(b) : a[i] # b[j]
  PROVE  \A i, j \in DOMAIN (a \o b) : (a \o b)[i] = (a \o b)[j] => i = j
<1> DEFINE c == a \o b
<1>1. /\ DOMAIN c = 1..(Len(a) + Len(b)) /\ Len(a) \in Nat /\ Len(b) \in Nat
      /\ \A i \in 1..Len(a) : c[i] = a[i]
      /\ \A i \in 1..Len(b) : c[Len(a) + i] = b[i]
  OBVIOUS
<1> HIDE DEF c
<1>2. ASSUME NEW i \in DOMAIN c
      PROVE  \/ i \in 1..Len(a) /\ c[i] = a[i]
             \/ \E k \in 1..Len(b) : i = Len(a) + k /\ c[i] = b[k]
  <2>1. CASE i <= Len(a)
    BY <1>1, <2>1
  <2>2. CASE i > Len(a)
    <3>1. PICK k \in 1..Len(b) : i = Len(a) + k
      <4>1. i - Len(a) \in 1..Len(b) /\ i = Len(a) + (i - Len(a))
        BY <1>1, <2>2
      <4> QED
        BY <4>1
    <3> QED
      BY <1>1, <3>1
  <2> QED
    BY <1>1, <2>1, <2>2
<1>3. ASSUME NEW i \in DOMAIN c, NEW j \in DOMAIN c, c[i] = c[j] PROVE i = j
  BY <1>2, <1>3
<1> QED
  BY <1>3 DEF c

LEMMA OnceReports == ScanInv => ReportsOnce
<1> SUFFICES ASSUME ScanInv, Walking PROVE \A i, j \in DOMAIN Sightings : Sightings[i] = Sightings[j] => i = j
  BY DEF ReportsOnce, Walking
<1> DEFINE paths == [i \in DOMAIN out |-> out[i].path]
           rest == IF stage = "list" THEN Tail(queue) ELSE queue
<1>1. /\ out \in Seq([path : Paths, dir : BOOLEAN, file : BOOLEAN, link : BOOLEAN])
      /\ Len(out) \in Nat /\ queue \in Seq(Paths) /\ Len(queue) \in Nat
      /\ stage = "list" => queue # <<>> /\ Len(queue) >= 1
  BY DEF ScanInv, Shape, Asking
<1>2. /\ paths \in Seq(Paths) /\ Len(paths) = Len(out)
      /\ \A i \in 1..Len(out) : paths[i] = out[i].path
  <2>1. DOMAIN out = 1..Len(out) /\ \A i \in 1..Len(out) : out[i].path \in Paths
    <3>1. DOMAIN out = 1..Len(out)
      BY <1>1
    <3>2. ASSUME NEW i \in 1..Len(out)
          PROVE  out[i] \in [path : Paths, dir : BOOLEAN, file : BOOLEAN, link : BOOLEAN]
      BY <1>1, Elements, Zenon
    <3> QED
      BY <3>1, <3>2
  <2>2. paths \in [1..Len(out) -> Paths]
    BY <2>1
  <2> QED
    BY <1>1, <2>1, <2>2
<1>3. /\ rest \in Seq(Paths) /\ Len(rest) \in Nat
      /\ \A i \in 1..Len(rest) : \E k \in 1..Len(queue) :
            /\ k = i + (IF stage = "list" THEN 1 ELSE 0) /\ rest[i] = queue[k]
  <2>1. CASE stage = "list"
    <3>1. rest = Tail(queue)
      BY <2>1
    <3>2. \A i \in 1..Len(rest) : i + 1 \in 1..Len(queue) /\ rest[i] = queue[i + 1]
      BY <1>1, <2>1, <3>1
    <3> QED
      BY <1>1, <2>1, <3>1, <3>2
  <2>2. CASE stage # "list"
    BY <1>1, <2>2
  <2> QED
    BY <2>1, <2>2
<1>4. Sightings = paths \o rest
  BY DEF Sightings
<1> HIDE DEF paths, rest
<1>5. \A i, j \in 1..Len(paths) : paths[i] = paths[j] => i = j
  BY <1>2 DEF ScanInv, Once
<1>6. \A i, j \in 1..Len(rest) : rest[i] = rest[j] => i = j
  BY <1>3 DEF ScanInv, Once
<1>7. \A i \in 1..Len(paths), j \in 1..Len(rest) : paths[i] # rest[j]
  BY <1>2, <1>3 DEF ScanInv, Once
<1>8. \A i, j \in DOMAIN (paths \o rest) : (paths \o rest)[i] = (paths \o rest)[j] => i = j
  <2>1. paths \in Seq(Paths) /\ rest \in Seq(Paths)
    BY <1>2, <1>3
  <2> QED
    BY <1>5, <1>6, <1>7, <2>1, Concatenated, Zenon
<1> QED
  BY <1>4, <1>8, Zenon

\* However the tree changes while Path.scan walks it, and whatever careless
\* callers do to it, no path is reported twice.
THEOREM NothingTwice == Spec => []ReportsOnce
BY OnceReports, ScanInductive, PTL

-----------------------------------------------------------------------------
(* Nothing missed.                                                         *)

\* The three questions about what did not change have the same answers.
LEMMA Unchanged ==
  ASSUME NEW p, p \in DOMAIN entries, p \in DOMAIN entries', entries'[p] = entries[p]
  PROVE  IsDir(p)' = IsDir(p) /\ \A k \in Kinds : IsKind(p, k)' = IsKind(p, k)
BY DEF IsDir, IsKind, Exists

LEMMA DueIs ==
  ASSUME ScanInv, NEW p \in Paths, Due(p), NEW h \in Paths, Within(h, top), Within(p, h)
  PROVE  h \in steady /\ p \in Seq(Names) /\ h \in Seq(Names) /\ (h # p => h \in Ancestors(p))
BY PathsAreSequences, WithinOrSame DEF Due

\* A directory above what is due is listed, once it was asked about.
LEMMA Listable ==
  ASSUME ScanInv, Inv, Covered, stage = "link", NEW p \in Paths, Due(p), Within(p, Head(queue)),
         Head(queue) # p
  PROVE  /\ answer[1] /\ ~IsKind(Head(queue), "link") /\ ~TooDeep(Head(queue))
         /\ Head(queue) \notin visited
<1>1. Walking /\ Asking /\ Head(queue) = queue[1] /\ 1 \in 1..Len(queue) /\ Head(queue) \in Paths
  BY HeadIs DEF ScanInv, Walking, Asking
<1>2. Head(queue) \in Known /\ Within(Head(queue), top)
  BY <1>1 DEF ScanInv, Origins, Known
<1>3. /\ Head(queue) \in steady /\ Head(queue) \in Ancestors(p)
      /\ p \in Seq(Names) /\ Head(queue) \in Seq(Names)
  BY <1>1, <1>2, DueIs
<1>4. p \in DOMAIN entries
  BY DEF Due, Covered
<1>5. IsDir(Head(queue))
  BY <1>3, <1>4 DEF Inv, IsTree
<1>6. answer[1]
  BY <1>3, <1>5 DEF Covered
<1>7. ~TooDeep(Head(queue))
  <2>1. Len(Head(queue)) < Len(p) /\ Len(top) \in Nat
    BY <1>3, AncestorsAre, PathsAreSequences DEF ScanInv, Shape
  <2>2. limit \in Limits \cup {Unlimited} /\ (limit = Unlimited \/ DepthOf(p) <= limit)
    BY DEF Due, ScanInv, Shape
  <2> QED
    BY <1>3, <2>1, <2>2, PathScanAssumption DEF TooDeep, DepthOf
<1>8. Head(queue) \notin visited
  BY <1>1 DEF ScanInv, Once
<1> QED
  BY <1>5, <1>6, <1>7, <1>8 DEF IsDir, IsKind

\* What is behind the head of the queue still waits when the head is gone.
LEMMA StillWaits ==
  ASSUME Shape, Asking, NEW more \in Seq(Paths), Continue(more), NEW x, NEW i \in 2..Len(queue),
         Within(x, queue[i])
  PROVE  Awaits(x)'
<1>1. /\ Len(queue') = Len(queue) - 1 + Len(more) /\ stage' # "list"
      /\ \A j \in 1..(Len(queue) - 1) : queue'[j] = queue[j + 1]
  BY Continues
<1>2. Len(queue) \in Nat /\ Len(more) \in Nat
  BY HeadIs
<1>3. i - 1 \in 1..Len(queue') /\ queue'[i - 1] = queue[i]
  <2>1. i - 1 \in 1..(Len(queue) - 1) /\ (i - 1) + 1 = i
    BY <1>2
  <2> QED
    BY <1>1, <1>2, <2>1
<1> QED
  BY <1>1, <1>3 DEF Awaits

\* AskLink reports the head, or keeps it for the listing of what is due below it.
LEMMA AskLinkCovers ==
  ASSUME ScanInv, Inv, Covered, AskLink, NEW x \in Paths, Due(x)
  PROVE  Reported(x)' \/ Awaits(x)'
<1> USE DEF ScanInv
<1> DEFINE h == Head(queue)
           e == [path |-> h, dir |-> answer[1], file |-> answer[2], link |-> IsKind(h, "link")]
<1>1. Walking /\ Asking /\ stage = "link" /\ UNCHANGED entries
  BY DEF AskLink, Walking, Asking
<1>2. h = queue[1] /\ 1 \in 1..Len(queue) /\ Len(queue) \in Nat
  BY <1>1, HeadIs
<1>3. out' = Append(out, e) /\ e.path = h /\ e.dir = answer[1] /\ e.file = answer[2]
      /\ e.link = IsKind(h, "link")
  BY DEF AskLink
<1> HIDE DEF e, h
<1>4. /\ Len(out) \in Nat /\ Len(out') = Len(out) + 1 /\ out'[Len(out) + 1] = e
      /\ \A i \in 1..Len(out) : out'[i] = out[i]
  BY <1>3 DEF Shape
<1>5. IsDir(x)' = IsDir(x) /\ \A k \in Kinds : IsKind(x, k)' = IsKind(x, k)
  BY <1>1 DEF IsDir, IsKind, Exists
<1>6. CASE Reported(x)
  <2>1. PICK i \in 1..Len(out) : /\ out[i].path = x /\ out[i].dir = IsDir(x)
                                 /\ out[i].file = IsKind(x, "file")
                                 /\ out[i].link = IsKind(x, "link")
    BY <1>6 DEF Reported
  <2>2. i \in 1..Len(out') /\ out'[i] = out[i]
    BY <1>4
  <2> QED
    BY <1>5, <2>1, <2>2 DEF Reported, Kinds
<1>7. CASE x = h
  <2>1. answer[1] = IsDir(x) /\ answer[2] = IsKind(x, "file")
    BY <1>1, <1>7 DEF Covered, Due, h
  <2>2. Len(out) + 1 \in 1..Len(out')
    BY <1>4
  <2> QED
    BY <1>3, <1>4, <1>5, <1>7, <2>1, <2>2 DEF Reported, Kinds
<1>8. CASE x # h /\ Within(x, h)
  <2>1. stage' = "list" /\ UNCHANGED queue
    BY <1>1, <1>8, Listable DEF AskLink, h
  <2> QED
    BY <1>2, <1>8, <2>1 DEF Awaits
<1>9. ASSUME NEW i \in 2..Len(queue), Within(x, queue[i]) PROVE Awaits(x)'
  <2>1. CASE Continue(<<>>)
    BY <1>1, <1>9, <2>1, BringsNothing, StillWaits
  <2>2. CASE UNCHANGED queue
    BY <1>2, <1>9, <2>2 DEF Awaits
  <2> QED
    BY <2>1, <2>2 DEF AskLink
<1>10. Reported(x) \/ Awaits(x)
  BY <1>1 DEF Covered
<1>11. Awaits(x) => Within(x, h) \/ \E i \in 2..Len(queue) : Within(x, queue[i])
  BY <1>2 DEF Awaits
<1> QED
  BY <1>6, <1>7, <1>8, <1>9, <1>10, <1>11

\* A listing brings the child that leads to what is due.
LEMMA ListCovers ==
  ASSUME ScanInv, Inv, Covered, List, stage' # "raised", NEW x \in Paths, Due(x)
  PROVE  Reported(x)' \/ Awaits(x)'
<1> USE DEF ScanInv
<1> DEFINE h == Head(queue)
<1>1. Walking /\ Asking /\ stage = "list" /\ UNCHANGED <<entries, out>>
  BY DEF List, Walking, Asking
<1>2. h = queue[1] /\ 1 \in 1..Len(queue) /\ Len(queue) \in Nat /\ h \in Paths
  BY <1>1, HeadIs
<1> HIDE DEF h
<1>3. CASE Reported(x)
  BY <1>1, <1>3 DEF Reported, IsDir, IsKind, Exists
<1>4. ASSUME NEW i \in 2..Len(queue), Within(x, queue[i]) PROVE Awaits(x)'
  <2>1. CASE Continue(<<>>)
    BY <1>1, <1>4, <2>1, BringsNothing, StillWaits
  <2>2. CASE Continue(SetToSeq(Children(h)))
    BY <1>1, <1>4, <2>2, Listed, StillWaits
  <2> QED
    BY <2>1, <2>2 DEF List, h
<1>5. CASE x # h /\ Within(x, h)
  <2>1. x \in Seq(Names) /\ h \in Ancestors(x) /\ x \in DOMAIN entries
    <3>1. Within(h, top)
      BY <1>1, <1>2 DEF Origins, Known
    <3> QED
      BY <1>2, <1>5, <3>1, DueIs DEF Due, Covered
  <2>2. IsDir(h)
    BY <2>1 DEF Inv, IsTree
  <2>3. Continue(SetToSeq(Children(h)))
    BY <2>2 DEF List, h
  <2>4. PICK c \in Ancestors(x) \cup {x} : Parent(c) = h /\ c # h
    BY <2>1, ChildBetween
  <2>5. c \in Children(h) /\ c \in Seq(Names) /\ Within(x, c)
    <3>1. c \in DOMAIN entries
      BY <2>1 DEF Inv, IsTree, IsDir, Exists
    <3>2. c \in Seq(Names)
      BY <3>1, PathsAreSequences DEF Inv, TypeOK
    <3> QED
      BY <2>1, <2>4, <3>1, <3>2, WithinOrSame DEF Children
  <2> DEFINE more == SetToSeq(Children(h))
  <2>6. more \in Seq(Paths) /\ \E i \in 1..Len(more) : more[i] = c
    BY <2>5, Listed
  <2> HIDE DEF more
  <2>7. PICK m \in 1..Len(more) : more[m] = c
    BY <2>6
  <2>8. /\ Len(queue') = Len(queue) - 1 + Len(more) /\ stage' # "list"
        /\ queue'[Len(queue) - 1 + m] = c
    BY <1>1, <2>3, <2>6, <2>7, Continues DEF more
  <2>9. Len(queue) - 1 + m \in 1..Len(queue')
    BY <1>2, <2>6, <2>8
  <2> QED
    BY <2>5, <2>8, <2>9 DEF Awaits
<1>6. Reported(x) \/ Awaits(x)
  BY <1>1 DEF Covered
<1>7. Awaits(x) => (x # h /\ Within(x, h)) \/ \E i \in 2..Len(queue) : Within(x, queue[i])
  BY <1>1, <1>2 DEF Awaits
<1> QED
  BY <1>3, <1>4, <1>5, <1>6, <1>7

LEMMA CoveredStep ==
  ASSUME ScanInv, Inv, Covered, [Next]_vars
  PROVE  Covered'
<1> USE DEF options, history, walk
<1>1. CASE AskDir
  <2>1. Asking /\ Walking
    BY <1>1 DEF AskDir, Asking, Walking
  <2>2. Head(queue) \in Paths /\ answer'[1] = IsDir(Head(queue)) /\ queue' = queue /\ UNCHANGED entries
    BY <1>1, <2>1, HeadIs DEF AskDir, ScanInv
  <2> QED
    BY <1>1, <2>1, <2>2
    DEF AskDir, Covered, Due, DepthOf, Reported, Awaits, IsDir, IsKind, Exists, Walking
<1>2. CASE AskFile
  <2>1. answer \in Seq(BOOLEAN) /\ Len(answer) = 1
    BY <1>2 DEF AskFile, ScanInv, Shape
  <2>2. answer'[1] = answer[1] /\ answer'[2] = IsKind(Head(queue), "file")
    <3> DEFINE b == IsKind(Head(queue), "file")
    <3>1. answer' = Append(answer, b) /\ b \in BOOLEAN
      BY <1>2, Answers DEF AskFile
    <3> HIDE DEF b
    <3>2. answer'[1] = answer[1] /\ answer'[2] = b
      BY <2>1, <3>1, Appended, Zenon
    <3> QED
      BY <3>2 DEF b
  <2> QED
    BY <1>2, <2>2
    DEF AskFile, Covered, Due, DepthOf, Reported, Awaits, IsDir, IsKind, Exists, Walking
<1>3. CASE AskLink
  <2>1. stage' \notin {"file", "link", "off"} /\ UNCHANGED <<entries, steady, top, limit>>
    BY <1>3 DEF AskLink, Continue
  <2>2. \A x \in Paths : Due(x)' => Due(x)
    BY <2>1 DEF Due, DepthOf
  <2> QED
    BY <1>3, <2>1, <2>2, AskLinkCovers DEF Covered
<1>4. CASE List
  <2>1. stage' \notin {"file", "link", "off"} /\ UNCHANGED <<entries, steady, top, limit>>
    BY <1>4 DEF List, Continue
  <2>2. \A x \in Paths : Due(x)' => Due(x)
    BY <2>1 DEF Due, DepthOf
  <2> QED
    BY <1>4, <2>1, <2>2, ListCovers DEF Covered, Walking
<1>5. CASE Finish
  BY <1>5 DEF Finish, Covered, Walking
<1>6. ASSUME NEW p \in Paths, NEW n \in Limits \cup {Unlimited}, NEW f \in BOOLEAN, Start(p, n, f)
      PROVE  Covered'
  BY <1>6 DEF Start, Covered, Due, Awaits
<1>7. CASE Disturb
  <2>1. CASE stage = "off"
    BY <1>7, <2>1 DEF Disturb, Covered, Walking
  <2>2. CASE stage # "off"
    <3>1. steady' = {p \in steady \cap DOMAIN entries' : entries'[p] = entries[p]} /\ UNCHANGED walk
      BY <1>7, <2>2 DEF Disturb
    <3>2. ASSUME NEW p \in steady'
          PROVE  IsDir(p)' = IsDir(p) /\ \A k \in Kinds : IsKind(p, k)' = IsKind(p, k)
      BY <3>1, <3>2, Unchanged DEF Covered
    <3>3. ASSUME NEW x \in Paths, Due(x)' PROVE Due(x) /\ x \in steady'
      BY <3>1, <3>3 DEF Due, DepthOf
    <3>4. ASSUME NEW x \in Paths, Due(x)', Walking PROVE Reported(x)' \/ Awaits(x)'
      BY <3>1, <3>2, <3>3, <3>4 DEF Covered, Reported, Awaits, Kinds
    <3> QED
      BY <3>1, <3>2, <3>4 DEF Covered, Walking, Kinds
  <2> QED
    BY <2>1, <2>2
<1>8. CASE UNCHANGED vars
  BY <1>8 DEF vars, Covered, Due, DepthOf, Reported, Awaits, IsDir, IsKind, Exists, Walking
<1> QED
  BY <1>1, <1>2, <1>3, <1>4, <1>5, <1>6, <1>7, <1>8 DEF Next, Scan

\* Whatever else other goroutines change meanwhile, an entry that stays, in
\* directories that stay, is reported by Path.scan as what it is.
THEOREM NothingMissed == ASSUME Careless = {} PROVE Spec => []MissesNothing
<1>1. ScanInit => Inv /\ Covered
  BY InitHolds DEF ScanInit, Covered, Walking
<1>2. Inv /\ [Next]_vars => Inv'
  <2>1. [Next]_vars => [Change]_entries
    BY DEF Next, Scan, Disturb, AskDir, AskFile, AskLink, List, Finish, Start, vars
  <2> QED
    BY <2>1, StepKeeps
<1>3. ScanInv /\ Covered => MissesNothing
  <2> SUFFICES ASSUME ScanInv, Covered, stage = "done", NEW p \in steady, Due(p) PROVE Reported(p)
    BY DEF MissesNothing, Due, Reported, ScanInv, Shape
  <2>1. queue = <<>> /\ Walking /\ p \in Paths
    BY DEF ScanInv, Shape, Walking
  <2>2. ~Awaits(p)
    BY <2>1 DEF Awaits
  <2> QED
    BY <2>1, <2>2 DEF Covered
<1>4. ScanInv /\ Inv /\ Covered /\ [Next]_vars => Covered'
  BY CoveredStep
<1> QED
  BY <1>1, <1>2, <1>3, <1>4, ScanInductive, PTL DEF Spec
=============================================================================
