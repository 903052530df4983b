------------------------------- MODULE PathScan -------------------------------
(***************************************************************************)
(* Path.scan: scanTree walks a MemoryFS breadth first.  It takes the mutex *)
(* anew for each question it asks, so that other goroutines change the     *)
(* file system in between.  MemoryFS answers IsDir only for a directory    *)
(* itself, never through a link: follow_symlinks makes a difference only   *)
(* when a link takes the place of a directory between two questions.       *)
(***************************************************************************)
EXTENDS MemoryFS, SequencesExt

CONSTANTS Limits,     \* the values of max_depth
          Unlimited,  \* a negative one
          MaxChanges  \* bound: changes of the file system in one scan

ASSUME PathScanAssumption == Limits \subseteq Nat \cup {Unlimited} /\ Unlimited \notin Nat
                                                           /\ MaxChanges \in Nat

VARIABLES stage,    \* what scanTree asks next, of the head of queue
          top,      \* the root of the scan
          limit,    \* maxDepth
          follow,   \* followSymlinks
          queue,    \* the nodes to come, as paths
          answer,   \* what IsDir and IsFile said of the head
          visited,  \* the directories that were listed
          out,      \* the entries reported
          changes,  \* how often the map has changed since the scan began
          steady    \* history: the paths whose entry has not

options == <<top, limit, follow>>
walk    == <<stage, options, queue, answer, visited, out>>
history == <<changes, steady>>
vars    == <<entries, walk, history>>

IsKind(p, k) == Exists(p) /\ entries[p].kind = k

ScanInit == /\ Init
            /\ stage = "off" /\ top = Root /\ limit = Unlimited /\ follow = FALSE
            /\ queue = <<>> /\ out = <<>> /\ visited = {}
            /\ answer = <<>>
            /\ changes = 0 /\ steady = {}

Start(p, n, f) == /\ stage = "off"
                  /\ stage' = "dir" /\ top' = p /\ limit' = n /\ follow' = f
                  /\ queue' = <<p>> /\ out' = <<>> /\ visited' = {} /\ answer' = <<>>
                  /\ changes' = 0 /\ steady' = DOMAIN entries
                  /\ UNCHANGED entries

AskDir == /\ stage = "dir"
          /\ stage' = "file"
          /\ answer' = <<IsDir(Head(queue))>>
          /\ UNCHANGED <<entries, options, queue, visited, out, history>>

AskFile == /\ stage = "file"
           /\ stage' = "link"
           /\ answer' = Append(answer, IsKind(Head(queue), "file"))
           /\ UNCHANGED <<entries, options, queue, visited, out, history>>

\* The head leaves the queue; the loop ends with the last one.
Continue(more) == /\ queue' = Tail(queue) \o more
                  /\ stage' = IF queue' = <<>> THEN "done" ELSE "dir"

DepthOf(p) == Len(p) - Len(top)
TooDeep(p) == limit # Unlimited /\ DepthOf(p) >= limit

\* Faulty variants of AskLink and List below, that no specification uses: what
\* is no directory is listed, a directory that is gone ends the scan, "/" is
\* its own child.
AskLinkListing == /\ stage = "link"
                  /\ out' = Append(out, [path |-> Head(queue), dir |-> answer[1],
                                         file |-> answer[2],
                                         link |-> IsKind(Head(queue), "link")])
                  /\ stage' = "list" /\ visited' = visited \cup {Head(queue)}
                  /\ answer' = <<>>
                  /\ UNCHANGED <<entries, options, queue, history>>

ListGivingUp == /\ stage = "list"
                /\ IF IsDir(Head(queue)) THEN Continue(SetToSeq(Children(Head(queue))))
                   ELSE queue' = <<>> /\ stage' = "done"
                /\ UNCHANGED <<entries, options, answer, visited, out, history>>

ListSelf == /\ stage = "list"
            /\ LET p == Head(queue)
               IN  IF IsDir(p)
                   THEN Continue(SetToSeq({q \in DOMAIN entries : Parent(q) = p}))
                   ELSE IF p = top THEN stage' = "raised" /\ UNCHANGED queue
                   ELSE Continue(<<>>)
            /\ UNCHANGED <<entries, options, answer, visited, out, history>>

\* The entry is reported, and listed if it is a directory that may be.
AskLink == /\ stage = "link"
           /\ LET p == Head(queue)
                  isLink == IsKind(p, "link")
              IN  /\ out' = Append(out, [path |-> p, dir |-> answer[1], file |-> answer[2],
                                         link |-> isLink])
                  /\ IF ~answer[1] \/ (isLink /\ ~follow) \/ TooDeep(p) \/ p \in visited
                     THEN Continue(<<>>) /\ UNCHANGED visited
                     ELSE /\ stage' = "list" /\ visited' = visited \cup {p}
                          /\ UNCHANGED queue
           /\ answer' = <<>>
           /\ UNCHANGED <<entries, options, history>>

\* Iterdir: what is no directory any more is skipped, or, at the root of the
\* scan, raised.  The order of the children is that of SetToSeq here.
List == /\ stage = "list"
        /\ LET p == Head(queue)
           IN  IF IsDir(p) THEN Continue(SetToSeq(Children(p)))
               ELSE IF p = top THEN stage' = "raised" /\ UNCHANGED queue
               ELSE Continue(<<>>)
        /\ UNCHANGED <<entries, options, answer, visited, out, history>>

\* The answer is taken; the next call starts from nothing.
Finish == /\ stage \in {"done", "raised"}
          /\ stage' = "off" /\ top' = Root /\ limit' = Unlimited /\ follow' = FALSE
          /\ queue' = <<>> /\ out' = <<>> /\ visited' = {} /\ answer' = <<>>
          /\ changes' = 0 /\ steady' = {}
          /\ UNCHANGED entries

Disturb == /\ Change
           /\ IF stage = "off" THEN UNCHANGED history
              ELSE /\ changes < MaxChanges
                   /\ changes' = changes + 1
                   /\ steady' = {p \in steady \cap DOMAIN entries' : entries'[p] = entries[p]}
           /\ UNCHANGED walk

Scan == \/ AskDir \/ AskFile \/ AskLink \/ List \/ Finish
        \/ \E p \in Paths, n \in Limits \cup {Unlimited}, f \in BOOLEAN : Start(p, n, f)

Next == Scan \/ Disturb
Spec == ScanInit /\ [][Next]_vars

-----------------------------------------------------------------------------
Stages == {"off", "dir", "file", "link", "list", "done", "raised"}

\* The shape of a scan; only a scan of a directory is raised.
ScanTypeOK == /\ stage \in Stages /\ top \in Paths /\ limit \in Limits \cup {Unlimited}
              /\ follow \in BOOLEAN
              /\ queue \in Seq(Paths)
              /\ out \in Seq([path : Paths, dir : BOOLEAN, file : BOOLEAN, link : BOOLEAN])
              /\ visited \subseteq Paths /\ steady \subseteq Paths
              /\ stage = "raised" => out # <<>> /\ changes > 0

\* The paths the scan has reported or will.
Sightings == [i \in DOMAIN out |-> out[i].path] \o (IF stage = "list" THEN Tail(queue) ELSE queue)

\* However the tree changes meanwhile, no path is reported twice.
ReportsOnce == stage \notin {"off", "raised"} =>
                 \A i, j \in DOMAIN Sightings : Sightings[i] = Sightings[j] => i = j

\* Whatever else changes meanwhile, an entry that stays where it is, in
\* directories that stay, is reported as what it is.
MissesNothing == stage = "done" =>
  \A p \in steady :
    /\ Within(p, top) /\ (limit = Unlimited \/ DepthOf(p) <= limit)
    /\ \A q \in Paths : Within(q, top) /\ Within(p, q) => q \in steady
    => \E i \in DOMAIN out : /\ out[i].path = p
                             /\ out[i].dir = IsDir(p)
                             /\ out[i].file = IsKind(p, "file")
                             /\ out[i].link = IsKind(p, "link")
=============================================================================
