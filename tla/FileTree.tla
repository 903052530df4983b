------------------------------- MODULE FileTree -------------------------------
(***************************************************************************)
(* What a file system promises, with directories that hold their entries   *)
(* instead of a flat map of paths: a rename changes the place of one node, *)
(* whatever is below it; only a node without children is removed; a file   *)
(* or link may be replaced in its place; new nodes grow below directories. *)
(***************************************************************************)
EXTENDS Naturals, FiniteSets

CONSTANT Nodes

VARIABLE tree    \* from the nodes in use to [kind, up, name]; "/" is its own up

IsRoot(t, n) == t[n].up = n

\* The ancestor of n that is k steps up.
Ancestor(t, n) == LET up[k \in 0..Cardinality(DOMAIN t)] ==
                        IF k = 0 THEN n ELSE t[up[k - 1]].up
                  IN  up[Cardinality(DOMAIN t)]

\* One root, to which every node leads up through directories, and no two
\* nodes of one directory with the same name.
Proper(t) == \E r \in DOMAIN t :
  /\ \A n \in DOMAIN t : /\ t[n].up \in DOMAIN t /\ t[t[n].up].kind = "dir"
                         /\ IsRoot(t, n) => n = r
                         /\ Ancestor(t, n) = r
  /\ \A m, n \in DOMAIN t \ {r} : t[m].up = t[n].up /\ t[m].name = t[n].name => m = n

Init == \E n \in Nodes : tree = [m \in {n} |-> [kind |-> "dir", up |-> n, name |-> "/"]]

\* New nodes; those that are there stay as they are.
Grow == /\ DOMAIN tree \subseteq DOMAIN tree'
        /\ \A n \in DOMAIN tree : tree'[n] = tree[n]

\* A file or link m in the place of the file or link n.
Replace(n, m) == /\ tree[n].kind # "dir"
                 /\ DOMAIN tree' = (DOMAIN tree \ {n}) \cup {m}
                 /\ \A k \in DOMAIN tree \ {n} : tree'[k] = tree[k]
                 /\ tree'[m].kind # "dir"
                 /\ tree'[m].up = tree[n].up /\ tree'[m].name = tree[n].name

Remove(n) == /\ \A m \in DOMAIN tree : tree[m].up # n
             /\ tree' = [m \in DOMAIN tree \ {n} |-> tree[m]]

Move(n) == /\ DOMAIN tree' = DOMAIN tree
           /\ \A m \in DOMAIN tree \ {n} : tree'[m] = tree[m]
           /\ tree'[n].kind = tree[n].kind

Next == /\ Proper(tree')
        /\ \/ Grow
           \/ \E n \in DOMAIN tree : \/ Remove(n) \/ Move(n)
                                     \/ \E m \in Nodes \ DOMAIN tree : Replace(n, m)

Spec == Init /\ [][Next]_tree
=============================================================================
