---------------------------- MODULE OSHandlerProofs ----------------------------
(***************************************************************************)
(* Proofs about Codec and OSHandler: a value of any shape that goes to Go  *)
(* and comes back is what it was; no OS call is refused by either side;    *)
(* every answer and every exception is true of the files; and answers to   *)
(* different questions agree.  The handler does to the files what MemoryFS *)
(* allows, so that all that is proved about MemoryFS holds here.           *)
(***************************************************************************)
EXTENDS OSHandler, MemoryFSProofs

-----------------------------------------------------------------------------
(* The tables.                                                             *)

ClassKinds == {"class_type", "type", "builtin_function"}

\* What is true of a row of any table: it copies no two fields to one, and the
\* child fields to those of the same name.
IsRow(row) == /\ row = [f \in DOMAIN row |-> row[f]]
              /\ \A f, g \in DOMAIN row : row[f] = row[g] => f = g
              /\ \A f \in DOMAIN row \cap ChildFields : row[f] = f
              /\ \A f \in DOMAIN row : row[f] \in ChildFields => f \in ChildFields

LEMMA SameIsRow == ASSUME NEW S PROVE IsRow(Same(S))
BY DEF IsRow, Same

LEMMA RecordsAreRows ==
  /\ IsRow([name |-> "name", instance_id |-> "id", attrs |-> "attrs"])
  /\ IsRow([exc_type |-> "type", arg |-> "arg"])
  /\ IsRow([string |-> "path"])
  /\ IsRow([name |-> "class_name", class_id |-> "class_id",
            instance_id |-> "id", host_defined |-> "host_defined",
            is_dataclass |-> "is_dataclass",
            class_attrs |-> "class_attrs", attrs |-> "attrs"])
  /\ IsRow([string |-> "path", mode |-> "mode", position |-> "position"])
  /\ IsRow([string |-> "repr"])
  /\ IsRow([days |-> "offset_seconds", timezone_name |-> "name"])
BY DEF IsRow, ChildFields

LEMMA SameTables ==
  /\ GoIn = GoOut
  /\ DOMAIN GoOut = ValueKinds
  /\ DOMAIN RustOut = ValueKinds \cup ClassKinds
  /\ DOMAIN RustIn = ValueKinds \ {"repr", "cycle", "file_handle"}
BY DEF GoIn, GoOut, RustOut, RustIn, ClassKinds

LEMMA RowsRust ==
  ASSUME NEW k \in ValueKinds
  PROVE  RustOut[k] = GoOut[k]
BY DEF GoOut, RustOut, ValueKinds, Scalars

LEMMA RowsRustIn ==
  ASSUME NEW k \in DOMAIN RustIn
  PROVE  RustIn[k] = GoOut[k]
BY DEF GoOut, RustIn, ValueKinds, Scalars

LEMMA RowsClass ==
  ASSUME NEW k \in ClassKinds
  PROVE  RustOut[k] = GoOut["repr"]
BY DEF GoOut, RustOut, ValueKinds, Scalars, ClassKinds

LEMMA RowsAreRows ==
  ASSUME NEW k \in ValueKinds
  PROVE  IsRow(GoOut[k])
BY SameIsRow, RecordsAreRows DEF GoOut, ValueKinds, Scalars

-----------------------------------------------------------------------------
(* The numbers.                                                            *)
LEMMA GoKindsNumbered ==
  /\ DOMAIN GoKinds = 1..30
  /\ \A i \in 1..30 : RustNumber[GoKinds[i]] = i - 1
BY DEF GoKinds, RustNumber

LEMMA GoKindsAre == Range(GoKinds) = ValueKinds \cup {"dataclass"}
<1>1. Range(GoKinds) \subseteq ValueKinds \cup {"dataclass"}
  BY GoKindsNumbered DEF Range, GoKinds, ValueKinds, Scalars
<1>2. ValueKinds \cup {"dataclass"} \subseteq Range(GoKinds)
  BY GoKindsNumbered DEF Range, GoKinds, ValueKinds, Scalars
<1> QED
  BY <1>1, <1>2

\* The constants of wire.go are those of wire.rs.
LEMMA SameNumbers ==
  ASSUME NEW k \in ValueKinds
  PROVE  GoNumber[k] = RustNumber[k] /\ GoNumber[k] \in Nat
<1>1. \E i \in DOMAIN GoKinds : GoKinds[i] = k
  BY GoKindsAre DEF Range
<1> DEFINE i == CHOOSE n \in DOMAIN GoKinds : GoKinds[n] = k
<1>2. i \in 1..30 /\ GoKinds[i] = k
  BY <1>1, GoKindsNumbered
<1>3. GoNumber[k] = i - 1
  BY GoKindsAre DEF GoNumber
<1> HIDE DEF i
<1>4. RustNumber[k] = i - 1
  BY <1>2, GoKindsNumbered
<1> QED
  BY <1>2, <1>3, <1>4

LEMMA NumbersTell ==
  ASSUME NEW j \in ValueKinds, NEW k \in ValueKinds, GoNumber[j] = GoNumber[k]
  PROVE  j = k
<1>1. PICK m \in 1..30 : GoKinds[m] = j
  BY GoKindsAre, GoKindsNumbered DEF Range
<1>2. PICK n \in 1..30 : GoKinds[n] = k
  BY GoKindsAre, GoKindsNumbered DEF Range
<1>3. RustNumber[j] = m - 1 /\ RustNumber[k] = n - 1
  BY <1>1, <1>2, GoKindsNumbered
<1>4. RustNumber[j] = RustNumber[k]
  BY SameNumbers
<1>5. m = n
  BY <1>3, <1>4
<1> QED
  BY <1>1, <1>2, <1>5

\* The kind a value of kind k has once it is read in Go.
InGo == [k \in ValueKinds \cup ClassKinds |-> IF k \in ClassKinds THEN "repr" ELSE k]

LEMMA ClassNumbers ==
  ASSUME NEW k \in ValueKinds \cup ClassKinds
  PROVE  InGo[k] \in ValueKinds /\ RustNumber[k] = RustNumber[InGo[k]]
BY DEF InGo, ClassKinds, RustNumber, ValueKinds

-----------------------------------------------------------------------------
(* A node that crosses.                                                    *)

HasTokens(row, at) == \A f \in DOMAIN row \ ChildFields : IsToken(f, at[row[f]])

LEMMA NodeIs ==
  ASSUME NEW x, NEW table
  PROVE  IsNode(x, table) <=> /\ x.kind \in DOMAIN table
                              /\ x = Node(x.kind, x.at) /\ x.at = [o \in DOMAIN x.at |-> x.at[o]]
                              /\ DOMAIN x.at = PlainOf(table[x.kind])
                              /\ HasTokens(table[x.kind], x.at)
<1>1. x = Node(x.kind, [o \in PlainOf(table[x.kind]) |-> x.at[o]]) =>
        x.at = [o \in PlainOf(table[x.kind]) |-> x.at[o]]
  BY DEF Node
<1> QED
  BY <1>1 DEF IsNode, HasTokens

\* Which kinds the floats are in.
HasFloats(k, row) == \A f \in DOMAIN row : /\ f \in {"real", "imag"} => k # "float"
                                           /\ f = "float" => k = "float"

LEMMA FloatsAre ==
  ASSUME NEW k \in ValueKinds
  PROVE  HasFloats(k, GoOut[k])
BY DEF HasFloats, GoOut, ValueKinds, Scalars, Same

\* The fields of x but for the sign of a float that is zero.
Signless(x) == [o \in DOMAIN x.at |-> IF x.kind = "float" /\ x.at[o] = NegZero THEN Zero
                                      ELSE x.at[o]]

LEMMA NodeCrosses ==
  ASSUME NEW out, NEW in, NEW n, NEW m, NEW x, NEW j, IsNode(x, out),
         IsRow(out[x.kind]), HasFloats(x.kind, out[x.kind]),
         j \in DOMAIN in, in[j] = out[x.kind], m[j] = n[x.kind],
         \A k \in DOMAIN in : m[k] = m[j] => k = j
  PROVE  DecodeNode(EncodeNode(x, n, out), m, in) = Node(j, Signless(x))
<1> DEFINE row   == out[x.kind]
           plain == DOMAIN row \ ChildFields
           sent  == {f \in plain : ~LeftOut(f, x.at[row[f]])}
           y     == EncodeNode(x, n, out)
           of(o) == CHOOSE f \in DOMAIN row : row[f] = o
<1>1. y = Node(n[x.kind], [f \in sent |-> x.at[row[f]]])
  BY DEF EncodeNode
<1>2. (CHOOSE k \in DOMAIN in : m[k] = y.kind) = j
  BY <1>1 DEF Node
<1>3. DecodeNode(y, m, in) = Node(j, [o \in PlainOf(row) |->
                               IF of(o) \in DOMAIN y.at THEN y.at[of(o)] ELSE Unsent(of(o))])
  <2> DEFINE kind == CHOOSE k \in DOMAIN in : m[k] = y.kind
  <2>1. DecodeNode(y, m, in) = Node(kind, [o \in PlainOf(in[kind]) |->
          IF (CHOOSE f \in DOMAIN in[kind] : in[kind][f] = o) \in DOMAIN y.at
          THEN y.at[CHOOSE f \in DOMAIN in[kind] : in[kind][f] = o]
          ELSE Unsent(CHOOSE f \in DOMAIN in[kind] : in[kind][f] = o)])
    BY DEF DecodeNode
  <2>2. kind = j
    BY <1>2
  <2> HIDE DEF kind, y
  <2> QED
    BY <2>1, <2>2
<1>4. DOMAIN x.at = PlainOf(row) /\ PlainOf(row) = {row[f] : f \in plain}
      /\ HasTokens(row, x.at)
  BY NodeIs DEF PlainOf
<1>5. ASSUME NEW f \in plain
      PROVE  (IF of(row[f]) \in DOMAIN y.at THEN y.at[of(row[f])] ELSE Unsent(of(row[f])))
               = IF x.kind = "float" /\ x.at[row[f]] = NegZero THEN Zero ELSE x.at[row[f]]
  <2>1. of(row[f]) = f
    BY DEF IsRow
  <2>2. y.at = [g \in sent |-> x.at[row[g]]]
    BY <1>1 DEF Node
  <2>3. (IF of(row[f]) \in DOMAIN y.at THEN y.at[of(row[f])] ELSE Unsent(of(row[f])))
          = IF ~LeftOut(f, x.at[row[f]]) THEN x.at[row[f]] ELSE Unsent(f)
    BY <2>1, <2>2
  <2>4. IsToken(f, x.at[row[f]])
    BY <1>4 DEF HasTokens
  <2>5. Nil # Zero /\ Nil # NegZero /\ Zero # NegZero
    BY DEF Nil, Zero, NegZero
  <2> DEFINE t == x.at[row[f]]
  <2>6. /\ t = Nil => f \in {"arg", "docstring", "offset_seconds", "timezone_name"}
        /\ t = NegZero => f \in {"float", "real", "imag"}
        /\ f \in {"real", "imag"} => x.kind # "float"
        /\ f = "float" => x.kind = "float"
    BY <2>4 DEF IsToken, HasFloats
  <2> HIDE DEF t
  <2>7. (IF ~LeftOut(f, t) THEN t ELSE Unsent(f)) = IF x.kind = "float" /\ t = NegZero THEN Zero ELSE t
    BY <2>5, <2>6 DEF LeftOut, Unsent, Pointers
  <2> QED
    BY <2>3, <2>7 DEF t
<1> HIDE DEF y, of
<1>6. [o \in PlainOf(row) |->
         IF of(o) \in DOMAIN y.at THEN y.at[of(o)] ELSE Unsent(of(o))] = Signless(x)
  BY <1>4, <1>5 DEF Signless
<1> QED
  BY <1>3, <1>6 DEF y

-----------------------------------------------------------------------------
(* A value that crosses, with whatever is inside it.                       *)

\* The tables out and in and their numbers carry a value of a kind k that to
\* has to one of the kind to[k].
Carry(out, n, in, m, to) ==
  \A k \in DOMAIN to : /\ IsRow(out[k]) /\ HasFloats(k, out[k])
                       /\ to[k] \in DOMAIN in /\ in[to[k]] = out[k] /\ m[to[k]] = n[k]
                       /\ \A j \in DOMAIN in : m[j] = m[to[k]] => j = to[k]

KindsIn(v) == {v[a].kind : a \in DOMAIN v}

LEMMA EncodedKind ==
  ASSUME NEW x, NEW number, NEW table
  PROVE  EncodeNode(x, number, table).kind = number[x.kind]
BY DEF EncodeNode, Node

LEMMA ValueCrosses ==
  ASSUME NEW out, NEW n, NEW in, NEW m, NEW to, Carry(out, n, in, m, to),
         NEW v, IsValue(v, out), KindsIn(v) \subseteq DOMAIN to
  PROVE  /\ Accepts(Encode(v, n, out), m, in)
         /\ Decode(Encode(v, n, out), m, in) = [a \in DOMAIN v |-> Node(to[v[a].kind], Signless(v[a]))]
<1> DEFINE w == Encode(v, n, out)
           d == [a \in DOMAIN w |-> DecodeNode(w[a], m, in)]
<1>1. ASSUME NEW a \in DOMAIN v
      PROVE  /\ IsNode(v[a], out) /\ v[a].kind \in DOMAIN to
             /\ IsRow(out[v[a].kind]) /\ HasFloats(v[a].kind, out[v[a].kind])
             /\ to[v[a].kind] \in DOMAIN in /\ in[to[v[a].kind]] = out[v[a].kind]
             /\ m[to[v[a].kind]] = n[v[a].kind]
             /\ \A j \in DOMAIN in : m[j] = m[to[v[a].kind]] => j = to[v[a].kind]
  BY DEF IsValue, KindsIn, Carry
<1>2. ASSUME NEW a \in DOMAIN v, NEW i \in DOMAIN a
      PROVE  Above(a, i) \in DOMAIN v /\ Copied(out[v[Above(a, i)].kind], a[i][1])
  <2>1. Above(a, i) \in DOMAIN v /\ a[i][1] \in DOMAIN out[v[Above(a, i)].kind] \cap ChildFields
    BY DEF IsValue
  <2>2. IsRow(out[v[Above(a, i)].kind])
    BY <1>1, <2>1
  <2> QED
    BY <2>1, <2>2 DEF Copied, IsRow
<1>3. Copying(v, out) = DOMAIN v
  BY <1>2 DEF Copying
<1>4. DOMAIN w = DOMAIN v /\ \A a \in DOMAIN v : w[a] = EncodeNode(v[a], n, out)
  BY <1>3 DEF Encode
<1>5. ASSUME NEW a \in DOMAIN v
      PROVE  DecodeNode(w[a], m, in) = Node(to[v[a].kind], Signless(v[a]))
  <2>1. w[a] = EncodeNode(v[a], n, out)
    BY <1>4
  <2> QED
    BY <1>1, <2>1, NodeCrosses
<1>6. Decode(w, m, in) = [a \in Copying(d, in) |-> d[a]]
  BY DEF Decode
<1>7. DOMAIN d = DOMAIN v /\ \A a \in DOMAIN v : d[a] = Node(to[v[a].kind], Signless(v[a]))
  BY <1>4, <1>5
<1> HIDE DEF d
<1>8. ASSUME NEW a \in DOMAIN v, NEW i \in DOMAIN a
      PROVE  Copied(in[d[Above(a, i)].kind], a[i][1])
  <2>1. Above(a, i) \in DOMAIN v /\ Copied(out[v[Above(a, i)].kind], a[i][1])
    BY <1>2
  <2>2. d[Above(a, i)].kind = to[v[Above(a, i)].kind]
    BY <1>7, <2>1 DEF Node
  <2> QED
    BY <1>1, <2>1, <2>2
<1>9. Copying(d, in) = DOMAIN v
  BY <1>7, <1>8 DEF Copying
<1>10. ASSUME NEW a \in DOMAIN w
       PROVE  \E k \in DOMAIN in : m[k] = w[a].kind
  <2>1. w[a].kind = n[v[a].kind]
    BY <1>4, EncodedKind
  <2> QED
    BY <1>1, <1>4, <2>1
<1>11. Accepts(w, m, in)
  BY <1>10 DEF Accepts
<1> HIDE DEF w
<1>12. Decode(w, m, in) = [a \in DOMAIN v |-> Node(to[v[a].kind], Signless(v[a]))]
  BY <1>6, <1>7, <1>9
<1> QED
  BY <1>11, <1>12 DEF w

LEMMA ToGoCarries == Carry(RustOut, RustNumber, GoIn, GoNumber, InGo)
<1> SUFFICES ASSUME NEW k \in ValueKinds \cup ClassKinds
             PROVE  /\ IsRow(RustOut[k]) /\ HasFloats(k, RustOut[k])
                    /\ InGo[k] \in ValueKinds /\ GoOut[InGo[k]] = RustOut[k]
                    /\ GoNumber[InGo[k]] = RustNumber[k]
                    /\ \A j \in ValueKinds : GoNumber[j] = GoNumber[InGo[k]] => j = InGo[k]
  BY SameTables DEF Carry, InGo
<1>1. InGo[k] \in ValueKinds /\ RustNumber[k] = RustNumber[InGo[k]]
  BY ClassNumbers
<1>2. GoNumber[InGo[k]] = RustNumber[k]
  BY <1>1, SameNumbers
<1>3. \A j \in ValueKinds : GoNumber[j] = GoNumber[InGo[k]] => j = InGo[k]
  BY <1>1, NumbersTell
<1>4. GoOut[InGo[k]] = RustOut[k]
  BY RowsRust, RowsClass DEF InGo, ClassKinds
<1>5. IsRow(RustOut[k])
  BY <1>1, <1>4, RowsAreRows
<1>6. HasFloats(k, RustOut[k])
  <2>1. CASE k \in ClassKinds
    <3>1. RustOut[k] = [string |-> "repr"]
      BY <2>1 DEF RustOut, ClassKinds, ValueKinds, Scalars
    <3> QED
      BY <3>1 DEF HasFloats
  <2>2. CASE k \in ValueKinds
    BY <2>2, RowsRust, FloatsAre
  <2> QED
    BY <2>1, <2>2
<1> QED
  BY <1>1, <1>2, <1>3, <1>4, <1>5, <1>6

\* The kinds that Rust takes from Go.
Stays == [k \in DOMAIN RustIn |-> k]

LEMMA ToRustCarries == Carry(GoOut, GoNumber, RustIn, RustNumber, Stays)
<1> SUFFICES ASSUME NEW k \in DOMAIN RustIn
             PROVE  /\ IsRow(GoOut[k]) /\ HasFloats(k, GoOut[k])
                    /\ RustIn[k] = GoOut[k] /\ RustNumber[k] = GoNumber[k]
                    /\ \A j \in DOMAIN RustIn : RustNumber[j] = RustNumber[k] => j = k
  BY DEF Carry, Stays
<1>1. k \in ValueKinds /\ DOMAIN RustIn \subseteq ValueKinds
  BY SameTables
<1>2. \A j \in DOMAIN RustIn : RustNumber[j] = RustNumber[k] => j = k
  BY <1>1, SameNumbers, NumbersTell
<1> QED
  BY <1>1, <1>2, RowsAreRows, FloatsAre, RowsRustIn, SameNumbers

-----------------------------------------------------------------------------
(* There and back.                                                         *)

\* A value of Rust as Go has it.
GoHas(v) == [a \in DOMAIN v |-> Node(InGo[v[a].kind], Signless(v[a]))]

LEMMA ArrivesInGo ==
  ASSUME NEW v, IsValue(v, RustOut)
  PROVE  GoAccepts(FromRust(v)) /\ ToGo(FromRust(v)) = GoHas(v)
<1>1. KindsIn(v) \subseteq DOMAIN InGo
  BY SameTables DEF IsValue, IsNode, KindsIn, InGo
<1> QED
  BY <1>1, ToGoCarries, ValueCrosses DEF GoAccepts, FromRust, ToGo, GoHas

LEMMA GoHasValue ==
  ASSUME NEW v, IsValue(v, RustOut)
  PROVE  IsValue(GoHas(v), GoOut)
<1> DEFINE g == GoHas(v)
<1>1. /\ DOMAIN g = DOMAIN v /\ g = [a \in DOMAIN g |-> g[a]] /\ <<>> \in DOMAIN g
      /\ \A a \in DOMAIN v : g[a] = Node(InGo[v[a].kind], Signless(v[a]))
  BY DEF GoHas, IsValue
<1> HIDE DEF g
<1>2. ASSUME NEW a \in DOMAIN v
      PROVE  /\ IsNode(v[a], RustOut)
             /\ g[a].kind = InGo[v[a].kind] /\ InGo[v[a].kind] \in ValueKinds
             /\ GoOut[InGo[v[a].kind]] = RustOut[v[a].kind]
  <2>1. IsNode(v[a], RustOut)
    BY DEF IsValue
  <2>2. v[a].kind \in ValueKinds \cup ClassKinds
    BY <2>1, SameTables DEF IsNode
  <2>3. InGo[v[a].kind] \in DOMAIN GoIn /\ GoIn[InGo[v[a].kind]] = RustOut[v[a].kind]
    BY <2>2, ToGoCarries DEF Carry, InGo
  <2>4. g[a].kind = InGo[v[a].kind]
    BY <1>1 DEF Node
  <2> QED
    BY <2>1, <2>3, <2>4, SameTables
<1>3. ASSUME NEW a \in DOMAIN v
      PROVE  IsNode(g[a], GoOut)
  <2>1. /\ g[a] = Node(g[a].kind, Signless(v[a])) /\ g[a].at = Signless(v[a])
        /\ GoOut[g[a].kind] = RustOut[v[a].kind] /\ g[a].kind \in DOMAIN GoOut
    BY <1>1, <1>2, SameTables DEF Node
  <2>2. DOMAIN v[a].at = PlainOf(RustOut[v[a].kind]) /\ HasTokens(RustOut[v[a].kind], v[a].at)
    BY <1>2, NodeIs
  <2>3. DOMAIN Signless(v[a]) = DOMAIN v[a].at /\ Signless(v[a]) = [o \in DOMAIN v[a].at |-> Signless(v[a])[o]]
    BY DEF Signless
  <2>4. ASSUME NEW f \in DOMAIN RustOut[v[a].kind] \ ChildFields
        PROVE  IsToken(f, Signless(v[a])[RustOut[v[a].kind][f]])
    <3>1. Signless(v[a])[RustOut[v[a].kind][f]] \in {Zero, v[a].at[RustOut[v[a].kind][f]]}
      BY <2>2 DEF Signless, PlainOf
    <3>2. IsToken(f, Zero)
      BY DEF IsToken, Zero, Nil, NegZero
    <3>3. IsToken(f, v[a].at[RustOut[v[a].kind][f]])
      BY <2>2 DEF HasTokens
    <3> QED
      BY <3>1, <3>2, <3>3
  <2>5. HasTokens(GoOut[g[a].kind], g[a].at)
    BY <2>1, <2>4 DEF HasTokens
  <2> QED
    BY <2>1, <2>2, <2>3, <2>5, NodeIs
<1>4. ASSUME NEW a \in DOMAIN g
      PROVE  /\ IsNode(g[a], GoOut)
             /\ \A i \in DOMAIN a : /\ Above(a, i) \in DOMAIN g
                                   /\ a[i][1] \in DOMAIN GoOut[g[Above(a, i)].kind] \cap ChildFields
  <2>1. IsNode(g[a], GoOut)
    BY <1>1, <1>3
  <2>2. ASSUME NEW i \in DOMAIN a
        PROVE  /\ Above(a, i) \in DOMAIN g
               /\ a[i][1] \in DOMAIN GoOut[g[Above(a, i)].kind] \cap ChildFields
    <3>1. /\ Above(a, i) \in DOMAIN v
          /\ a[i][1] \in DOMAIN RustOut[v[Above(a, i)].kind] \cap ChildFields
      BY <1>1 DEF IsValue
    <3>2. GoOut[g[Above(a, i)].kind] = RustOut[v[Above(a, i)].kind]
      BY <1>2, <3>1
    <3> QED
      BY <1>1, <3>1, <3>2
  <2> QED
    BY <2>1, <2>2
<1> QED
  BY <1>1, <1>4 DEF IsValue, g

LEMMA ArrivesInRust ==
  ASSUME NEW g, IsValue(g, GoOut), KindsIn(g) \subseteq DOMAIN RustIn
  PROVE  /\ RustAccepts(FromGo(g))
         /\ ToRust(FromGo(g)) = [a \in DOMAIN g |-> Node(g[a].kind, Signless(g[a]))]
<1>1. KindsIn(g) \subseteq DOMAIN Stays
  BY DEF Stays
<1>2. /\ RustAccepts(FromGo(g))
      /\ ToRust(FromGo(g)) = [a \in DOMAIN g |-> Node(Stays[g[a].kind], Signless(g[a]))]
  BY <1>1, ToRustCarries, ValueCrosses DEF RustAccepts, FromGo, ToRust
<1>3. \A a \in DOMAIN g : Stays[g[a].kind] = g[a].kind
  BY DEF Stays, KindsIn
<1> QED
  BY <1>2, <1>3

\* What no side changes or refuses: the values of these kinds, with no float of
\* -0.0.
CleanKinds == DOMAIN RustIn \ {"class_instance"}
IsClean(v) == /\ IsValue(v, GoOut)
              /\ KindsIn(v) \subseteq CleanKinds
              /\ \A a \in DOMAIN v : Signless(v[a]) = v[a].at

LEMMA CleanIsSame ==
  ASSUME NEW v, IsClean(v)
  PROVE  /\ IsValue(v, RustOut)
         /\ GoAccepts(FromRust(v)) /\ ToGo(FromRust(v)) = v
         /\ Taken(v) /\ ToRust(FromGo(v)) = v
<1>1. ASSUME NEW a \in DOMAIN v
      PROVE  /\ v[a].kind \in ValueKinds \ ClassKinds /\ RustOut[v[a].kind] = GoOut[v[a].kind]
             /\ v[a] = Node(v[a].kind, Signless(v[a]))
             /\ v[a].kind \in DOMAIN RustOut
  <2>1. v[a].kind \in ValueKinds
    BY SameTables DEF IsClean, KindsIn, CleanKinds
  <2>2. v[a].kind \notin ClassKinds
    BY <2>1 DEF ClassKinds, ValueKinds, Scalars
  <2>3. v[a] = Node(v[a].kind, v[a].at)
    BY NodeIs DEF IsClean, IsValue
  <2> QED
    BY <2>1, <2>2, <2>3, RowsRust, SameTables DEF IsClean, CleanKinds
<1>2. IsValue(v, RustOut)
  BY <1>1 DEF IsClean, IsValue, IsNode
<1>3. \A a \in DOMAIN v : Node(InGo[v[a].kind], Signless(v[a])) = v[a]
  BY <1>1 DEF InGo
<1>4. v = [a \in DOMAIN v |-> v[a]]
  BY DEF IsClean, IsValue
<1>5. GoAccepts(FromRust(v)) /\ ToGo(FromRust(v)) = v
  BY <1>2, <1>3, <1>4, ArrivesInGo DEF GoHas
<1>6. \A a \in DOMAIN v : Node(v[a].kind, Signless(v[a])) = v[a]
  BY <1>1
<1>7. RustAccepts(FromGo(v)) /\ ToRust(FromGo(v)) = v
  <2>1. IsValue(v, GoOut) /\ KindsIn(v) \subseteq DOMAIN RustIn
    BY DEF IsClean, CleanKinds
  <2> QED
    BY <1>4, <1>6, <2>1, ArrivesInRust
<1>8. Admits(v)
  BY DEF IsClean, KindsIn, CleanKinds, Admits
<1> QED
  BY <1>2, <1>5, <1>7, <1>8 DEF Taken

-----------------------------------------------------------------------------
(* The values of the calls and answers.                                    *)

LEMMA CleanLeaf ==
  ASSUME NEW k \in CleanKinds, NEW at, at = [o \in PlainOf(GoOut[k]) |-> at[o]],
         HasTokens(GoOut[k], at), k = "float" => \A o \in PlainOf(GoOut[k]) : at[o] # NegZero
  PROVE  IsClean(Leaf(k, at)) /\ DOMAIN Leaf(k, at) = {<<>>} /\ Leaf(k, at)[<<>>] = Node(k, at)
<1> DEFINE v == Leaf(k, at)
<1>1. DOMAIN v = {<<>>} /\ v[<<>>] = Node(k, at) /\ v = [a \in DOMAIN v |-> v[a]]
  BY DEF Leaf
<1> HIDE DEF v
<1>2. Node(k, at).kind = k /\ Node(k, at).at = at
  BY DEF Node
<1>3. k \in DOMAIN GoOut
  BY SameTables DEF CleanKinds
<1>4. IsNode(Node(k, at), GoOut)
  BY <1>2, <1>3, NodeIs
<1>5. IsValue(v, GoOut)
  BY <1>1, <1>4 DEF IsValue
<1>6. Signless(Node(k, at)) = at
  BY <1>2 DEF Signless
<1>7. IsClean(v)
  BY <1>1, <1>2, <1>5, <1>6 DEF IsClean, KindsIn
<1> QED
  BY <1>1, <1>7 DEF v

\* The kinds of the plain values, each with one field.
OneField == [path |-> "path", string |-> "string", bytes |-> "bytes", bool |-> "bool",
             int |-> "int", float |-> "float"]

LEMMA OneFieldIs ==
  ASSUME NEW k \in DOMAIN OneField
  PROVE  /\ k \in CleanKinds
         /\ PlainOf(GoOut[k]) = {OneField[k]}
         /\ \A f \in DOMAIN GoOut[k] : f \notin {"arg", "docstring", "offset_seconds", "timezone_name"}
<1>1. k \in ValueKinds \ {"repr", "cycle", "file_handle"} /\ k # "class_instance"
  BY DEF OneField, ValueKinds, Scalars
<1>2. CASE k = "path"
  BY <1>1, <1>2, SameTables DEF GoOut, PlainOf, OneField, ChildFields, Scalars, CleanKinds
<1>3. CASE k # "path"
  <2>1. k \in Scalars /\ OneField[k] = k /\ k \notin ChildFields
    BY <1>3 DEF OneField, Scalars, ChildFields
  <2>2. GoOut[k] = Same({k})
    BY <1>1, <2>1 DEF GoOut, Scalars
  <2> QED
    BY <1>1, <1>3, <2>1, <2>2, SameTables DEF PlainOf, Same, OneField, CleanKinds
<1> QED
  BY <1>2, <1>3

LEMMA CleanPlain ==
  ASSUME NEW k \in DOMAIN OneField, NEW t, t \notin {Nil, NegZero}
  PROVE  /\ IsClean(Plain(k, OneField[k], t)) /\ DOMAIN Plain(k, OneField[k], t) = {<<>>}
         /\ Plain(k, OneField[k], t)[<<>>] = Node(k, [o \in {OneField[k]} |-> t])
<1> DEFINE at == [o \in {OneField[k]} |-> t]
<1>1. HasTokens(GoOut[k], at)
  BY OneFieldIs DEF HasTokens, IsToken, PlainOf
<1>2. at = [o \in PlainOf(GoOut[k]) |-> at[o]] /\ \A o \in PlainOf(GoOut[k]) : at[o] # NegZero
  BY OneFieldIs
<1> HIDE DEF at
<1>3. IsClean(Leaf(k, at)) /\ DOMAIN Leaf(k, at) = {<<>>} /\ Leaf(k, at)[<<>>] = Node(k, at)
  BY <1>1, <1>2, OneFieldIs, CleanLeaf
<1> QED
  BY <1>3 DEF Plain, Node, at

\* Values with nothing inside, and where they are in the field f of a value.
AreLeaves(vs)    == \A i \in DOMAIN vs : IsClean(vs[i]) /\ DOMAIN vs[i] = {<<>>}
Places(f, vs)    == {<< <<f, i>> >> : i \in DOMAIN vs}
Holds(v, f, vs)  == \A i \in DOMAIN vs : v[<< <<f, i>> >>] = vs[i][<<>>]

LEMMA CleanHolding ==
  ASSUME NEW k \in CleanKinds, NEW at, at = [o \in PlainOf(GoOut[k]) |-> at[o]],
         HasTokens(GoOut[k], at), k # "float",
         NEW f \in DOMAIN GoOut[k] \cap ChildFields, NEW vs, AreLeaves(vs)
  PROVE  /\ IsClean(Holding(k, at, f, vs))
         /\ DOMAIN Holding(k, at, f, vs) = {<<>>} \cup Places(f, vs)
         /\ Holds(Holding(k, at, f, vs), f, vs)
<1> DEFINE v    == Holding(k, at, f, vs)
           kids == [o \in {f} |-> vs]
           held == {<< <<f, i>> >> : i \in DOMAIN vs}
<1> USE DEF AreLeaves
<1>1. v = [a \in {<<>>} \cup UNION {Below(kids[g], g) : g \in DOMAIN kids} |->
             IF a = <<>> THEN Node(k, at) ELSE kids[a[1][1]][a[1][2]][Tail(a)]]
  BY DEF Holding, Value
<1>2. UNION {Below(kids[g], g) : g \in DOMAIN kids} = held
  <2>1. \A i \in DOMAIN vs : << <<f, i>> >> \o <<>> = << <<f, i>> >>
    OBVIOUS
  <2>2. ASSUME NEW x
        PROVE  x \in Below(vs, f) <=> x \in held
    <3> DEFINE under(i) == {<< <<f, i>> >> \o b : b \in DOMAIN vs[i]}
    <3>1. Below(vs, f) = UNION {under(i) : i \in DOMAIN vs}
      BY DEF Below
    <3>2. \A i \in DOMAIN vs : x \in under(i) <=> \E b \in DOMAIN vs[i] : x = << <<f, i>> >> \o b
      OBVIOUS
    <3> HIDE DEF under
    <3>3. x \in Below(vs, f) <=> \E i \in DOMAIN vs : x \in under(i)
      BY <3>1
    <3>4. x \in Below(vs, f) <=> \E i \in DOMAIN vs : \E b \in DOMAIN vs[i] : x = << <<f, i>> >> \o b
      BY <3>2, <3>3
    <3>5. ASSUME NEW i \in DOMAIN vs
          PROVE  (\E b \in DOMAIN vs[i] : x = << <<f, i>> >> \o b) <=> x = << <<f, i>> >>
      BY <2>1
    <3> QED
      BY <3>4, <3>5
  <2>3. Below(vs, f) = held
    BY <2>2
  <2>4. DOMAIN kids = {f} /\ kids[f] = vs
    OBVIOUS
  <2> HIDE DEF kids, held
  <2>5. UNION {Below(kids[g], g) : g \in DOMAIN kids} = Below(vs, f)
    BY <2>4
  <2> QED
    BY <2>3, <2>5
<1>3. v = [a \in {<<>>} \cup held |-> IF a = <<>> THEN Node(k, at) ELSE kids[a[1][1]][a[1][2]][Tail(a)]]
  BY <1>1, <1>2, Zenon
<1> HIDE DEF v
<1>4. DOMAIN v = {<<>>} \cup held /\ v[<<>>] = Node(k, at) /\ v = [a \in DOMAIN v |-> v[a]]
  BY <1>3
<1>5. ASSUME NEW i \in DOMAIN vs
      PROVE  v[<< <<f, i>> >>] = vs[i][<<>>]
  <2>1. << <<f, i>> >> # <<>> /\ Tail(<< <<f, i>> >>) = <<>>
    OBVIOUS
  <2>2. << <<f, i>> >> \in held
    OBVIOUS
  <2>3. v[<< <<f, i>> >>] = kids[f][i][<<>>]
    BY <1>3, <2>1, <2>2
  <2> QED
    BY <2>3
<1>6. ASSUME NEW i \in DOMAIN vs
      PROVE  /\ IsNode(vs[i][<<>>], GoOut) /\ vs[i][<<>>].kind \in CleanKinds
             /\ Signless(vs[i][<<>>]) = vs[i][<<>>].at
  BY DEF IsClean, IsValue, KindsIn
<1>7. Node(k, at).kind = k /\ Node(k, at).at = at /\ k \in DOMAIN GoOut
  BY SameTables DEF Node, CleanKinds
<1>8. /\ IsNode(Node(k, at), GoOut) /\ Signless(Node(k, at)) = at
  BY <1>7, NodeIs DEF Signless
<1>9. ASSUME NEW a \in DOMAIN v
      PROVE  /\ IsNode(v[a], GoOut) /\ v[a].kind \in CleanKinds /\ Signless(v[a]) = v[a].at
             /\ \A j \in DOMAIN a : /\ Above(a, j) \in DOMAIN v
                                   /\ a[j][1] \in DOMAIN GoOut[v[Above(a, j)].kind] \cap ChildFields
  <2>1. CASE a = <<>>
    BY <1>4, <1>7, <1>8, <2>1
  <2>2. ASSUME NEW i \in DOMAIN vs, a = << <<f, i>> >>
        PROVE  /\ IsNode(v[a], GoOut) /\ v[a].kind \in CleanKinds /\ Signless(v[a]) = v[a].at
               /\ \A j \in DOMAIN a : /\ Above(a, j) \in DOMAIN v
                                     /\ a[j][1] \in DOMAIN GoOut[v[Above(a, j)].kind] \cap ChildFields
    <3>1. DOMAIN a = {1} /\ a[1][1] = f
      BY <2>2
    <3>2. Above(a, 1) = <<>>
      BY <2>2 DEF Above
    <3>3. v[a] = vs[i][<<>>]
      BY <1>5, <2>2
    <3>4. a[1][1] \in DOMAIN GoOut[v[Above(a, 1)].kind] \cap ChildFields
      BY <1>4, <1>7, <3>1, <3>2
    <3>5. \A j \in DOMAIN a : /\ Above(a, j) \in DOMAIN v
                              /\ a[j][1] \in DOMAIN GoOut[v[Above(a, j)].kind] \cap ChildFields
      BY <1>4, <3>1, <3>2, <3>4
    <3> QED
      BY <1>6, <3>3, <3>5
  <2> QED
    BY <1>4, <2>1, <2>2
<1>10. IsValue(v, GoOut)
  BY <1>4, <1>9 DEF IsValue
<1>11. IsClean(v)
  BY <1>9, <1>10 DEF IsClean, KindsIn
<1> QED
  BY <1>4, <1>5, <1>11 DEF v, Places, Holds

-----------------------------------------------------------------------------
(* Calls.                                                                  *)
LEMMA PathTokens ==
  ASSUME NEW p \in Paths
  PROVE  /\ PathToken(p) \notin {Zero, Nil, NegZero} /\ Tail(PathToken(p)) = p
<1>1. p \in Seq(Names)
  BY PathsAreSequences
<1>2. p \in Seq(Names \cup {"/"}) /\ <<"/">> \in Seq(Names \cup {"/"})
  BY <1>1
<1>3. PathToken(p)[1] = "/" /\ Tail(PathToken(p)) = p
  BY <1>2 DEF PathToken
<1> QED
  BY <1>3 DEF Zero, Nil, NegZero

LEMMA SomeTokens ==
  /\ {Zero, Some, Binary, <<"parents">>, <<"exist_ok">>, <<"HOME">>, <<"/home">>, <<"StatResult">>}
       \cap {Nil, NegZero} = {}
  /\ Zero # Some /\ Zero # Binary /\ Some # Binary
BY DEF Zero, Some, Binary, Nil, NegZero

LEMMA PathValueIs ==
  ASSUME NEW p \in Paths
  PROVE  /\ IsClean(PathValue(p)) /\ DOMAIN PathValue(p) = {<<>>}
         /\ Raw(PathValue(p)) = PathToken(p)
<1>1. "path" \in DOMAIN OneField /\ OneField["path"] = "path"
  BY DEF OneField
<1>2. /\ IsClean(Plain("path", "path", PathToken(p))) /\ DOMAIN Plain("path", "path", PathToken(p)) = {<<>>}
      /\ Plain("path", "path", PathToken(p))[<<>>] = Node("path", [o \in {"path"} |-> PathToken(p)])
  BY <1>1, PathTokens, CleanPlain
<1> QED
  BY <1>2 DEF PathValue, Raw, Node

\* Str, Integer, Bool and bytes.
LEMMA PlainIs ==
  ASSUME NEW k \in {"string", "bytes", "int", "bool", "float"}, NEW t, t \notin {Nil, NegZero}
  PROVE  /\ IsClean(Plain(k, k, t)) /\ DOMAIN Plain(k, k, t) = {<<>>}
         /\ Raw(Plain(k, k, t)) = t
<1>1. k \in DOMAIN OneField /\ OneField[k] = k
  BY DEF OneField
<1>2. /\ IsClean(Plain(k, k, t)) /\ DOMAIN Plain(k, k, t) = {<<>>}
      /\ Plain(k, k, t)[<<>>] = Node(k, [o \in {k} |-> t])
  BY <1>1, CleanPlain
<1> QED
  BY <1>2 DEF Raw, Node

LEMMA BoolIs ==
  ASSUME NEW b \in BOOLEAN
  PROVE  IsClean(Bool(b)) /\ (b <=> Bool(b) = Bool(TRUE))
<1>1. /\ IsClean(Plain("bool", "bool", Some)) /\ Raw(Plain("bool", "bool", Some)) = Some
      /\ IsClean(Plain("bool", "bool", Zero)) /\ Raw(Plain("bool", "bool", Zero)) = Zero
  BY PlainIs, SomeTokens
<1> QED
  BY <1>1, SomeTokens DEF Bool

\* What a call is made of when it reaches Go as it was.
IsCall(c) == /\ c = Call(c.fn, c.args, c.kwargs)
             /\ c.args = [i \in DOMAIN c.args |-> c.args[i]]
             /\ c.kwargs = [i \in DOMAIN c.kwargs |-> c.kwargs[i]]
             /\ \A i \in DOMAIN c.args : IsClean(c.args[i])
             /\ \A i \in DOMAIN c.kwargs : IsClean(c.kwargs[i])

LEMMA CallArrives ==
  ASSUME NEW c, IsCall(c)
  PROVE  Arrives(c) /\ Received(c) = c
<1>1. /\ DOMAIN Sent(c).args = DOMAIN c.args /\ DOMAIN Sent(c).kwargs = DOMAIN c.kwargs
      /\ \A i \in DOMAIN c.args : Sent(c).args[i] = FromRust(c.args[i])
      /\ \A i \in DOMAIN c.kwargs : Sent(c).kwargs[i] = FromRust(c.kwargs[i])
  BY DEF Sent, IsCall, Call
<1>2. \A i \in DOMAIN c.args : GoAccepts(Sent(c).args[i]) /\ ToGo(Sent(c).args[i]) = c.args[i]
  BY <1>1, CleanIsSame DEF IsCall
<1>3. \A i \in DOMAIN c.kwargs : GoAccepts(Sent(c).kwargs[i]) /\ ToGo(Sent(c).kwargs[i]) = c.kwargs[i]
  BY <1>1, CleanIsSame DEF IsCall
<1>4. Arrives(c)
  BY <1>1, <1>2, <1>3 DEF Arrives, Range
<1>5. /\ [i \in DOMAIN c.args |-> ToGo(Sent(c).args[i])] = c.args
      /\ [i \in DOMAIN c.kwargs |-> ToGo(Sent(c).kwargs[i])] = c.kwargs
  BY <1>2, <1>3 DEF IsCall
<1>6. Received(c) = [c EXCEPT !.args = c.args, !.kwargs = c.kwargs]
  BY <1>5 DEF Received
<1>7. [c EXCEPT !.args = c.args, !.kwargs = c.kwargs] = c
  BY DEF IsCall, Call
<1> QED
  BY <1>4, <1>6, <1>7

LEMMA RootIsPath == Root \in Paths
<1>1. Root \in Seq(Names) /\ Len(Root) = 0
  BY DEF Root
<1>2. Len(Root) <= Depth
  BY <1>1, MemoryFSAssumption
<1> QED
  BY <1>1, <1>2, SequencesArePaths

LEMMA PathArgIs ==
  ASSUME NEW a \in PathArgs
  PROVE  IsClean(a) /\ (IF Raw(a) = Zero THEN Root ELSE Tail(Raw(a))) \in Paths
<1>1. CASE a = Str(Zero)
  BY <1>1, PlainIs, SomeTokens, RootIsPath DEF Str
<1>2. ASSUME NEW p \in Paths, a = PathValue(p)
      PROVE  IsClean(a) /\ (IF Raw(a) = Zero THEN Root ELSE Tail(Raw(a))) \in Paths
  BY <1>2, PathValueIs, PathTokens
<1> QED
  BY <1>1, <1>2 DEF PathArgs

LEMMA FlagsAre ==
  ASSUME NEW kwargs \in Flags
  PROVE  kwargs = [i \in DOMAIN kwargs |-> kwargs[i]] /\ \A i \in DOMAIN kwargs : IsClean(kwargs[i])
<1>1. CASE kwargs = <<>>
  BY <1>1
<1>2. ASSUME NEW x \in BOOLEAN, NEW y \in BOOLEAN,
             kwargs = <<Str(<<"parents">>), Bool(x), Str(<<"exist_ok">>), Bool(y)>>
      PROVE  kwargs = [i \in DOMAIN kwargs |-> kwargs[i]] /\ \A i \in DOMAIN kwargs : IsClean(kwargs[i])
  <2>1. IsClean(Str(<<"parents">>)) /\ IsClean(Str(<<"exist_ok">>)) /\ IsClean(Bool(x)) /\ IsClean(Bool(y))
    BY PlainIs, SomeTokens, BoolIs DEF Str
  <2>2. DOMAIN kwargs = 1..4
    BY <1>2
  <2> QED
    BY <1>2, <2>1, <2>2
<1> QED
  BY <1>1, <1>2 DEF Flags

\* A call of a path function, as the signatures have it.
PathCallOf(c) ==
  /\ IsCall(c) /\ c.fn \in PathOps
  /\ 1 \in DOMAIN c.args /\ PathArg(c, 1) \in Paths
  /\ c.fn = "rename" => PathArg(c, 2) \in Paths
  /\ c.fn = "write_text"  => \E t \in {Zero, Some} : c.args[2] = Plain("string", "string", t)
  /\ c.fn = "write_bytes" => \E t \in {Zero, Some, Binary} : c.args[2] = Plain("bytes", "bytes", t)

LEMMA OnePath ==
  ASSUME NEW fn \in PathOps \ {"write_text", "write_bytes", "rename"}, NEW a \in PathArgs, NEW kwargs \in Flags
  PROVE  PathCallOf(Call(fn, <<a>>, kwargs))
<1> DEFINE c == Call(fn, <<a>>, kwargs)
<1>1. c.fn = fn /\ c.args = <<a>> /\ c.kwargs = kwargs
  BY DEF Call
<1>2. <<a>> = [i \in DOMAIN <<a>> |-> <<a>>[i]] /\ DOMAIN <<a>> = {1} /\ <<a>>[1] = a
  OBVIOUS
<1> HIDE DEF c
<1>3. PathArg(c, 1) \in Paths
  BY <1>1, <1>2, PathArgIs DEF PathArg
<1>4. IsCall(c)
  BY <1>1, <1>2, PathArgIs, FlagsAre DEF IsCall, c
<1> QED
  BY <1>1, <1>2, <1>3, <1>4 DEF PathCallOf, c

LEMMA TwoArgs ==
  ASSUME NEW fn, NEW a, NEW b, IsClean(a), IsClean(b)
  PROVE  /\ IsCall(Call(fn, <<a, b>>, <<>>)) /\ 1 \in DOMAIN Call(fn, <<a, b>>, <<>>).args
         /\ Call(fn, <<a, b>>, <<>>).fn = fn
         /\ Call(fn, <<a, b>>, <<>>).args[1] = a /\ Call(fn, <<a, b>>, <<>>).args[2] = b
<1> DEFINE c == Call(fn, <<a, b>>, <<>>)
<1>1. c.fn = fn /\ c.args = <<a, b>> /\ c.kwargs = <<>>
  BY DEF Call
<1>2. /\ <<a, b>> = [i \in DOMAIN <<a, b>> |-> <<a, b>>[i]] /\ DOMAIN <<a, b>> = {1, 2}
      /\ <<a, b>>[1] = a /\ <<a, b>>[2] = b /\ <<>> = [i \in DOMAIN <<>> |-> <<>>[i]] /\ DOMAIN <<>> = {}
  OBVIOUS
<1> HIDE DEF c
<1>3. IsCall(c)
  BY <1>1, <1>2 DEF IsCall, c
<1> QED
  BY <1>1, <1>2, <1>3 DEF c

LEMMA PathCallIs ==
  ASSUME NEW c \in PathCalls
  PROVE  PathCallOf(c)
<1>1. ASSUME NEW fn \in PathOps \ (Changes \ {"unlink", "rmdir"}), NEW a \in PathArgs,
             c = Call(fn, <<a>>, <<>>)
      PROVE  PathCallOf(c)
  <2>1. fn \in PathOps \ {"write_text", "write_bytes", "rename"}
    BY DEF Changes
  <2> QED
    BY <1>1, <2>1, OnePath DEF Flags
<1>2. ASSUME NEW a \in PathArgs, NEW t \in {Zero, Some}, c = Call("write_text", <<a, Str(t)>>, <<>>)
      PROVE  PathCallOf(c)
  <2>1. IsClean(a) /\ IsClean(Str(t)) /\ Str(t) = Plain("string", "string", t)
    BY PathArgIs, PlainIs, SomeTokens DEF Str
  <2>2. IsCall(c) /\ 1 \in DOMAIN c.args /\ c.fn = "write_text" /\ c.args[1] = a /\ c.args[2] = Str(t)
    BY <1>2, <2>1, TwoArgs
  <2> QED
    BY <2>1, <2>2, PathArgIs DEF PathCallOf, PathArg, PathOps
<1>3. ASSUME NEW a \in PathArgs, NEW t \in {Zero, Some, Binary},
             c = Call("write_bytes", <<a, Plain("bytes", "bytes", t)>>, <<>>)
      PROVE  PathCallOf(c)
  <2>1. IsClean(a) /\ IsClean(Plain("bytes", "bytes", t))
    BY PathArgIs, PlainIs, SomeTokens
  <2>2. IsCall(c) /\ 1 \in DOMAIN c.args /\ c.fn = "write_bytes" /\ c.args[1] = a
        /\ c.args[2] = Plain("bytes", "bytes", t)
    BY <1>3, <2>1, TwoArgs
  <2> QED
    BY <2>1, <2>2, PathArgIs DEF PathCallOf, PathArg, PathOps
<1>4. ASSUME NEW a \in PathArgs, NEW flags \in Flags, c = Call("mkdir", <<a>>, flags)
      PROVE  PathCallOf(c)
  <2>1. "mkdir" \in PathOps \ {"write_text", "write_bytes", "rename"}
    BY DEF PathOps
  <2> QED
    BY <1>4, <2>1, OnePath
<1>5. ASSUME NEW a \in PathArgs, NEW b \in PathArgs, c = Call("rename", <<a, b>>, <<>>)
      PROVE  PathCallOf(c)
  <2>1. IsCall(c) /\ 1 \in DOMAIN c.args /\ c.fn = "rename" /\ c.args[1] = a /\ c.args[2] = b
    BY <1>5, PathArgIs, TwoArgs
  <2> QED
    BY <2>1, PathArgIs DEF PathCallOf, PathArg, PathOps
<1> DEFINE plain(fn, p)   == Call(fn, <<p>>, <<>>)
           text(p, t)     == Call("write_text", <<p, Str(t)>>, <<>>)
           bytes(p, t)    == Call("write_bytes", <<p, Plain("bytes", "bytes", t)>>, <<>>)
           mkdir(p, ks)   == Call("mkdir", <<p>>, ks)
           rename(p, q)   == Call("rename", <<p, q>>, <<>>)
           Plains  == {plain(fn, p) : fn \in PathOps \ (Changes \ {"unlink", "rmdir"}), p \in PathArgs}
           Texts   == {text(p, t) : p \in PathArgs, t \in {Zero, Some}}
           Bytes   == {bytes(p, t) : p \in PathArgs, t \in {Zero, Some, Binary}}
           Mkdirs  == {mkdir(p, flags) : p \in PathArgs, flags \in Flags}
           Renames == {rename(p, q) : p, q \in PathArgs}
<1>6. PathCalls = Plains \cup Texts \cup Bytes \cup Mkdirs \cup Renames
  BY DEF PathCalls
<1> HIDE DEF Plains, Texts, Bytes, Mkdirs, Renames
<1>7. c \in Plains \/ c \in Texts \/ c \in Bytes \/ c \in Mkdirs \/ c \in Renames
  BY <1>6
<1> HIDE DEF plain, text, bytes, mkdir, rename
<1>8. CASE c \in Plains
  <2>1. PICK fn \in PathOps \ (Changes \ {"unlink", "rmdir"}), p \in PathArgs : c = plain(fn, p)
    BY <1>8 DEF Plains
  <2> QED
    BY <1>1, <2>1 DEF plain
<1>9. CASE c \in Texts
  <2>1. PICK p \in PathArgs, t \in {Zero, Some} : c = text(p, t)
    BY <1>9 DEF Texts
  <2> QED
    BY <1>2, <2>1 DEF text
<1>10. CASE c \in Bytes
  <2>1. PICK p \in PathArgs, t \in {Zero, Some, Binary} : c = bytes(p, t)
    BY <1>10 DEF Bytes
  <2> QED
    BY <1>3, <2>1 DEF bytes
<1>11. CASE c \in Mkdirs
  <2>1. PICK p \in PathArgs, flags \in Flags : c = mkdir(p, flags)
    BY <1>11 DEF Mkdirs
  <2> QED
    BY <1>4, <2>1 DEF mkdir
<1>12. CASE c \in Renames
  <2>1. PICK p \in PathArgs, q \in PathArgs : c = rename(p, q)
    BY <1>12 DEF Renames
  <2> QED
    BY <1>5, <2>1 DEF rename
<1> QED
  BY <1>7, <1>8, <1>9, <1>10, <1>11, <1>12

-----------------------------------------------------------------------------
(* Where links lead.                                                       *)

\* However careless the callers are, the map is one from paths to entries.
Typed == Bounded /\ \A p \in DOMAIN entries : entries[p] \in [node : Nodes, kind : Kinds]

\* The n steps of next from p.
IsWay(w, n, S, next, p) ==
  w \in [0..n -> S] /\ w[0] = p /\ \A i \in 1..n : w[i] = next[w[i - 1]]

LEMMA Walk ==
  ASSUME NEW N \in Nat, NEW S, NEW next \in [S -> S], NEW p \in S
  PROVE  \E w : IsWay(w, N, S, next, p)
<1> DEFINE Way(n) == \E w \in [0..n -> S] : w[0] = p /\ \A i \in 1..n : w[i] = next[w[i - 1]]
           T      == {n \in 0..N : ~Way(n)}
<1>1. Way(0)
  <2> DEFINE w == [i \in 0..0 |-> p]
  <2>1. w \in [0..0 -> S] /\ w[0] = p /\ \A i \in 1..0 : w[i] = next[w[i - 1]]
    OBVIOUS
  <2> QED
    BY <2>1
<1>2. ASSUME NEW n \in 1..N, Way(n - 1)
      PROVE  Way(n)
  <2>1. PICK w \in [0..(n - 1) -> S] : w[0] = p /\ \A i \in 1..(n - 1) : w[i] = next[w[i - 1]]
    BY <1>2
  <2> DEFINE v == [i \in 0..n |-> IF i = n THEN next[w[n - 1]] ELSE w[i]]
  <2>2. v \in [0..n -> S]
    <3> SUFFICES ASSUME NEW i \in 0..n PROVE v[i] \in S
      OBVIOUS
    <3>1. n - 1 \in 0..(n - 1) /\ (i # n => i \in 0..(n - 1))
      OBVIOUS
    <3> QED
      BY <3>1
  <2>3. v[0] = p
    BY <2>1
  <2>4. ASSUME NEW i \in 1..n
        PROVE  v[i] = next[v[i - 1]]
    <3>1. i - 1 \in 0..n /\ i - 1 # n /\ v[i - 1] = w[i - 1]
      OBVIOUS
    <3>2. CASE i = n
      BY <3>1, <3>2
    <3>3. CASE i # n
      <4>1. i \in 1..(n - 1) /\ v[i] = w[i]
        BY <3>3
      <4> QED
        BY <2>1, <3>1, <4>1
    <3> QED
      BY <3>2, <3>3
  <2> HIDE DEF v
  <2> QED
    BY <2>2, <2>3, <2>4
<1> HIDE DEF Way
<1>3. T = {}
  <2> SUFFICES ASSUME T # {} PROVE FALSE
    OBVIOUS
  <2>1. PICK m \in T : \A k \in T : m <= k
    <3> HIDE DEF T
    <3>1. T \in SUBSET (0..N)
      BY DEF T
    <3> QED
      BY <3>1, Least
  <2>2. m \in 1..N
    BY <1>1
  <2>3. m - 1 \notin T /\ m - 1 \in 0..N
    BY <2>1, <2>2
  <2> QED
    BY <1>2, <2>2, <2>3
<1> QED
  BY <1>3 DEF Way, IsWay

Step == [q \in Paths |-> IF IsKind(q, "link") THEN Target[entries[q].node] ELSE q]

LEMMA StepStays == Typed => Step \in [Paths -> Paths]
BY OSHandlerAssumption DEF Typed, Step, IsKind, Exists

\* The paths from p to Followed(p, N).
LEMMA FollowedIs ==
  ASSUME Typed, NEW p \in Paths, NEW N \in Nat
  PROVE  \E w : IsWay(w, N, Paths, Step, p) /\ Followed(p, N) = w[N]
<1>1. PICK w : IsWay(w, N, Paths, Step, p)
  BY StepStays, Walk
<1>2. w \in [0..N -> Paths] /\ w[0] = p /\ \A i \in 1..N : w[i] = Step[w[i - 1]]
  BY <1>1 DEF IsWay
<1> DEFINE next(q) == IF IsKind(q, "link") THEN Target[entries[q].node] ELSE q
           at == CHOOSE g : g = [i \in 0..N |-> IF i = 0 THEN p ELSE next(g[i - 1])]
<1>3. \A i \in 1..N : w[i] = next(w[i - 1])
  <2> SUFFICES ASSUME NEW i \in 1..N PROVE w[i] = next(w[i - 1])
    OBVIOUS
  <2>1. i - 1 \in 0..N
    OBVIOUS
  <2>2. w[i - 1] \in Paths
    BY <1>2, <2>1
  <2> QED
    BY <1>2, <2>2 DEF Step
<1>4. Followed(p, N) = at[N]
  BY DEF Followed
<1> HIDE DEF next
<1>5. at = [i \in 0..N |-> IF i = 0 THEN p ELSE next(at[i - 1])]
  <2>1. \A i \in 0..N : w[i] = IF i = 0 THEN p ELSE next(w[i - 1])
    BY <1>2, <1>3
  <2>2. w = [i \in 0..N |-> IF i = 0 THEN p ELSE next(w[i - 1])]
    BY <1>2, <2>1
  <2> QED
    BY <2>2
<1> HIDE DEF at
<1> DEFINE T == {i \in 0..N : at[i] # w[i]}
<1>6. T = {}
  <2> SUFFICES ASSUME T # {} PROVE FALSE
    OBVIOUS
  <2>1. PICK m \in T : \A k \in T : m <= k
    <3> HIDE DEF T
    <3>1. T \in SUBSET (0..N)
      BY DEF T
    <3> QED
      BY <3>1, Least
  <2>2. m \in 1..N
    BY <1>2, <1>5
  <2>3. m - 1 \notin T /\ m - 1 \in 0..N
    BY <2>1, <2>2
  <2> QED
    BY <1>3, <1>5, <2>2, <2>3
<1>7. at[N] = w[N]
  BY <1>6
<1> QED
  BY <1>1, <1>4, <1>7

LEMMA ResolvedIs ==
  ASSUME Typed, NEW p \in Paths
  PROVE  /\ Resolved(p) \in Paths
         /\ IsKind(Resolved(p), "link") => Endless(p)
<1> DEFINE N == Cardinality(DOMAIN entries)
<1>1. N \in Nat /\ IsFiniteSet(DOMAIN entries)
  BY FS_CardinalityType DEF Typed, Bounded
<1>2. PICK n \in Nat : n = N
  BY <1>1
<1> HIDE DEF N
<1>3. PICK w : IsWay(w, n, Paths, Step, p) /\ Followed(p, n) = w[n]
  BY FollowedIs
<1>4. w \in [0..n -> Paths] /\ w[0] = p /\ \A i \in 1..n : w[i] = Step[w[i - 1]]
  BY <1>3 DEF IsWay
<1>5. Resolved(p) = w[n] /\ w[n] \in Paths
  BY <1>2, <1>3, <1>4 DEF Resolved, N
<1>6. ASSUME IsKind(w[n], "link")
      PROVE  Endless(p)
  <2> DEFINE T == {i \in 0..n : ~IsKind(w[n - i], "link")}
  \* What is no link leads nowhere else.
  <2>1. \A i \in 0..n : IsKind(w[n - i], "link")
    <3> SUFFICES ASSUME T # {} PROVE FALSE
      OBVIOUS
    <3>1. PICK m \in T : \A k \in T : m <= k
      <4> HIDE DEF T
      <4>1. T \in SUBSET (0..n)
        BY DEF T
      <4> QED
        BY <4>1, Least
    <3>2. m # 0
      <4>1. n - 0 = n
        OBVIOUS
      <4> QED
        BY <1>6, <4>1
    <3>3. m - 1 \in 0..n /\ m - 1 \notin T /\ n - m \in 0..n /\ n - (m - 1) \in 1..n
          /\ n - (m - 1) - 1 = n - m
      BY <3>1, <3>2
    <3>4. IsKind(w[n - (m - 1)], "link") /\ ~IsKind(w[n - m], "link")
      BY <3>3
    <3>5. w[n - (m - 1)] = Step[w[n - m]] /\ w[n - m] \in Paths
      BY <1>4, <3>3
    <3> QED
      BY <3>4, <3>5 DEF Step
  <2>2. ASSUME NEW i \in 0..n
        PROVE  IsKind(w[i], "link")
    <3>1. n - i \in 0..n /\ n - (n - i) = i
      OBVIOUS
    <3> QED
      BY <2>1, <3>1
  <2>3. w \in [0..n -> DOMAIN entries]
    BY <1>4, <2>2 DEF IsKind, Exists
  <2>4. IsFiniteSet(0..n) /\ Cardinality(0..n) = n + 1
    BY FS_Interval
  <2>5. Cardinality(DOMAIN entries) < Cardinality(0..n)
    BY <1>2, <2>4 DEF N
  <2>6. \E i, j \in 0..n : i # j /\ w[i] = w[j]
    BY <1>1, <2>3, <2>4, <2>5, FS_PigeonHole
  <2>7. PICK i \in 0..n, j \in 0..n : i < j /\ w[i] = w[j]
    BY <2>6
  <2> DEFINE ls == {w[k] : k \in 0..(j - 1)}
  <2>8. p \in ls
    BY <1>4, <2>7
  <2>9. ls \in SUBSET {q \in DOMAIN entries : IsKind(q, "link")}
    BY <2>2, <2>3, <2>7
  <2>10. ASSUME NEW l \in ls
         PROVE  Target[entries[l].node] \in ls
    <3>1. PICK k \in 0..(j - 1) : l = w[k]
      OBVIOUS
    <3>2. k \in 0..n /\ k + 1 \in 1..n /\ (k + 1) - 1 = k
      BY <2>7
    <3>3. w[k + 1] = Step[w[k]] /\ IsKind(w[k], "link") /\ w[k] \in Paths
      BY <1>4, <2>2, <3>2
    <3>4. Target[entries[l].node] = w[k + 1]
      BY <3>1, <3>3 DEF Step
    <3>5. CASE k + 1 = j
      <4>1. w[k + 1] = w[i] /\ i \in 0..(j - 1)
        BY <2>7, <3>5
      <4> QED
        BY <3>4, <4>1
    <3>6. CASE k + 1 # j
      <4>1. k + 1 \in 0..(j - 1)
        BY <2>7, <3>6
      <4> QED
        BY <3>4, <4>1
    <3> QED
      BY <3>5, <3>6
  <2> HIDE DEF ls
  <2> QED
    BY <2>8, <2>9, <2>10 DEF Endless
<1> QED
  BY <1>5, <1>6

-----------------------------------------------------------------------------
(* Answers.                                                                *)

LEMMA NoneIsClean == IsClean(None)
<1>1. "none" \in CleanKinds /\ PlainOf(GoOut["none"]) = {} /\ DOMAIN GoOut["none"] = {}
  BY SameTables DEF GoOut, Same, PlainOf, ValueKinds, Scalars, CleanKinds
<1>2. NoFields = [o \in {} |-> NoFields[o]]
  BY DEF NoFields
<1>3. HasTokens(GoOut["none"], NoFields)
  BY <1>1 DEF HasTokens
<1> QED
  BY <1>1, <1>2, <1>3, CleanLeaf DEF None

\* A list of plain values, or a dict.
LEMMA ListIs ==
  ASSUME NEW vs, AreLeaves(vs)
  PROVE  /\ IsClean(Holding("list", NoFields, "items", vs))
         /\ DOMAIN Holding("list", NoFields, "items", vs) = {<<>>} \cup Places("items", vs)
         /\ Holds(Holding("list", NoFields, "items", vs), "items", vs)
         /\ IsClean(Holding("dict", NoFields, "pairs", vs))
<1>1. /\ "list" \in CleanKinds /\ GoOut["list"] = Same({"items"})
      /\ "dict" \in CleanKinds /\ GoOut["dict"] = Same({"pairs"})
  BY SameTables DEF GoOut, ValueKinds, Scalars, CleanKinds
<1>2. /\ PlainOf(GoOut["list"]) = {} /\ DOMAIN GoOut["list"] \ ChildFields = {}
      /\ PlainOf(GoOut["dict"]) = {} /\ DOMAIN GoOut["dict"] \ ChildFields = {}
      /\ "items" \in DOMAIN GoOut["list"] \cap ChildFields
      /\ "pairs" \in DOMAIN GoOut["dict"] \cap ChildFields
  BY <1>1 DEF Same, PlainOf, ChildFields
<1>3. NoFields = [o \in {} |-> NoFields[o]]
  BY DEF NoFields
<1>4. HasTokens(GoOut["list"], NoFields) /\ HasTokens(GoOut["dict"], NoFields)
  BY <1>2 DEF HasTokens
<1>5. /\ IsClean(Holding("list", NoFields, "items", vs))
      /\ DOMAIN Holding("list", NoFields, "items", vs) = {<<>>} \cup Places("items", vs)
      /\ Holds(Holding("list", NoFields, "items", vs), "items", vs)
  BY <1>1, <1>2, <1>3, <1>4, CleanHolding
<1>6. IsClean(Holding("dict", NoFields, "pairs", vs))
  BY <1>1, <1>2, <1>3, <1>4, CleanHolding
<1> QED
  BY <1>5, <1>6

LEMMA DataIs == ASSUME Typed, NEW p PROVE DataAt(p) \in {Zero, Some, Binary}
BY OSHandlerAssumption DEF Typed, DataAt, IsKind, Exists

LEMMA StatIs ==
  ASSUME Typed, NEW p, Exists(p)
  PROVE  /\ IsClean(StatAt(p))
         /\ Raw(Inside(StatAt(p), << <<"values", 1>> >>)) = ModeAt(p)
         /\ Raw(Inside(StatAt(p), << <<"values", 7>> >>)) = IF IsDir(p) THEN Some ELSE Length(DataAt(p))
<1> DEFINE size == IF IsDir(p) THEN Some ELSE Length(DataAt(p))
           integers == <<ModeAt(p), Zero, Zero, Some, Zero, Zero, size>>
           vs == [i \in 1..10 |-> IF i <= 7 THEN Integer(integers[i]) ELSE Plain("float", "float", Some)]
           at == [type_name |-> <<"StatResult">>, field_names |-> Some]
<1>1. size \in {Zero, Some}
  BY DEF Length
<1>2. ModeAt(p) \in {<<"dir">>, <<"file">>, <<"link">>}
  BY DEF Typed, ModeAt, Exists, Kinds
<1>3. ModeAt(p) \notin {Nil, NegZero}
  BY <1>2 DEF Nil, NegZero
<1> HIDE DEF size
<1>4. \A i \in 1..7 : integers[i] \notin {Nil, NegZero}
  <2>1. 1..7 = {1, 2, 3, 4, 5, 6, 7}
    OBVIOUS
  <2>2. \A i \in {1, 2, 3, 4, 5, 6, 7} : integers[i] \in {ModeAt(p), Zero, Some, size}
    OBVIOUS
  <2>3. \A t \in {ModeAt(p), Zero, Some, size} : t \notin {Nil, NegZero}
    BY <1>1, <1>3, SomeTokens
  <2> HIDE DEF integers
  <2> QED
    BY <2>1, <2>2, <2>3
<1>5. integers[1] = ModeAt(p) /\ integers[7] = size
  OBVIOUS
<1> HIDE DEF integers
<1>6. ASSUME NEW i \in 1..7
      PROVE  IsClean(vs[i]) /\ DOMAIN vs[i] = {<<>>} /\ Raw(vs[i]) = integers[i]
  <2>1. vs[i] = Plain("int", "int", integers[i])
    BY DEF Integer
  <2> QED
    BY <1>4, <2>1, PlainIs
<1>7. ASSUME NEW i \in 8..10
      PROVE  IsClean(vs[i]) /\ DOMAIN vs[i] = {<<>>}
  <2>1. vs[i] = Plain("float", "float", Some)
    OBVIOUS
  <2> QED
    BY <2>1, PlainIs, SomeTokens
<1>8. DOMAIN vs = 1..10 /\ 1 \in 1..7 /\ 7 \in 1..7
  OBVIOUS
<1>9. StatAt(p) = Holding("named_tuple", at, "values", vs)
  BY DEF StatAt, size, integers
<1> HIDE DEF vs
<1>10. AreLeaves(vs)
  <2> SUFFICES ASSUME NEW i \in 1..10 PROVE IsClean(vs[i]) /\ DOMAIN vs[i] = {<<>>}
    BY <1>8 DEF AreLeaves
  <2>1. i \in 1..7 \/ i \in 8..10
    OBVIOUS
  <2> QED
    BY <1>6, <1>7, <2>1
<1>11. "named_tuple" \in CleanKinds /\ GoOut["named_tuple"] = Same({"type_name", "field_names", "values"})
  BY SameTables DEF GoOut, ValueKinds, Scalars, CleanKinds
<1>12. /\ DOMAIN GoOut["named_tuple"] \ ChildFields = {"type_name", "field_names"}
       /\ PlainOf(GoOut["named_tuple"]) = {"type_name", "field_names"}
       /\ GoOut["named_tuple"]["type_name"] = "type_name"
       /\ GoOut["named_tuple"]["field_names"] = "field_names"
       /\ "values" \in DOMAIN GoOut["named_tuple"] \cap ChildFields
  BY <1>11 DEF Same, PlainOf, ChildFields
<1>13. at = [o \in PlainOf(GoOut["named_tuple"]) |-> at[o]]
  BY <1>12
<1>14. HasTokens(GoOut["named_tuple"], at)
  <2>1. \A f \in {"type_name", "field_names"} : at[f] \notin {Nil, NegZero}
    BY DEF Some, Nil, NegZero
  <2> HIDE DEF at
  <2> QED
    BY <1>12, <2>1 DEF HasTokens, IsToken
<1> HIDE DEF at
<1>15. /\ IsClean(Holding("named_tuple", at, "values", vs))
       /\ Holds(Holding("named_tuple", at, "values", vs), "values", vs)
  BY <1>10, <1>11, <1>12, <1>13, <1>14, CleanHolding
<1>16. ASSUME NEW i \in 1..7
       PROVE  Raw(Inside(StatAt(p), << <<"values", i>> >>)) = integers[i]
  <2>1. StatAt(p)[<< <<"values", i>> >>] = vs[i][<<>>]
    <3>1. \A j \in DOMAIN vs : StatAt(p)[<< <<"values", j>> >>] = vs[j][<<>>]
      BY <1>9, <1>15, Zenon DEF Holds
    <3>2. i \in DOMAIN vs
      BY <1>8
    <3> QED
      BY <3>1, <3>2, Zenon
  <2> QED
    BY <1>6, <2>1 DEF Raw, Inside
<1> QED
  BY <1>5, <1>8, <1>9, <1>15, <1>16 DEF size

Listing(p) == Holding("list", NoFields, "items", SetToSeq({PathValue(q) : q \in Children(p)}))

LEMMA ListingIs ==
  ASSUME Typed, NEW p
  PROVE  /\ IsClean(Listing(p))
         /\ {Inside(Listing(p), a) : a \in DOMAIN Listing(p) \ {<<>>}} = {PathValue(q) : q \in Children(p)}
<1> DEFINE S  == {PathValue(q) : q \in Children(p)}
           vs == SetToSeq(S)
<1>1. Children(p) \subseteq Paths /\ IsFiniteSet(Children(p))
  BY FS_Subset DEF Typed, Bounded, Children
<1>2. IsFiniteSet(S)
  <2> DEFINE f == [q \in Children(p) |-> PathValue(q)]
  <2>1. f \in Surjection(Children(p), S)
    BY DEF Surjection
  <2> QED
    BY <1>1, <2>1, FS_Surjection
<1>3. ASSUME NEW v \in S
      PROVE  IsClean(v) /\ DOMAIN v = {<<>>} /\ [b \in {<<>>} |-> v[<<>>]] = v
  <2>1. PICK q \in Children(p) : v = PathValue(q)
    OBVIOUS
  <2>2. IsClean(v) /\ DOMAIN v = {<<>>}
    BY <1>1, <2>1, PathValueIs
  <2> QED
    BY <2>2 DEF IsClean, IsValue
<1> HIDE DEF S
<1>4. /\ vs \in Seq(S) /\ \A x \in S : \E i \in 1..Len(vs) : vs[i] = x
  BY <1>2, Enumerates
<1> HIDE DEF vs
<1>5. DOMAIN vs = 1..Len(vs) /\ \A i \in DOMAIN vs : vs[i] \in S
  BY <1>4
<1>6. AreLeaves(vs)
  BY <1>3, <1>5 DEF AreLeaves
<1>7. Listing(p) = Holding("list", NoFields, "items", vs)
  BY DEF Listing, vs, S
<1>8. /\ IsClean(Listing(p)) /\ DOMAIN Listing(p) = {<<>>} \cup Places("items", vs)
      /\ Holds(Listing(p), "items", vs)
  BY <1>6, <1>7, ListIs
<1>9. ASSUME NEW i \in DOMAIN vs
      PROVE  /\ << <<"items", i>> >> \in DOMAIN Listing(p) \ {<<>>}
             /\ Inside(Listing(p), << <<"items", i>> >>) = vs[i]
  <2>1. << <<"items", i>> >> # <<>>
    OBVIOUS
  <2>2. << <<"items", i>> >> \in Places("items", vs)
    BY DEF Places
  <2>3. Listing(p)[<< <<"items", i>> >>] = vs[i][<<>>]
    BY <1>8, Zenon DEF Holds
  <2>4. Inside(Listing(p), << <<"items", i>> >>) = [b \in {<<>>} |-> vs[i][<<>>]]
    BY <2>3, Zenon DEF Inside
  <2> QED
    BY <1>3, <1>5, <1>8, <2>1, <2>2, <2>4
<1>10. ASSUME NEW a \in DOMAIN Listing(p) \ {<<>>}
       PROVE  Inside(Listing(p), a) \in S
  <2>1. PICK i \in DOMAIN vs : a = << <<"items", i>> >>
    BY <1>8 DEF Places
  <2> QED
    BY <1>5, <1>9, <2>1
<1>11. ASSUME NEW v \in S
       PROVE  \E a \in DOMAIN Listing(p) \ {<<>>} : Inside(Listing(p), a) = v
  BY <1>4, <1>5, <1>9
<1>12. {Inside(Listing(p), a) : a \in DOMAIN Listing(p) \ {<<>>}} = S
  BY <1>10, <1>11
<1> QED
  BY <1>8, <1>12 DEF S

\* When no error is due, what it looks for is there.
LEMMA NoneFails ==
  ASSUME NEW c, Failing(c) = {}, NEW i \in DOMAIN Errors(c)
  PROVE  ~Errors(c)[i][1]
BY DEF Failing

LEMMA StatNeeds ==
  ASSUME NEW c, c.fn = "stat", Failing(c) = {}
  PROVE  Exists(PathArg(c, 1))
<1>1. Errors(c) = << <<~Exists(PathArg(c, 1)), "ErrNotExist">> >>
  BY DEF Errors
<1>2. 1 \in DOMAIN Errors(c) /\ Errors(c)[1][1] = ~Exists(PathArg(c, 1))
  BY <1>1
<1> QED
  BY <1>2, NoneFails

LEMMA FoundIsClean ==
  ASSUME Typed, NEW c, PathCallOf(c), Failing(c) = {}
  PROVE  IsClean(Found(c))
<1> DEFINE p == PathArg(c, 1)
<1>1. c.fn \in PathOps /\ p \in Paths
  BY DEF PathCallOf
<1> HIDE DEF p
<1>2. CASE c.fn \in {"exists", "is_file", "is_dir", "is_symlink"}
  <2>1. Found(c) \in {Bool(Exists(p)), Bool(IsKind(p, "file")), Bool(IsDir(p)), Bool(IsKind(p, "link"))}
    BY <1>2 DEF Found, p
  <2>2. /\ Exists(p) \in BOOLEAN /\ IsKind(p, "file") \in BOOLEAN
        /\ IsDir(p) \in BOOLEAN /\ IsKind(p, "link") \in BOOLEAN
    BY DEF Exists, IsKind, IsDir
  <2> QED
    BY <2>1, <2>2, BoolIs
<1>3. CASE c.fn = "read_text"
  <2>1. Found(c) = Plain("string", "string", DataAt(p))
    BY <1>3 DEF Found, p, Str
  <2> QED
    BY <2>1, DataIs, PlainIs, SomeTokens
<1>4. CASE c.fn = "read_bytes"
  <2>1. Found(c) = Plain("bytes", "bytes", DataAt(p))
    BY <1>4 DEF Found, p
  <2> QED
    BY <2>1, DataIs, PlainIs, SomeTokens
<1>5. CASE c.fn \in {"write_text", "write_bytes"}
  <2>1. Found(c) = Plain("int", "int", Length(Raw(c.args[2])))
    BY <1>5 DEF Found, Integer
  <2>2. Length(Raw(c.args[2])) \in {Zero, Some}
    BY DEF Length
  <2> QED
    BY <2>1, <2>2, PlainIs, SomeTokens
<1>6. CASE c.fn = "iterdir"
  <2>1. Found(c) = Listing(p)
    BY <1>6 DEF Found, Listing, p
  <2> QED
    BY <2>1, ListingIs
<1>7. CASE c.fn = "stat"
  <2>1. Found(c) = StatAt(p)
    BY <1>7 DEF Found, p
  <2> QED
    BY <1>7, <2>1, StatNeeds, StatIs DEF p
<1>8. CASE c.fn \in {"resolve", "absolute"}
  <2>1. \E q \in Paths : Found(c) = Plain("string", "string", PathToken(q))
    BY <1>1, <1>8, ResolvedIs DEF Found, Str, p
  <2> QED
    BY <2>1, PathTokens, PlainIs
<1>9. CASE c.fn \in {"mkdir", "unlink", "rmdir", "rename"}
  <2>1. Found(c) = None
    BY <1>9 DEF Found
  <2> QED
    BY <2>1, NoneIsClean
<1> QED
  BY <1>1, <1>2, <1>3, <1>4, <1>5, <1>6, <1>7, <1>8, <1>9 DEF PathOps

\* What becomes of an answer that is a value, a clean one, or an exception.
LEMMA ValueDelivered ==
  ASSUME NEW v
  PROVE  Delivered(Return(v)) = IF Taken(v) THEN Return(ToRust(FromGo(v))) ELSE Refused
<1>1. Return(v).is = "return" /\ Return(v).value = v
  BY DEF Return
<1>2. Return(v).is # "exception"
  BY <1>1
<1> HIDE DEF Return
<1> QED
  BY <1>1, <1>2 DEF Delivered

LEMMA CleanDelivered ==
  ASSUME NEW v, IsClean(v)
  PROVE  Delivered(Return(v)) = Return(v)
BY CleanIsSame, ValueDelivered

LEMMA RaiseDelivered ==
  ASSUME NEW type \in ExcTypes
  PROVE  Delivered(Raise(type)) = Raise(type) /\ Raise(type).is = "exception"
<1>1. Raise(type).is = "exception" /\ Raise(type).type = type
  BY DEF Raise
<1> HIDE DEF Raise
<1> QED
  BY <1>1 DEF Delivered

\* What the program gets is what the handler answered.
LEMMA PathAnswers ==
  ASSUME Typed, NEW c, PathCallOf(c)
  PROVE  /\ Arrives(c) /\ Received(c) = c /\ Answer(c) = Handle(c)
         /\ Handle(c).is \in {"return", "exception"}
<1>1. Arrives(c) /\ Received(c) = c
  BY CallArrives DEF PathCallOf
<1>2. ASSUME Handle(c) = Return(Found(c)), Failing(c) = {}
      PROVE  Delivered(Handle(c)) = Handle(c)
  <2>1. IsClean(Found(c))
    BY <1>2, FoundIsClean
  <2> QED
    BY <1>2, <2>1, CleanDelivered
<1>3. ASSUME NEW type \in ExcTypes, Handle(c) = Raise(type)
      PROVE  Delivered(Handle(c)) = Handle(c) /\ Handle(c).is = "exception"
  BY <1>3, RaiseDelivered
<1>4. \/ Handle(c) = Return(Found(c)) /\ Failing(c) = {}
      \/ \E type \in ExcTypes : Handle(c) = Raise(type)
  <2>1. MapError(Error(c)) \in ExcTypes
    BY DEF MapError, ExcTypes
  <2>2. "NotImplementedError" \in ExcTypes /\ "ModuleNotFoundError" \in ExcTypes
    BY DEF ExcTypes
  <2> QED
    BY <2>1, <2>2 DEF Handle
<1>5. Delivered(Handle(c)) = Handle(c) /\ Handle(c).is \in {"return", "exception"}
  BY <1>2, <1>3, <1>4 DEF Return
<1> QED
  BY <1>1, <1>5 DEF Answer

-----------------------------------------------------------------------------
(* The default of os.getenv.                                               *)

LEMMA OutputKindsIs ==
  ASSUME NEW k \in ValueKinds \cup ClassKinds
  PROVE  k \in OutputKinds <=> InGo[k] \notin DOMAIN RustIn
<1>1. DOMAIN RustIn = ValueKinds \ {"repr", "cycle", "file_handle"}
  BY SameTables
<1>2. \A j \in {"repr", "cycle", "file_handle"} \cup ClassKinds : j \in OutputKinds
  BY DEF OutputKinds, ClassKinds
<1>3. \A j \in OutputKinds : j \in {"repr", "cycle", "file_handle"} \cup ClassKinds
  BY DEF OutputKinds, ClassKinds
<1>4. CASE k \in ClassKinds
  BY <1>1, <1>2, <1>4 DEF InGo
<1>5. CASE k \notin ClassKinds
  BY <1>1, <1>2, <1>3, <1>5 DEF InGo
<1> QED
  BY <1>4, <1>5

LEMMA FloatIs ==
  ASSUME NEW x, IsNode(x, RustOut), x.kind = "float"
  PROVE  x = Float(x.at["float"])[<<>>] /\ DOMAIN x.at = {"float"}
<1>1. "float" \in DOMAIN OneField /\ OneField["float"] = "float"
  BY DEF OneField
<1>2. PlainOf(RustOut["float"]) = {"float"}
  BY <1>1, OneFieldIs, RowsRust, SameTables DEF CleanKinds
<1>3. x = Node("float", x.at) /\ x.at = [o \in {"float"} |-> x.at[o]] /\ DOMAIN x.at = {"float"}
  BY <1>2, NodeIs
<1>4. x.at = [o \in {"float"} |-> x.at["float"]]
  BY <1>3
<1>5. Float(x.at["float"])[<<>>] = Node("float", [o \in {"float"} |-> x.at["float"]])
  BY DEF Float, Plain, Leaf
<1> QED
  BY <1>3, <1>4, <1>5

\* A node loses the sign of a float that is zero.
LEMMA SignlessIs ==
  ASSUME NEW x, IsNode(x, RustOut)
  PROVE  Node(x.kind, Signless(x)) = IF x = Float(NegZero)[<<>>] THEN Float(Zero)[<<>>] ELSE x
<1>1. x = Node(x.kind, x.at) /\ x.at = [o \in DOMAIN x.at |-> x.at[o]]
  BY NodeIs
<1>2. \A t : Float(t)[<<>>] = Node("float", [o \in {"float"} |-> t])
  BY DEF Float, Plain, Leaf
<1>3. CASE x.kind # "float"
  <2>1. Signless(x) = x.at
    BY <1>1, <1>3 DEF Signless
  <2>2. x # Float(NegZero)[<<>>]
    BY <1>2, <1>3 DEF Node
  <2> QED
    BY <1>1, <2>1, <2>2
<1>4. CASE x.kind = "float"
  <2>1. DOMAIN x.at = {"float"} /\ x = Float(x.at["float"])[<<>>]
    BY <1>4, FloatIs
  <2>2. CASE x.at["float"] = NegZero
    <3>1. Signless(x) = [o \in {"float"} |-> Zero]
      BY <1>4, <2>1, <2>2 DEF Signless
    <3> QED
      BY <1>2, <1>4, <2>1, <2>2, <3>1
  <2>3. CASE x.at["float"] # NegZero
    <3>1. Signless(x) = x.at
      BY <1>1, <2>1, <2>3 DEF Signless
    <3>2. x # Float(NegZero)[<<>>]
      <4>1. Float(NegZero)[<<>>].at["float"] = NegZero
        <5>1. Float(NegZero)[<<>>] = Node("float", [o \in {"float"} |-> NegZero])
          BY <1>2
        <5> QED
          BY <5>1 DEF Node
      <4> QED
        BY <2>3, <4>1
    <3> QED
      BY <1>1, <3>1, <3>2
  <2> QED
    BY <2>2, <2>3
<1> QED
  BY <1>3, <1>4

\* Signless changes nothing twice.
LEMMA SignlessTwice ==
  ASSUME NEW x, NEW k, k = "float" <=> x.kind = "float"
  PROVE  Signless(Node(k, Signless(x))) = Signless(x)
<1>1. Node(k, Signless(x)).kind = k /\ Node(k, Signless(x)).at = Signless(x)
  BY DEF Node
<1>2. Zero # NegZero
  BY DEF Zero, NegZero
<1> QED
  BY <1>1, <1>2 DEF Signless

\* What the two decoders do: they refuse by kind.
LEMMA KindsTrip ==
  ASSUME NEW v, IsValue(v, RustOut)
  PROVE  /\ GoAccepts(FromRust(v))
         /\ RustAccepts(FromGo(ToGo(FromRust(v)))) <=> \A a \in DOMAIN v : v[a].kind \notin OutputKinds
         /\ RustAccepts(FromGo(ToGo(FromRust(v)))) => ToRust(FromGo(ToGo(FromRust(v)))) = Unsigned(v)
<1> DEFINE g == GoHas(v)
<1>1. GoAccepts(FromRust(v)) /\ ToGo(FromRust(v)) = g
  BY ArrivesInGo
<1>2. IsValue(g, GoOut)
  BY GoHasValue
<1>3. DOMAIN g = DOMAIN v /\ \A a \in DOMAIN v : g[a] = Node(InGo[v[a].kind], Signless(v[a]))
  BY DEF GoHas
<1> HIDE DEF g
<1>4. ASSUME NEW a \in DOMAIN v
      PROVE  /\ v[a].kind \in ValueKinds \cup ClassKinds /\ IsNode(v[a], RustOut)
             /\ g[a].kind = InGo[v[a].kind] /\ InGo[v[a].kind] \in ValueKinds
             /\ v[a].kind \in OutputKinds <=> g[a].kind \notin DOMAIN RustIn
  <2>1. IsNode(v[a], RustOut)
    BY DEF IsValue
  <2>2. v[a].kind \in ValueKinds \cup ClassKinds
    BY <2>1, SameTables, NodeIs
  <2>3. g[a].kind = InGo[v[a].kind]
    BY <1>3 DEF Node
  <2> QED
    BY <2>1, <2>2, <2>3, ClassNumbers, OutputKindsIs
<1>5. ASSUME \A a \in DOMAIN v : v[a].kind \notin OutputKinds
      PROVE  RustAccepts(FromGo(g)) /\ ToRust(FromGo(g)) = Unsigned(v)
  <2>1. KindsIn(g) \subseteq DOMAIN RustIn
    BY <1>3, <1>4, <1>5 DEF KindsIn
  <2>2. RustAccepts(FromGo(g)) /\ ToRust(FromGo(g)) = [a \in DOMAIN g |-> Node(g[a].kind, Signless(g[a]))]
    BY <1>2, <2>1, ArrivesInRust
  <2>3. ASSUME NEW a \in DOMAIN v
        PROVE  Node(g[a].kind, Signless(g[a])) = IF v[a] = Float(NegZero)[<<>>] THEN Float(Zero)[<<>>] ELSE v[a]
    <3>1. g[a].kind = v[a].kind
      <4>1. v[a].kind \notin ClassKinds
        BY <1>5 DEF OutputKinds, ClassKinds
      <4> QED
        BY <1>4, <4>1 DEF InGo
    <3>2. g[a] = Node(v[a].kind, Signless(v[a]))
      BY <1>3, <1>4, <3>1
    <3>3. Signless(g[a]) = Signless(v[a])
      BY <3>2, SignlessTwice
    <3> QED
      BY <1>4, <3>1, <3>3, SignlessIs
  <2> QED
    BY <1>3, <2>2, <2>3 DEF Unsigned
<1>6. ASSUME NEW a \in DOMAIN v, v[a].kind \in OutputKinds
      PROVE  ~RustAccepts(FromGo(g))
  <2> SUFFICES ASSUME RustAccepts(FromGo(g)) PROVE FALSE
    OBVIOUS
  <2>1. a \in DOMAIN FromGo(g) /\ FromGo(g)[a].kind = GoNumber[g[a].kind]
    <3>1. ASSUME NEW i \in DOMAIN a
          PROVE  Copied(GoOut[g[Above(a, i)].kind], a[i][1])
      <4>1. Above(a, i) \in DOMAIN v /\ a[i][1] \in DOMAIN GoOut[g[Above(a, i)].kind] \cap ChildFields
        BY <1>2, <1>3 DEF IsValue
      <4>2. IsRow(GoOut[g[Above(a, i)].kind])
        BY <1>4, <4>1, RowsAreRows
      <4> QED
        BY <4>1, <4>2 DEF IsRow, Copied
    <3>2. a \in Copying(g, GoOut)
      BY <1>3, <3>1 DEF Copying
    <3> QED
      BY <3>2, EncodedKind DEF FromGo, Encode
  <2>2. PICK k \in DOMAIN RustIn : RustNumber[k] = GoNumber[g[a].kind]
    BY <2>1 DEF RustAccepts, Accepts
  <2>3. k \in ValueKinds /\ g[a].kind \in ValueKinds
    BY <1>4, SameTables
  <2>4. k = g[a].kind
    BY <2>2, <2>3, SameNumbers, NumbersTell
  <2> QED
    BY <1>4, <1>6, <2>4
<1> QED
  BY <1>1, <1>5, <1>6

\* Whatever a program passes to a function of the host that returns it, however
\* deeply it is nested: Go takes it; it is taken back unless something in it is
\* only for output; and then it is what it was, but for the sign of a float that
\* is zero.
THEOREM RoundTrip ==
  ASSUME NEW v, IsValue(v, RustOut)
  PROVE  /\ GoAccepts(FromRust(v))
         /\ Taken(ToGo(FromRust(v))) <=> \A a \in DOMAIN v : ~OutputOnly(v[a])
         /\ Taken(ToGo(FromRust(v))) => ToRust(FromGo(ToGo(FromRust(v)))) = Unsigned(v)
<1> DEFINE g == ToGo(FromRust(v))
           Sandboxed(a) == v[a].kind = "class_instance" /\ v[a].at["host_defined"] = Zero
<1>1. /\ GoAccepts(FromRust(v))
      /\ RustAccepts(FromGo(g)) <=> \A a \in DOMAIN v : v[a].kind \notin OutputKinds
      /\ RustAccepts(FromGo(g)) => ToRust(FromGo(g)) = Unsigned(v)
  BY KindsTrip
<1> HIDE DEF g
<1>2. Admits(Unsigned(v)) <=> \A a \in DOMAIN v : ~Sandboxed(a)
  <2>1. \A t : Float(t)[<<>>].kind = "float"
    BY DEF Float, Plain, Leaf, Node
  <2>2. DOMAIN Unsigned(v) = DOMAIN v
    BY DEF Unsigned
  <2>3. ASSUME NEW a \in DOMAIN v
        PROVE  /\ Unsigned(v)[a].kind = "class_instance" <=> v[a].kind = "class_instance"
               /\ v[a].kind = "class_instance" => Unsigned(v)[a] = v[a]
    <3>1. Unsigned(v)[a] = IF v[a] = Float(NegZero)[<<>>] THEN Float(Zero)[<<>>] ELSE v[a]
      BY DEF Unsigned
    <3> QED
      BY <2>1, <3>1
  <2> QED
    BY <2>2, <2>3 DEF Admits
<1>3. \A a \in DOMAIN v : OutputOnly(v[a]) <=> v[a].kind \in OutputKinds \/ Sandboxed(a)
  BY DEF OutputOnly
<1> HIDE DEF Sandboxed
<1>4. Taken(g) <=> RustAccepts(FromGo(g)) /\ Admits(ToRust(FromGo(g)))
  BY DEF Taken
<1>5. Taken(g) <=> \A a \in DOMAIN v : ~OutputOnly(v[a])
  BY <1>1, <1>2, <1>3, <1>4
<1> QED
  BY <1>1, <1>4, <1>5 DEF g

-----------------------------------------------------------------------------
(* The calls that look at no file.                                         *)

LEMMA NoArgs ==
  ASSUME NEW fn
  PROVE  IsCall(Call(fn, <<>>, <<>>)) /\ Call(fn, <<>>, <<>>).fn = fn
<1> DEFINE c == Call(fn, <<>>, <<>>)
<1>1. c.fn = fn /\ c.args = <<>> /\ c.kwargs = <<>>
  BY DEF Call
<1>2. <<>> = [i \in DOMAIN <<>> |-> <<>>[i]] /\ DOMAIN <<>> = {}
  OBVIOUS
<1> HIDE DEF c
<1> QED
  BY <1>1, <1>2 DEF IsCall, c

LEMMA OneArg ==
  ASSUME NEW fn, NEW a, IsClean(a)
  PROVE  /\ IsCall(Call(fn, <<a>>, <<>>)) /\ Call(fn, <<a>>, <<>>).fn = fn
         /\ Call(fn, <<a>>, <<>>).args = <<a>>
<1> DEFINE c == Call(fn, <<a>>, <<>>)
<1>1. c.fn = fn /\ c.args = <<a>> /\ c.kwargs = <<>>
  BY DEF Call
<1>2. /\ <<a>> = [i \in DOMAIN <<a>> |-> <<a>>[i]] /\ DOMAIN <<a>> = {1} /\ <<a>>[1] = a
      /\ <<>> = [i \in DOMAIN <<>> |-> <<>>[i]] /\ DOMAIN <<>> = {}
  OBVIOUS
<1> HIDE DEF c
<1>3. IsCall(c)
  BY <1>1, <1>2 DEF IsCall, c
<1> QED
  BY <1>1, <1>3 DEF c

\* A call of getenv with a default reaches Go with what Go has for it.
LEMMA DefaultArrives ==
  ASSUME NEW k, IsClean(k), NEW d, IsValue(d, RustOut)
  PROVE  LET c == Call("getenv", <<k, d>>, <<>>) IN
         /\ c.fn = "getenv" /\ c.args = <<k, d>>
         /\ Arrives(c) /\ Received(c) = Call("getenv", <<k, GoHas(d)>>, <<>>)
<1> DEFINE c == Call("getenv", <<k, d>>, <<>>)
<1>1. c.fn = "getenv" /\ c.args = <<k, d>> /\ c.kwargs = <<>>
  BY DEF Call
<1>2. /\ DOMAIN <<k, d>> = {1, 2} /\ <<k, d>>[1] = k /\ <<k, d>>[2] = d
      /\ DOMAIN <<>> = {}
  OBVIOUS
<1>3. /\ Sent(c).args = [i \in DOMAIN c.args |-> FromRust(c.args[i])]
      /\ Sent(c).kwargs = [i \in DOMAIN c.kwargs |-> FromRust(c.kwargs[i])]
  BY DEF Sent, Call
<1>4. Received(c) = [c EXCEPT !.args   = [i \in DOMAIN c.args |-> ToGo(Sent(c).args[i])],
                              !.kwargs = [i \in DOMAIN c.kwargs |-> ToGo(Sent(c).kwargs[i])]]
  BY DEF Received
<1>5. c = [fn |-> "getenv", args |-> <<k, d>>, kwargs |-> <<>>]
  BY DEF Call
<1> HIDE DEF c
<1>6. Range(Sent(c).args) = {FromRust(k), FromRust(d)} /\ Range(Sent(c).kwargs) = {}
  BY <1>1, <1>2, <1>3 DEF Range
<1>7. Arrives(c)
  BY <1>6, CleanIsSame, ArrivesInGo DEF Arrives
<1>8. /\ ToGo(Sent(c).args[1]) = k /\ ToGo(Sent(c).args[2]) = GoHas(d)
  BY <1>1, <1>2, <1>3, CleanIsSame, ArrivesInGo
<1>9. [i \in DOMAIN c.args |-> ToGo(Sent(c).args[i])] = <<k, GoHas(d)>>
  <2>1. DOMAIN c.args = {1, 2} /\ DOMAIN <<k, GoHas(d)>> = {1, 2}
    BY <1>1
  <2> QED
    BY <1>8, <2>1
<1>10. [i \in DOMAIN c.kwargs |-> ToGo(Sent(c).kwargs[i])] = <<>>
  BY <1>1
<1>11. Received(c) = [c EXCEPT !.args = <<k, GoHas(d)>>, !.kwargs = <<>>]
  BY <1>4, <1>9, <1>10
<1>12. Received(c) = Call("getenv", <<k, GoHas(d)>>, <<>>)
  BY <1>5, <1>11 DEF Call
<1> QED
  BY <1>1, <1>7, <1>12 DEF c

LEMMA EnvIs ==
  /\ IsClean(EnvKey) /\ IsClean(EnvValue) /\ IsClean(Str(Some))
  /\ DOMAIN EnvKey = {<<>>} /\ DOMAIN EnvValue = {<<>>}
BY PlainIs, SomeTokens DEF EnvKey, EnvValue, Str

\* The handler on those calls.
LEMMA OtherHandled ==
  ASSUME NEW c, c.fn \in {"getenv", "environ", "import_stubs", "other", "import"}
  PROVE  /\ c.fn = "import" => Handle(c) = Raise("ModuleNotFoundError")
         /\ c.fn = "other" => Handle(c) = Raise("NotImplementedError")
         /\ c.fn \in {"getenv", "environ", "import_stubs"} => Handle(c) = Return(Found(c))
<1>1. c.fn \notin PathOps
  BY DEF PathOps
<1>2. Errors(c) = <<>>
  BY DEF Errors
<1>3. Failing(c) = {}
  BY <1>2 DEF Failing
<1> QED
  BY <1>1, <1>3 DEF Handle

\* What the answer to such a call must be.
GetenvAnswer(c) == IF setup = "full" /\ c.args[1] = EnvKey THEN EnvValue
                   ELSE IF Len(c.args) > 1 THEN Unsigned(c.args[2]) ELSE None

\* The only call that is refused.
AnswersOutput(c) == AnswersDefault(c) /\ \E a \in DOMAIN c.args[2] : OutputOnly(c.args[2][a])

OtherAnswered(c) ==
  /\ c.fn \notin PathOps /\ Received(c).fn = c.fn
  /\ Answer(c).is = "refused" <=> AnswersOutput(c)
  /\ Answer(c).is = "exception" => \/ c.fn = "import" /\ Answer(c).type = "ModuleNotFoundError"
                                   \/ c.fn = "other" /\ Answer(c).type = "NotImplementedError"
  /\ Answer(c).is = "return" /\ c.fn = "getenv" => Answer(c).value = GetenvAnswer(c)

LEMMA GetenvAnswered ==
  ASSUME NEW k, IsClean(k), NEW c, c = Call("getenv", <<k>>, <<>>)
  PROVE  OtherAnswered(c)
<1>1. Received(c) = c /\ Arrives(c) /\ c.fn = "getenv" /\ c.args = <<k>>
  BY OneArg, CallArrives
<1>2. Handle(c) = Return(Found(c))
  BY <1>1, OtherHandled
<1>3. ~(Len(c.args) > 1)
  <2>1. Len(<<k>>) = 1
    OBVIOUS
  <2>2. PICK n : n = Len(c.args)
    OBVIOUS
  <2>3. n = 1
    BY <1>1, <2>1, <2>2, Zenon
  <2>4. ~(n > 1)
    BY <2>3
  <2> QED
    BY <2>2, <2>4, Zenon
<1>4. Found(c) = GetenvAnswer(c) /\ Found(c) \in {EnvValue, None}
  BY <1>1, <1>3 DEF Found, GetenvAnswer, HasEnv
<1>5. IsClean(Found(c))
  BY <1>4, EnvIs, NoneIsClean
<1>6. Answer(c) = Return(Found(c))
  BY <1>1, <1>2, <1>5, CleanDelivered DEF Answer
<1>7. ~AnswersOutput(c)
  BY <1>3 DEF AnswersOutput, AnswersDefault
<1> QED
  BY <1>1, <1>4, <1>6, <1>7 DEF OtherAnswered, Return, PathOps

LEMMA DefaultAnswered ==
  ASSUME NEW k, IsClean(k), NEW d \in Defaults, NEW c, c = Call("getenv", <<k, d>>, <<>>)
  PROVE  OtherAnswered(c)
<1> DEFINE r == Call("getenv", <<k, GoHas(d)>>, <<>>)
<1>1. IsValue(d, RustOut)
  BY OSHandlerAssumption
<1>2. c.fn = "getenv" /\ c.args = <<k, d>> /\ Arrives(c) /\ Received(c) = r
  BY <1>1, DefaultArrives
<1>3. r.fn = "getenv" /\ r.args = <<k, GoHas(d)>>
  BY DEF Call
<1> HIDE DEF r
<1>4. Handle(r) = Return(Found(r))
  BY <1>3, OtherHandled
<1>5. Answer(c) = Delivered(Return(Found(r)))
  BY <1>2, <1>4 DEF Answer
<1>6. /\ Len(c.args) > 1 /\ Len(r.args) > 1
      /\ c.args[1] = k /\ c.args[2] = d /\ r.args[1] = k /\ r.args[2] = GoHas(d)
  BY <1>2, <1>3
<1>7. CASE setup = "full" /\ k = EnvKey
  <2>1. Found(r) = EnvValue /\ GetenvAnswer(c) = EnvValue
    BY <1>3, <1>6, <1>7 DEF Found, HasEnv, GetenvAnswer
  <2>2. Answer(c) = Return(EnvValue)
    BY <1>5, <2>1, EnvIs, CleanDelivered
  <2>3. ~AnswersOutput(c)
    BY <1>6, <1>7 DEF AnswersOutput, AnswersDefault
  <2> QED
    BY <1>2, <1>3, <2>1, <2>2, <2>3 DEF OtherAnswered, Return, PathOps
<1>8. CASE ~(setup = "full" /\ k = EnvKey)
  <2>1. Found(r) = GoHas(d) /\ GetenvAnswer(c) = Unsigned(d)
    BY <1>3, <1>6, <1>8 DEF Found, HasEnv, GetenvAnswer
  <2>2. Answer(c) = IF Taken(GoHas(d)) THEN Return(ToRust(FromGo(GoHas(d)))) ELSE Refused
    BY <1>5, <2>1, ValueDelivered
  <2>3. /\ Taken(GoHas(d)) <=> \A a \in DOMAIN d : ~OutputOnly(d[a])
        /\ Taken(GoHas(d)) => ToRust(FromGo(GoHas(d))) = Unsigned(d)
    BY <1>1, RoundTrip, ArrivesInGo
  <2>4. AnswersDefault(c)
    BY <1>2, <1>6, <1>8 DEF AnswersDefault
  <2>5. AnswersOutput(c) <=> ~Taken(GoHas(d))
    BY <1>6, <2>3, <2>4 DEF AnswersOutput
  <2>6. CASE Taken(GoHas(d))
    <3>1. Answer(c) = Return(Unsigned(d))
      BY <2>2, <2>3, <2>6
    <3> QED
      BY <1>2, <1>3, <2>1, <2>5, <2>6, <3>1 DEF OtherAnswered, Return, PathOps
  <2>7. CASE ~Taken(GoHas(d))
    <3>1. Answer(c) = Refused
      BY <2>2, <2>7
    <3> QED
      BY <1>2, <1>3, <2>5, <2>7, <3>1 DEF OtherAnswered, Refused, PathOps
  <2> QED
    BY <2>6, <2>7
<1> QED
  BY <1>7, <1>8

LEMMA DictIsClean ==
  /\ IsClean(Holding("dict", NoFields, "pairs", <<>>))
  /\ IsClean(Holding("dict", NoFields, "pairs", <<EnvKey, EnvValue>>))
<1>1. AreLeaves(<<>>)
  BY DEF AreLeaves
<1>2. AreLeaves(<<EnvKey, EnvValue>>)
  <2>1. DOMAIN <<EnvKey, EnvValue>> = {1, 2}
    OBVIOUS
  <2> QED
    BY <2>1, EnvIs DEF AreLeaves
<1> QED
  BY <1>1, <1>2, ListIs

LEMMA EnvironAnswered ==
  ASSUME NEW fn \in {"environ", "import_stubs", "other"}, NEW c, c = Call(fn, <<>>, <<>>)
  PROVE  OtherAnswered(c)
<1>1. Received(c) = c /\ Arrives(c) /\ c.fn = fn
  BY NoArgs, CallArrives
<1>2. CASE fn = "other"
  <2>1. Handle(c) = Raise("NotImplementedError")
    BY <1>1, <1>2, OtherHandled
  <2>2. Answer(c) = Raise("NotImplementedError")
    BY <1>1, <2>1, RaiseDelivered DEF Answer, ExcTypes
  <2> QED
    BY <1>1, <1>2, <2>2 DEF OtherAnswered, AnswersOutput, AnswersDefault, Raise, PathOps
<1>3. CASE fn # "other"
  <2>1. Handle(c) = Return(Found(c))
    BY <1>1, <1>3, OtherHandled
  <2>2. \/ Found(c) = Holding("dict", NoFields, "pairs", <<>>)
        \/ Found(c) = Holding("dict", NoFields, "pairs", <<EnvKey, EnvValue>>)
    BY <1>1, <1>3 DEF Found
  <2>3. IsClean(Found(c))
    BY <2>2, DictIsClean
  <2>4. Answer(c) = Return(Found(c))
    BY <1>1, <2>1, <2>3, CleanDelivered DEF Answer
  <2> QED
    BY <1>1, <1>3, <2>4 DEF OtherAnswered, AnswersOutput, AnswersDefault, Return, PathOps
<1> QED
  BY <1>2, <1>3

LEMMA ImportAnswered ==
  ASSUME NEW a, IsClean(a), NEW c, c = Call("import", <<a>>, <<>>)
  PROVE  OtherAnswered(c)
<1>1. Received(c) = c /\ Arrives(c) /\ c.fn = "import"
  BY OneArg, CallArrives
<1>2. Handle(c) = Raise("ModuleNotFoundError")
  BY <1>1, OtherHandled
<1>3. Answer(c) = Raise("ModuleNotFoundError")
  BY <1>1, <1>2, RaiseDelivered DEF Answer, ExcTypes
<1> QED
  BY <1>1, <1>3 DEF OtherAnswered, AnswersOutput, AnswersDefault, Raise, PathOps

LEMMA OtherAnswers ==
  ASSUME NEW c \in OtherCalls
  PROVE  OtherAnswered(c)
<1> DEFINE getenv(k)     == Call("getenv", <<k>>, <<>>)
           default(k, d) == Call("getenv", <<k, d>>, <<>>)
           plain(fn)     == Call(fn, <<>>, <<>>)
           Getenvs  == {getenv(k) : k \in {EnvKey, Str(Some)}}
           Dflts    == {default(k, d) : k \in {EnvKey, Str(Some)}, d \in Defaults}
           Plains   == {plain(fn) : fn \in {"environ", "import_stubs", "other"}}
<1>1. OtherCalls = Getenvs \cup Dflts \cup Plains \cup {Call("import", <<Str(Some)>>, <<>>)}
  BY DEF OtherCalls
<1> HIDE DEF Getenvs, Dflts, Plains
<1>2. c \in Getenvs \/ c \in Dflts \/ c \in Plains \/ c = Call("import", <<Str(Some)>>, <<>>)
  BY <1>1
<1> HIDE DEF getenv, default, plain
<1>3. CASE c \in Getenvs
  <2>1. PICK k \in {EnvKey, Str(Some)} : c = getenv(k)
    BY <1>3 DEF Getenvs
  <2> QED
    BY <2>1, EnvIs, GetenvAnswered DEF getenv
<1>4. CASE c \in Dflts
  <2>1. PICK k \in {EnvKey, Str(Some)}, d \in Defaults : c = default(k, d)
    BY <1>4 DEF Dflts
  <2> QED
    BY <2>1, EnvIs, DefaultAnswered DEF default
<1>5. CASE c \in Plains
  <2>1. PICK fn \in {"environ", "import_stubs", "other"} : c = plain(fn)
    BY <1>5 DEF Plains
  <2> QED
    BY <2>1, EnvironAnswered DEF plain
<1>6. CASE c = Call("import", <<Str(Some)>>, <<>>)
  BY <1>6, EnvIs, ImportAnswered
<1> QED
  BY <1>2, <1>3, <1>4, <1>5, <1>6

-----------------------------------------------------------------------------
(* What the handler does to the files.                                     *)

LEMMA TypedInit == Init => Typed
BY BoundedInit DEF Init, Typed, Kinds

LEMMA CreateTyped ==
  ASSUME Typed, NEW p, NEW k \in Kinds, NEW dirs, Create(p, k, dirs)
  PROVE  \A q \in DOMAIN entries' : entries'[q] \in [node : Nodes, kind : Kinds]
<1>1. PICK f \in Injection(dirs \cup {p}, Nodes \ Used) :
        entries' = [q \in DOMAIN entries \cup dirs \cup {p} |->
                      IF q \in DOMAIN f THEN [node |-> f[q], kind |-> IF q = p THEN k ELSE "dir"]
                      ELSE entries[q]]
  BY DEF Create
<1>2. DOMAIN f = dirs \cup {p} /\ \A q \in dirs \cup {p} : f[q] \in Nodes
  BY DEF Injection, IsInjective
<1>3. ASSUME NEW q \in DOMAIN entries'
      PROVE  entries'[q] \in [node : Nodes, kind : Kinds]
  <2>1. CASE q \in dirs \cup {p}
    <3>1. entries'[q] = [node |-> f[q], kind |-> IF q = p THEN k ELSE "dir"]
      BY <1>1, <1>2, <2>1
    <3>2. (IF q = p THEN k ELSE "dir") \in Kinds
      BY DEF Kinds
    <3> QED
      BY <1>2, <2>1, <3>1, <3>2
  <2>2. CASE q \notin dirs \cup {p}
    <3>1. q \in DOMAIN entries /\ entries'[q] = entries[q]
      BY <1>1, <1>2, <2>2
    <3> QED
      BY <3>1 DEF Typed
  <2> QED
    BY <2>1, <2>2
<1> QED
  BY <1>3

LEMMA RelocateTyped ==
  ASSUME Typed, NEW old \in Paths, NEW new \in Paths, Exists(old), Relocate(old, new)
  PROVE  \A q \in DOMAIN entries' : entries'[q] \in [node : Nodes, kind : Kinds]
<1> DEFINE targets == {Rebase(q, old, new) : q \in Moved(old)}
<1>1. entries' = [q \in (DOMAIN entries \ Moved(old)) \cup targets |->
                    IF q \in targets THEN entries[Rebase(q, new, old)] ELSE entries[q]]
  BY DEF Relocate
<1>2. old \in Seq(Names) /\ new \in Seq(Names)
  BY PathsAreSequences
<1>3. ASSUME NEW r \in Moved(old)
      PROVE  r \in DOMAIN entries /\ r \in Seq(Names) /\ Within(r, old)
  <2>1. CASE old = Root
    <3>1. r = old
      BY <2>1 DEF Moved
    <3>2. Within(old, old)
      BY <1>2, WithinOrSame
    <3> QED
      BY <1>2, <3>1, <3>2 DEF Exists
  <2>2. CASE old # Root
    <3>1. r \in DOMAIN entries /\ Within(r, old)
      BY <2>2 DEF Moved
    <3> QED
      BY <3>1, PathsAreSequences DEF Typed, Bounded
  <2> QED
    BY <2>1, <2>2
<1>4. ASSUME NEW t \in targets
      PROVE  entries[Rebase(t, new, old)] \in [node : Nodes, kind : Kinds]
  <2>1. PICK r \in Moved(old) : t = Rebase(r, old, new)
    OBVIOUS
  <2>2. Rebase(t, new, old) = r
    BY <1>2, <1>3, <2>1, RebaseBack
  <2> QED
    BY <1>3, <2>2 DEF Typed
<1> HIDE DEF targets
<1>5. ASSUME NEW q \in DOMAIN entries'
      PROVE  entries'[q] \in [node : Nodes, kind : Kinds]
  <2>1. CASE q \in targets
    BY <1>1, <1>4, <2>1
  <2>2. CASE q \notin targets
    <3>1. q \in DOMAIN entries /\ entries'[q] = entries[q]
      BY <1>1, <2>2
    <3> QED
      BY <3>1 DEF Typed
  <2> QED
    BY <2>1, <2>2
<1> QED
  BY <1>5

\* This needs no care of any caller.
LEMMA TypedStep == Typed /\ [Change]_entries => Typed'
<1> SUFFICES ASSUME Typed, [Change]_entries PROVE Typed'
  OBVIOUS
<1> DEFINE Entries == \A p \in DOMAIN entries : entries[p] \in [node : Nodes, kind : Kinds]
<1>1. Bounded'
  BY BoundedStep DEF Typed
<1>2. CASE UNCHANGED entries
  BY <1>1, <1>2 DEF Typed
<1>3. ASSUME NEW p, NEW k \in Kinds, NEW dirs, Create(p, k, dirs) PROVE Entries'
  BY <1>3, CreateTyped
<1>4. ASSUME NEW p, Delete({p}) PROVE Entries'
  BY <1>4 DEF Delete, Typed
<1>5. ASSUME NEW p \in Paths, NEW q \in Paths, Rename(p, q) PROVE Entries'
  BY <1>5, RelocateTyped DEF Rename
<1>6. "file" \in Kinds /\ "link" \in Kinds /\ "dir" \in Kinds
  BY DEF Kinds
<1> HIDE DEF Entries
<1>7. ASSUME Change
      PROVE  Entries'
  <2>1. PICK p \in Paths :
          \/ Write(p) \/ Mkdir(p) \/ MkdirParents(p) \/ Unlink(p) \/ Rmdir(p)
          \/ \E k \in {"file", "link"} : Add(p, k)
          \/ \E q \in Paths : Rename(p, q)
    BY <1>7 DEF Change
  <2>2. CASE Write(p)
    BY <1>3, <1>6, <2>2 DEF Write
  <2>3. CASE Mkdir(p)
    BY <1>3, <1>6, <2>3 DEF Mkdir
  <2>4. CASE MkdirParents(p)
    BY <1>3, <1>6, <2>4 DEF MkdirParents
  <2>5. CASE Unlink(p)
    BY <1>4, <2>5 DEF Unlink
  <2>6. CASE Rmdir(p)
    BY <1>4, <2>6 DEF Rmdir
  <2>7. ASSUME NEW k \in {"file", "link"}, Add(p, k)
        PROVE  Entries'
    BY <1>3, <1>6, <2>7 DEF Add
  <2> QED
    BY <1>5, <2>1, <2>2, <2>3, <2>4, <2>5, <2>6, <2>7
<1> QED
  BY <1>1, <1>2, <1>7 DEF Typed, Entries

\* Serving a call is one operation of the file system, or none.
LEMMA ServeChanges ==
  ASSUME NEW c \in PathCalls \cup OtherCalls, Serve(c)
  PROVE  [Change]_entries
<1>1. CASE ~Effect(Received(c))
  BY <1>1 DEF Serve
<1>2. CASE Effect(Received(c)) /\ c \in PathCalls
  <2>1. PathCallOf(c) /\ Received(c) = c
    BY <1>2, PathCallIs, CallArrives DEF PathCallOf
  <2> DEFINE p == PathArg(c, 1)
  <2>2. p \in Paths /\ (c.fn = "rename" => PathArg(c, 2) \in Paths)
    BY <2>1 DEF PathCallOf
  <2>3. \/ Write(p) \/ Mkdir(p) \/ MkdirParents(p) \/ Unlink(p) \/ Rmdir(p) \/ UNCHANGED entries
        \/ c.fn = "rename" /\ Rename(p, PathArg(c, 2))
    BY <1>2, <2>1 DEF Effect
  <2> HIDE DEF p
  <2> QED
    BY <2>2, <2>3 DEF Change
<1>3. CASE Effect(Received(c)) /\ c \in OtherCalls
  <2>1. Received(c).fn = c.fn /\ c.fn \notin PathOps
    BY <1>3, OtherAnswers DEF OtherAnswered
  <2>2. Received(c).fn \notin {"write_text", "write_bytes", "mkdir", "unlink", "rmdir", "rename"}
    BY <2>1 DEF PathOps
  <2> QED
    BY <1>3, <2>2 DEF Effect
<1> QED
  BY <1>1, <1>2, <1>3

LEMMA OSNextChanges == ASSUME [OSNext]_osVars PROVE [Change]_entries
<1>1. CASE UNCHANGED osVars
  BY <1>1 DEF osVars
<1>2. CASE ChangeByOthers
  BY <1>2 DEF ChangeByOthers
<1>3. CASE AskPath
  BY <1>3, ServeChanges DEF AskPath
<1>4. CASE AskOther
  BY <1>4, ServeChanges DEF AskOther
<1>5. CASE Take
  BY <1>5 DEF Take
<1> QED
  BY <1>1, <1>2, <1>3, <1>4, <1>5 DEF OSNext

\* Whatever programs and hosts ask, in whatever order: the handler does to the
\* files what one method of MemoryFS does, one at a time, and nothing else.
THEOREM HandlerOnlyChanges == OSSpec => TreeSpec
<1>1. OSInit => Init
  BY DEF OSInit
<1>2. [OSNext]_osVars => [Change]_entries
  BY OSNextChanges
<1> QED
  BY <1>1, <1>2, PTL DEF OSSpec, TreeSpec

\* So the files of a running handler stay a tree, and implement the abstract one.
THEOREM HandlerKeepsTree ==
  ASSUME Careless = {}
  PROVE  OSSpec => []TypeOK /\ []IsTree /\ ImplementsFileTree
BY HandlerOnlyChanges, TypeCorrect, TreeStays, FileTreeImplemented, PTL

-----------------------------------------------------------------------------
(* Exceptions.                                                             *)

\* The error is the first that holds.
LEMMA FirstFault ==
  ASSUME NEW c, NEW n \in Nat, DOMAIN Errors(c) = 1..n, Failing(c) # {}
  PROVE  \E i \in 1..n : /\ Errors(c)[i][1] /\ Error(c) = Errors(c)[i][2]
                         /\ \A j \in 1..n : Errors(c)[j][1] => i <= j
<1> DEFINE T == Failing(c)
<1>1. T \in SUBSET (0..n) /\ \A j : j \in T <=> j \in 1..n /\ Errors(c)[j][1]
  BY DEF Failing
<1>2. Error(c) = Errors(c)[CHOOSE i \in T : \A j \in T : i <= j][2]
  BY DEF Error
<1>3. T # {}
  OBVIOUS
<1> HIDE DEF T
<1>4. \E m \in T : \A j \in T : m <= j
  BY <1>1, <1>3, Least
<1>5. PICK i : i = CHOOSE k \in T : \A j \in T : k <= j
  OBVIOUS
<1>6. i \in T /\ \A j \in T : i <= j
  BY <1>4, <1>5
<1> QED
  BY <1>1, <1>2, <1>5, <1>6

\* What can be wrong with a call, fault by fault.
IsFault(f, holds, err) == (f[1] <=> holds) /\ f[2] = err

\* The faults of a method, one after the other.
LEMMA Faults ==
  ASSUME NEW t, NEW u, NEW v, NEW w
  PROVE  /\ DOMAIN (<<t>> \o <<>>) = 1..1 /\ (<<t>> \o <<>>)[1] = t
         /\ DOMAIN Append(<<t, u>>, v) = 1..3 /\ Append(<<t, u>>, v)[1] = t
         /\ Append(<<t, u>>, v)[2] = u /\ Append(<<t, u>>, v)[3] = v
         /\ DOMAIN (<<t>> \o <<u, v>>) = 1..3 /\ (<<t>> \o <<u, v>>)[1] = t
         /\ (<<t>> \o <<u, v>>)[2] = u /\ (<<t>> \o <<u, v>>)[3] = v
         /\ DOMAIN (<<t, u>> \o <<v, w>>) = 1..4 /\ (<<t, u>> \o <<v, w>>)[1] = t
         /\ (<<t, u>> \o <<v, w>>)[2] = u /\ (<<t, u>> \o <<v, w>>)[3] = v
         /\ (<<t, u>> \o <<v, w>>)[4] = w
<1> DEFINE S == {t, u, v, w}
<1>1. /\ <<>> \in Seq(S) /\ <<t>> \in Seq(S) /\ <<t, u>> \in Seq(S)
      /\ <<u, v>> \in Seq(S) /\ <<v, w>> \in Seq(S)
  OBVIOUS
<1>2. /\ Len(<<>>) = 0 /\ Len(<<t>>) = 1 /\ Len(<<t, u>>) = 2 /\ Len(<<u, v>>) = 2 /\ Len(<<v, w>>) = 2
      /\ <<t>>[1] = t /\ <<t, u>>[1] = t /\ <<t, u>>[2] = u /\ <<u, v>>[1] = u /\ <<u, v>>[2] = v
      /\ <<v, w>>[1] = v /\ <<v, w>>[2] = w
  OBVIOUS
<1> HIDE DEF S
<1>3. ASSUME NEW r \in Seq(S), NEW s \in Seq(S)
      PROVE  /\ DOMAIN (r \o s) = 1..(Len(r) + Len(s))
             /\ \A i \in 1..Len(r) : (r \o s)[i] = r[i]
             /\ \A i \in 1..Len(s) : (r \o s)[Len(r) + i] = s[i]
  OBVIOUS
<1>4. ASSUME NEW r \in Seq(S), NEW x \in S
      PROVE  /\ DOMAIN Append(r, x) = 1..(Len(r) + 1)
             /\ \A i \in 1..Len(r) : Append(r, x)[i] = r[i]
             /\ Append(r, x)[Len(r) + 1] = x
  OBVIOUS
<1>5. DOMAIN (<<t>> \o <<>>) = 1..1 /\ (<<t>> \o <<>>)[1] = t
  <2>1. PICK r, s : r = <<t>> /\ s = <<>>
    OBVIOUS
  <2>2. r \in Seq(S) /\ s \in Seq(S) /\ Len(r) = 1 /\ Len(s) = 0 /\ r[1] = t
    BY <1>1, <1>2, <2>1, Zenon
  <2> QED
    BY <1>3, <2>1, <2>2
<1>6. /\ DOMAIN Append(<<t, u>>, v) = 1..3 /\ Append(<<t, u>>, v)[1] = t
      /\ Append(<<t, u>>, v)[2] = u /\ Append(<<t, u>>, v)[3] = v
  <2>1. PICK r : r = <<t, u>>
    OBVIOUS
  <2>2. r \in Seq(S) /\ Len(r) = 2 /\ r[1] = t /\ r[2] = u
    BY <1>1, <1>2, <2>1, Zenon
  <2>3. v \in S
    BY DEF S
  <2>4. DOMAIN Append(r, v) = 1..3 /\ Append(r, v)[1] = t /\ Append(r, v)[2] = u /\ Append(r, v)[3] = v
    <3>1. /\ DOMAIN Append(r, v) = 1..(Len(r) + 1) /\ Append(r, v)[Len(r) + 1] = v
          /\ \A i \in 1..Len(r) : Append(r, v)[i] = r[i]
      BY <1>4, <2>2, <2>3, Zenon
    <3>2. PICK a : a = Append(r, v)
      OBVIOUS
    <3>3. DOMAIN a = 1..3 /\ a[3] = v /\ a[1] = r[1] /\ a[2] = r[2]
      BY <2>2, <3>1, <3>2
    <3> QED
      BY <2>2, <3>2, <3>3, Zenon
  <2> QED
    BY <2>1, <2>4, Zenon
<1>7. /\ DOMAIN (<<t>> \o <<u, v>>) = 1..3 /\ (<<t>> \o <<u, v>>)[1] = t
      /\ (<<t>> \o <<u, v>>)[2] = u /\ (<<t>> \o <<u, v>>)[3] = v
  <2>1. PICK r, s : r = <<t>> /\ s = <<u, v>>
    OBVIOUS
  <2>2. /\ r \in Seq(S) /\ s \in Seq(S) /\ Len(r) = 1 /\ Len(s) = 2
        /\ r[1] = t /\ s[1] = u /\ s[2] = v
    BY <1>1, <1>2, <2>1, Zenon
  <2>3. DOMAIN (r \o s) = 1..3 /\ (r \o s)[1] = t /\ (r \o s)[2] = u /\ (r \o s)[3] = v
    <3>1. /\ DOMAIN (r \o s) = 1..(Len(r) + Len(s))
          /\ \A i \in 1..Len(r) : (r \o s)[i] = r[i]
          /\ \A i \in 1..Len(s) : (r \o s)[Len(r) + i] = s[i]
      BY <1>3, <2>2, Zenon
    <3>2. PICK a : a = r \o s
      OBVIOUS
    <3>3. DOMAIN a = 1..3 /\ a[1] = r[1] /\ a[2] = s[1] /\ a[3] = s[2]
      BY <2>2, <3>1, <3>2
    <3> QED
      BY <2>2, <3>2, <3>3, Zenon
  <2> QED
    BY <2>1, <2>3, Zenon
<1>8. /\ DOMAIN (<<t, u>> \o <<v, w>>) = 1..4 /\ (<<t, u>> \o <<v, w>>)[1] = t
      /\ (<<t, u>> \o <<v, w>>)[2] = u /\ (<<t, u>> \o <<v, w>>)[3] = v
      /\ (<<t, u>> \o <<v, w>>)[4] = w
  <2>1. PICK r, s : r = <<t, u>> /\ s = <<v, w>>
    OBVIOUS
  <2>2. /\ r \in Seq(S) /\ s \in Seq(S) /\ Len(r) = 2 /\ Len(s) = 2
        /\ r[1] = t /\ r[2] = u /\ s[1] = v /\ s[2] = w
    BY <1>1, <1>2, <2>1, Zenon
  <2>3. /\ DOMAIN (r \o s) = 1..4 /\ (r \o s)[1] = t /\ (r \o s)[2] = u
        /\ (r \o s)[3] = v /\ (r \o s)[4] = w
    <3>1. /\ DOMAIN (r \o s) = 1..(Len(r) + Len(s))
          /\ \A i \in 1..Len(r) : (r \o s)[i] = r[i]
          /\ \A i \in 1..Len(s) : (r \o s)[Len(r) + i] = s[i]
      BY <1>3, <2>2, Zenon
    <3>2. PICK a : a = r \o s
      OBVIOUS
    <3>3. DOMAIN a = 1..4 /\ a[1] = r[1] /\ a[2] = r[2] /\ a[3] = s[1] /\ a[4] = s[2]
      BY <2>2, <3>1, <3>2
    <3> QED
      BY <2>2, <3>2, <3>3, Zenon
  <2> QED
    BY <2>1, <2>3, Zenon
<1> QED
  BY <1>5, <1>6, <1>7, <1>8, Zenon

LEMMA FaultIs == ASSUME NEW b \in BOOLEAN, NEW e PROVE IsFault(<<b, e>>, b, e)
BY DEF IsFault

LEMMA ReadFaults ==
  ASSUME NEW c, c.fn \in {"read_text", "read_bytes", "unlink"}, NEW p, p = PathArg(c, 1)
  PROVE  \E n \in {2, 3} :
           /\ DOMAIN Errors(c) = 1..n
           /\ IsFault(Errors(c)[1], ~Exists(p), "ErrNotExist")
           /\ IsFault(Errors(c)[2], IsDir(p), "EISDIR")
           /\ n = 3 <=> c.fn = "read_text"
           /\ n = 3 => IsFault(Errors(c)[3], DataAt(p) = Binary, "EILSEQ")
<1> DEFINE t == <<~Exists(p), "ErrNotExist">>
           u == <<IsDir(p), "EISDIR">>
           v == <<DataAt(p) = Binary, "EILSEQ">>
<1>1. /\ c.fn = "read_text" => Errors(c) = <<t, u, v>>
      /\ c.fn # "read_text" => Errors(c) = <<t, u>>
  BY DEF Errors
<1>2. /\ IsFault(t, ~Exists(p), "ErrNotExist") /\ IsFault(u, IsDir(p), "EISDIR")
      /\ IsFault(v, DataAt(p) = Binary, "EILSEQ")
  BY FaultIs DEF IsDir
<1> HIDE DEF t, u, v
<1> QED
  BY <1>1, <1>2

LEMMA DirFaults ==
  ASSUME NEW c, c.fn \in {"iterdir", "rmdir"}, NEW p, p = PathArg(c, 1)
  PROVE  \E n \in {2, 3} :
           /\ DOMAIN Errors(c) = 1..n
           /\ IsFault(Errors(c)[1], ~Exists(p), "ErrNotExist")
           /\ IsFault(Errors(c)[2], ~IsDir(p), "ENOTDIR")
           /\ n = 3 <=> c.fn = "rmdir"
           /\ n = 3 => IsFault(Errors(c)[3], Children(p) # {}, "ENOTEMPTY")
<1> DEFINE t == <<~Exists(p), "ErrNotExist">>
           u == <<~IsDir(p), "ENOTDIR">>
           v == <<Children(p) # {}, "ENOTEMPTY">>
<1>1. /\ c.fn = "rmdir" => Errors(c) = <<t, u, v>>
      /\ c.fn # "rmdir" => Errors(c) = <<t, u>>
  BY DEF Errors
<1>2. /\ IsFault(t, ~Exists(p), "ErrNotExist") /\ IsFault(u, ~IsDir(p), "ENOTDIR")
      /\ IsFault(v, Children(p) # {}, "ENOTEMPTY")
  BY FaultIs
<1> HIDE DEF t, u, v
<1> QED
  BY <1>1, <1>2

LEMMA WriteFaults ==
  ASSUME NEW c, c.fn \in {"write_text", "write_bytes"}, NEW p, p = PathArg(c, 1)
  PROVE  /\ DOMAIN Errors(c) = 1..3
         /\ IsFault(Errors(c)[1], ~Exists(Parent(p)), "ErrNotExist")
         /\ IsFault(Errors(c)[2], ~IsDir(Parent(p)), "ENOTDIR")
         /\ IsFault(Errors(c)[3], IsDir(p), "EISDIR")
<1> DEFINE t == <<~Exists(Parent(p)), "ErrNotExist">>
           u == <<~IsDir(Parent(p)), "ENOTDIR">>
           v == <<IsDir(p), "EISDIR">>
<1>1. Errors(c) = Append(<<t, u>>, v)
  BY DEF Errors, ParentErrors
<1>2. /\ IsFault(t, ~Exists(Parent(p)), "ErrNotExist") /\ IsFault(u, ~IsDir(Parent(p)), "ENOTDIR")
      /\ IsFault(v, IsDir(p), "EISDIR")
  BY FaultIs DEF IsDir
<1> HIDE DEF t, u, v
<1> QED
  BY <1>1, <1>2, Faults

LEMMA MkdirFaults ==
  ASSUME NEW c, c.fn = "mkdir", NEW p, p = PathArg(c, 1)
  PROVE  \E n \in {0, 1, 3} :
           /\ DOMAIN Errors(c) = 1..n
           /\ n = 0 <=> p = Root
           /\ n # 0 => IsFault(Errors(c)[1], Exists(p) /\ ~(IsDir(p) /\ BoolKwarg(c, "exist_ok")), "ErrExist")
           /\ n = 3 => /\ IsFault(Errors(c)[2], ~Exists(Parent(p)), "ErrNotExist")
                       /\ IsFault(Errors(c)[3], ~IsDir(Parent(p)), "ENOTDIR")
<1> DEFINE t == <<Exists(p) /\ ~(IsDir(p) /\ BoolKwarg(c, "exist_ok")), "ErrExist">>
           u == <<~Exists(Parent(p)), "ErrNotExist">>
           v == <<~IsDir(Parent(p)), "ENOTDIR">>
<1>1. Errors(c) = IF p = Root THEN <<>>
                  ELSE <<t>> \o (IF Exists(p) \/ BoolKwarg(c, "parents") THEN <<>> ELSE <<u, v>>)
  BY DEF Errors, MkdirErrors, ParentErrors
<1>2. /\ IsFault(t, Exists(p) /\ ~(IsDir(p) /\ BoolKwarg(c, "exist_ok")), "ErrExist")
      /\ IsFault(u, ~Exists(Parent(p)), "ErrNotExist") /\ IsFault(v, ~IsDir(Parent(p)), "ENOTDIR")
  BY FaultIs
<1> HIDE DEF t, u, v
<1>3. CASE p = Root
  <2>1. DOMAIN Errors(c) = 1..0
    BY <1>1, <1>3
  <2> QED
    BY <1>3, <2>1
<1>4. CASE p # Root /\ Errors(c) = <<t>> \o <<>>
  BY <1>2, <1>4, Faults
<1>5. CASE p # Root /\ Errors(c) = <<t>> \o <<u, v>>
  BY <1>2, <1>5, Faults
<1> QED
  BY <1>1, <1>3, <1>4, <1>5

LEMMA RenameFaults ==
  ASSUME NEW c, c.fn = "rename", NEW p, p = PathArg(c, 1), NEW q, q = PathArg(c, 2)
  PROVE  /\ DOMAIN Errors(c) = 1..4
         /\ IsFault(Errors(c)[1], ~Exists(p), "ErrNotExist")
         /\ IsFault(Errors(c)[2], Exists(q), "ErrExist")
         /\ IsFault(Errors(c)[3], ~Exists(Parent(q)), "ErrNotExist")
         /\ IsFault(Errors(c)[4], ~IsDir(Parent(q)), "ENOTDIR")
<1> DEFINE s == <<~Exists(p), "ErrNotExist">>
           t == <<Exists(q), "ErrExist">>
           u == <<~Exists(Parent(q)), "ErrNotExist">>
           v == <<~IsDir(Parent(q)), "ENOTDIR">>
<1>1. Errors(c) = <<s, t>> \o <<u, v>>
  BY DEF Errors, ParentErrors
<1>2. IsFault(s, ~Exists(p), "ErrNotExist") /\ IsFault(u, ~Exists(Parent(q)), "ErrNotExist")
  BY FaultIs
<1>3. IsFault(t, Exists(q), "ErrExist")
  <2>1. Exists(q) \in BOOLEAN
    BY DEF Exists
  <2> QED
    BY <2>1, FaultIs
<1>4. IsFault(v, ~IsDir(Parent(q)), "ENOTDIR")
  BY FaultIs
<1> HIDE DEF s, t, u, v
<1> QED
  BY <1>1, <1>2, <1>3, <1>4, Faults

LEMMA OneFault ==
  ASSUME NEW c, NEW p, p = PathArg(c, 1)
  PROVE  /\ c.fn = "stat" => /\ DOMAIN Errors(c) = 1..1
                             /\ IsFault(Errors(c)[1], ~Exists(p), "ErrNotExist")
         /\ c.fn = "resolve" => /\ DOMAIN Errors(c) = 1..1
                                /\ IsFault(Errors(c)[1], IsKind(Resolved(p), "link"), "ELOOP")
         /\ c.fn \in {"exists", "is_file", "is_dir", "is_symlink", "absolute"} => Failing(c) = {}
<1> DEFINE t == <<~Exists(p), "ErrNotExist">>
           u == <<IsKind(Resolved(p), "link"), "ELOOP">>
<1>1. c.fn = "stat" => Errors(c) = <<t>>
  BY DEF Errors
<1>2. c.fn = "resolve" => Errors(c) = <<u>>
  BY DEF Errors
<1>3. IsFault(t, ~Exists(p), "ErrNotExist") /\ IsFault(u, IsKind(Resolved(p), "link"), "ELOOP")
  BY FaultIs DEF IsKind
<1> HIDE DEF t, u
<1>4. CASE c.fn \in {"exists", "is_file", "is_dir", "is_symlink", "absolute"}
  <2>1. Errors(c) = <<>>
    BY <1>4 DEF Errors
  <2> QED
    BY <1>4, <2>1 DEF Failing
<1> QED
  BY <1>1, <1>2, <1>3, <1>4

LEMMA MapErrorIs ==
  /\ MapError("ErrNotExist") = "FileNotFoundError" /\ MapError("ErrExist") = "FileExistsError"
  /\ MapError("ENOTEMPTY") = "FileExistsError" /\ MapError("EISDIR") = "IsADirectoryError"
  /\ MapError("ENOTDIR") = "NotADirectoryError" /\ MapError("EILSEQ") = "UnicodeDecodeError"
  /\ MapError("ELOOP") = "OSError"
BY DEF MapError

\* What each exception needs to be true.
LEMMA TruthIs ==
  ASSUME NEW c
  PROVE  /\ (\E p \in Needs(c) : ~Exists(p)) => Truthful(c, "FileNotFoundError")
         /\ (\E p \in Makes(c) : Exists(p)) => Truthful(c, "FileExistsError")
         /\ c.fn = "rmdir" /\ Children(PathArg(c, 1)) # {} => Truthful(c, "FileExistsError")
         /\ IsDir(PathArg(c, 1)) => Truthful(c, "IsADirectoryError")
         /\ (\E p \in Needs(c) : Exists(p) /\ ~IsDir(p)) => Truthful(c, "NotADirectoryError")
         /\ DataAt(PathArg(c, 1)) = Binary => Truthful(c, "UnicodeDecodeError")
         /\ Endless(PathArg(c, 1)) => Truthful(c, "OSError")
         /\ c.fn = "import" => Truthful(c, "ModuleNotFoundError")
         /\ setup = "bare" \/ c.fn = "other" => Truthful(c, "NotImplementedError")
<1>1. (\E p \in Needs(c) : ~Exists(p)) => Truthful(c, "FileNotFoundError")
  BY DEF Truthful
<1>2. (\E p \in Makes(c) : Exists(p)) => Truthful(c, "FileExistsError")
  BY DEF Truthful
<1>3. c.fn = "rmdir" /\ Children(PathArg(c, 1)) # {} => Truthful(c, "FileExistsError")
  BY DEF Truthful
<1>4. IsDir(PathArg(c, 1)) => Truthful(c, "IsADirectoryError")
  BY DEF Truthful
<1>5. (\E p \in Needs(c) : Exists(p) /\ ~IsDir(p)) => Truthful(c, "NotADirectoryError")
  BY DEF Truthful
<1>6. DataAt(PathArg(c, 1)) = Binary => Truthful(c, "UnicodeDecodeError")
  BY DEF Truthful
<1>7. Endless(PathArg(c, 1)) => Truthful(c, "OSError")
  BY DEF Truthful
<1>8. c.fn = "import" => Truthful(c, "ModuleNotFoundError")
  BY DEF Truthful
<1>9. setup = "bare" \/ c.fn = "other" => Truthful(c, "NotImplementedError")
  BY DEF Truthful
<1> QED
  BY <1>1, <1>2, <1>3, <1>4, <1>5, <1>6, <1>7, <1>8, <1>9

LEMMA NeedsAre ==
  ASSUME NEW c
  PROVE  /\ c.fn \in {"write_text", "write_bytes", "mkdir"} =>
              PathArg(c, 1) \in Makes(c) /\ Parent(PathArg(c, 1)) \in Needs(c)
         /\ c.fn = "rename" => PathArg(c, 2) \in Makes(c) /\ Parent(PathArg(c, 2)) \in Needs(c)
         /\ c.fn \notin {"write_text", "write_bytes", "mkdir"} => PathArg(c, 1) \in Needs(c)
BY DEF Makes, Needs

\* Whatever is wrong, the exception says so.
LEMMA FaultsAreTrue ==
  ASSUME Typed, NEW c, PathCallOf(c), Failing(c) # {}
  PROVE  Truthful(c, MapError(Error(c)))
<1> DEFINE p == PathArg(c, 1)
           q == PathArg(c, 2)
<1>1. c.fn \in PathOps /\ p \in Paths
  BY DEF PathCallOf
<1> HIDE DEF p, q
<1>2. CASE c.fn \in {"read_text", "read_bytes", "unlink"}
  <2>1. PICK n \in {2, 3} :
           /\ DOMAIN Errors(c) = 1..n
           /\ IsFault(Errors(c)[1], ~Exists(p), "ErrNotExist")
           /\ IsFault(Errors(c)[2], IsDir(p), "EISDIR")
           /\ n = 3 => IsFault(Errors(c)[3], DataAt(p) = Binary, "EILSEQ")
    BY <1>2, ReadFaults DEF p
  <2>2. PICK i \in 1..n : Errors(c)[i][1] /\ Error(c) = Errors(c)[i][2]
    BY <2>1, FirstFault
  <2>3. \/ Error(c) = "ErrNotExist" /\ ~Exists(p)
        \/ Error(c) = "EISDIR" /\ IsDir(p)
        \/ Error(c) = "EILSEQ" /\ DataAt(p) = Binary
    BY <2>1, <2>2 DEF IsFault
  <2>4. p \in Needs(c)
    BY <1>2, NeedsAre DEF p
  <2> QED
    BY <2>3, <2>4, MapErrorIs, TruthIs DEF p
<1>3. CASE c.fn \in {"iterdir", "rmdir"}
  <2>1. PICK n \in {2, 3} :
           /\ DOMAIN Errors(c) = 1..n
           /\ IsFault(Errors(c)[1], ~Exists(p), "ErrNotExist")
           /\ IsFault(Errors(c)[2], ~IsDir(p), "ENOTDIR")
           /\ n = 3 <=> c.fn = "rmdir"
           /\ n = 3 => IsFault(Errors(c)[3], Children(p) # {}, "ENOTEMPTY")
    BY <1>3, DirFaults DEF p
  <2>2. PICK i \in 1..n : /\ Errors(c)[i][1] /\ Error(c) = Errors(c)[i][2]
                          /\ \A j \in 1..n : Errors(c)[j][1] => i <= j
    BY <2>1, FirstFault
  <2>3. \/ Error(c) = "ErrNotExist" /\ ~Exists(p)
        \/ Error(c) = "ENOTDIR" /\ Exists(p) /\ ~IsDir(p)
        \/ Error(c) = "ENOTEMPTY" /\ c.fn = "rmdir" /\ Children(p) # {}
    BY <2>1, <2>2 DEF IsFault
  <2>4. p \in Needs(c)
    BY <1>3, NeedsAre DEF p
  <2> QED
    BY <2>3, <2>4, MapErrorIs, TruthIs DEF p
<1>4. CASE c.fn \in {"write_text", "write_bytes"}
  <2>1. /\ DOMAIN Errors(c) = 1..3
        /\ IsFault(Errors(c)[1], ~Exists(Parent(p)), "ErrNotExist")
        /\ IsFault(Errors(c)[2], ~IsDir(Parent(p)), "ENOTDIR")
        /\ IsFault(Errors(c)[3], IsDir(p), "EISDIR")
    BY <1>4, WriteFaults DEF p
  <2>2. PICK i \in 1..3 : /\ Errors(c)[i][1] /\ Error(c) = Errors(c)[i][2]
                          /\ \A j \in 1..3 : Errors(c)[j][1] => i <= j
    BY <2>1, FirstFault
  <2>3. \/ Error(c) = "ErrNotExist" /\ ~Exists(Parent(p))
        \/ Error(c) = "ENOTDIR" /\ Exists(Parent(p)) /\ ~IsDir(Parent(p))
        \/ Error(c) = "EISDIR" /\ IsDir(p)
    BY <2>1, <2>2 DEF IsFault
  <2>4. Parent(p) \in Needs(c)
    BY <1>4, NeedsAre DEF p
  <2> QED
    BY <2>3, <2>4, MapErrorIs, TruthIs DEF p
<1>5. CASE c.fn = "mkdir"
  <2>1. PICK n \in {0, 1, 3} :
           /\ DOMAIN Errors(c) = 1..n
           /\ n # 0 => IsFault(Errors(c)[1], Exists(p) /\ ~(IsDir(p) /\ BoolKwarg(c, "exist_ok")), "ErrExist")
           /\ n = 3 => /\ IsFault(Errors(c)[2], ~Exists(Parent(p)), "ErrNotExist")
                       /\ IsFault(Errors(c)[3], ~IsDir(Parent(p)), "ENOTDIR")
    BY <1>5, MkdirFaults DEF p
  <2>2. PICK i \in 1..n : /\ Errors(c)[i][1] /\ Error(c) = Errors(c)[i][2]
                          /\ \A j \in 1..n : Errors(c)[j][1] => i <= j
    BY <2>1, FirstFault
  <2>3. \/ Error(c) = "ErrExist" /\ Exists(p)
        \/ Error(c) = "ErrNotExist" /\ ~Exists(Parent(p))
        \/ Error(c) = "ENOTDIR" /\ Exists(Parent(p)) /\ ~IsDir(Parent(p))
    BY <2>1, <2>2 DEF IsFault
  <2>4. p \in Makes(c) /\ Parent(p) \in Needs(c)
    BY <1>5, NeedsAre DEF p
  <2> QED
    BY <2>3, <2>4, MapErrorIs, TruthIs DEF p
<1>6. CASE c.fn = "rename"
  <2>1. /\ DOMAIN Errors(c) = 1..4
        /\ IsFault(Errors(c)[1], ~Exists(p), "ErrNotExist")
        /\ IsFault(Errors(c)[2], Exists(q), "ErrExist")
        /\ IsFault(Errors(c)[3], ~Exists(Parent(q)), "ErrNotExist")
        /\ IsFault(Errors(c)[4], ~IsDir(Parent(q)), "ENOTDIR")
    BY <1>6, RenameFaults DEF p, q
  <2>2. PICK i \in 1..4 : /\ Errors(c)[i][1] /\ Error(c) = Errors(c)[i][2]
                          /\ \A j \in 1..4 : Errors(c)[j][1] => i <= j
    BY <2>1, FirstFault
  <2>3. \/ Error(c) = "ErrNotExist" /\ ~Exists(p)
        \/ Error(c) = "ErrExist" /\ Exists(q)
        \/ Error(c) = "ErrNotExist" /\ ~Exists(Parent(q))
        \/ Error(c) = "ENOTDIR" /\ Exists(Parent(q)) /\ ~IsDir(Parent(q))
    BY <2>1, <2>2 DEF IsFault
  <2>4. p \in Needs(c) /\ q \in Makes(c) /\ Parent(q) \in Needs(c)
    BY <1>6, NeedsAre DEF p, q
  <2> QED
    BY <2>3, <2>4, MapErrorIs, TruthIs DEF p, q
<1>7. CASE c.fn = "stat"
  <2>1. DOMAIN Errors(c) = 1..1 /\ IsFault(Errors(c)[1], ~Exists(p), "ErrNotExist")
    BY <1>7, OneFault DEF p
  <2>2. PICK i \in 1..1 : Errors(c)[i][1] /\ Error(c) = Errors(c)[i][2]
    BY <2>1, FirstFault
  <2>3. Error(c) = "ErrNotExist" /\ ~Exists(p)
    BY <2>1, <2>2 DEF IsFault
  <2>4. p \in Needs(c)
    BY <1>7, NeedsAre DEF p
  <2> QED
    BY <2>3, <2>4, MapErrorIs, TruthIs DEF p
<1>8. CASE c.fn = "resolve"
  <2>1. DOMAIN Errors(c) = 1..1 /\ IsFault(Errors(c)[1], IsKind(Resolved(p), "link"), "ELOOP")
    BY <1>8, OneFault DEF p
  <2>2. PICK i \in 1..1 : Errors(c)[i][1] /\ Error(c) = Errors(c)[i][2]
    BY <2>1, FirstFault
  <2>3. Error(c) = "ELOOP" /\ IsKind(Resolved(p), "link")
    BY <2>1, <2>2 DEF IsFault
  <2>4. Endless(p)
    BY <1>1, <2>3, ResolvedIs
  <2> QED
    BY <2>3, <2>4, MapErrorIs, TruthIs DEF p
<1>9. CASE c.fn \in {"exists", "is_file", "is_dir", "is_symlink", "absolute"}
  BY <1>9, OneFault DEF p
<1> QED
  BY <1>1, <1>2, <1>3, <1>4, <1>5, <1>6, <1>7, <1>8, <1>9 DEF PathOps

Exceptions == {"FileNotFoundError", "FileExistsError", "IsADirectoryError", "NotADirectoryError",
               "UnicodeDecodeError", "OSError", "ModuleNotFoundError", "NotImplementedError"}

LEMMA RaisedIsTrue ==
  ASSUME Typed, NEW c, PathCallOf(c), Handle(c).is = "exception"
  PROVE  Truthful(c, Handle(c).type) /\ Handle(c).type \in Exceptions
<1>1. c.fn \in PathOps /\ c.fn \notin {"import", "other"}
  BY DEF PathCallOf, PathOps
<1>2. \/ setup = "bare" /\ Handle(c) = Raise("NotImplementedError")
      \/ Failing(c) # {} /\ Handle(c) = Raise(MapError(Error(c)))
      \/ Handle(c) = Return(Found(c))
  BY <1>1 DEF Handle
<1>3. \A e : MapError(e) \in Exceptions
  BY DEF MapError, Exceptions
<1>4. "NotImplementedError" \in Exceptions
  BY DEF Exceptions
<1> QED
  BY <1>2, <1>3, <1>4, FaultsAreTrue, TruthIs DEF Return, Raise

\* The truth of an exception is about the files and the setup alone.
LEMMA TruthStays ==
  ASSUME UNCHANGED <<entries, setup>>, NEW c, NEW e \in Exceptions, Truthful(c, e)
  PROVE  Truthful(c, e)'
<1>1. \A p : (Exists(p) <=> Exists(p)') /\ (IsDir(p) <=> IsDir(p)')
  BY DEF Exists, IsDir
<1>2. DataAt(PathArg(c, 1)) = DataAt(PathArg(c, 1))'
  BY DEF DataAt, IsKind, Exists, PathArg
<1>3. Children(PathArg(c, 1)) = Children(PathArg(c, 1))'
  BY DEF Children, PathArg
<1>4. Endless(PathArg(c, 1)) <=> Endless(PathArg(c, 1))'
  BY DEF Endless, IsKind, Exists, PathArg
<1>5. Needs(c) = Needs(c)' /\ Makes(c) = Makes(c)'
  BY DEF Needs, Makes, PathArg
<1>6. (\E p \in Needs(c) : ~Exists(p)) => (\E p \in Needs(c) : ~Exists(p))'
  BY <1>1, <1>5
<1>7. (\E p \in Makes(c) : Exists(p)) => (\E p \in Makes(c) : Exists(p))'
  BY <1>1, <1>5
<1>8. (\E p \in Needs(c) : Exists(p) /\ ~IsDir(p)) => (\E p \in Needs(c) : Exists(p) /\ ~IsDir(p))'
  BY <1>1, <1>5
<1>9. CASE e = "FileNotFoundError"
  BY <1>6, <1>9 DEF Truthful
<1>10. CASE e = "FileExistsError"
  BY <1>3, <1>7, <1>10 DEF Truthful
<1>11. CASE e = "IsADirectoryError"
  BY <1>1, <1>11 DEF Truthful
<1>12. CASE e = "NotADirectoryError"
  BY <1>8, <1>12 DEF Truthful
<1>13. CASE e = "UnicodeDecodeError"
  BY <1>2, <1>13 DEF Truthful
<1>14. CASE e = "OSError"
  BY <1>4, <1>14 DEF Truthful
<1>15. CASE e = "ModuleNotFoundError"
  BY <1>15 DEF Truthful
<1>16. CASE e = "NotImplementedError"
  BY <1>16 DEF Truthful
<1> QED
  BY <1>9, <1>10, <1>11, <1>12, <1>13, <1>14, <1>15, <1>16 DEF Exceptions

-----------------------------------------------------------------------------
(* What a program has been told.                                           *)

\* What holds of a call that was answered, as long as nobody else has changed
\* the files.
NamesError == (served # Nothing /\ served.answer.is = "exception") =>
                served.answer.type \in Exceptions
ServedInv  == Typed /\ AnswersAreAccepted /\ DefaultComesBack /\ ErrorsAreTruthful /\ NamesError

LEMMA NothingServed ==
  ASSUME served = Nothing
  PROVE  AnswersAreAccepted /\ DefaultComesBack /\ ErrorsAreTruthful /\ NamesError
BY DEF AnswersAreAccepted, DefaultComesBack, ErrorsAreTruthful, NamesError

LEMMA ServedInvInit == OSInit => ServedInv
BY TypedInit, NothingServed DEF OSInit, ServedInv

\* The three follow from what is true of the answer.
LEMMA ServedOfNext ==
  ASSUME NEW c, NEW r, served' = [call |-> c, answer |-> r],
         r.is = "refused" <=> AnswersOutput(c)',
         r.is = "return" /\ c.fn = "getenv" => r.value = GetenvAnswer(c)',
         r.is = "exception" => Truthful(c, r.type)' /\ r.type \in Exceptions
  PROVE  AnswersAreAccepted' /\ DefaultComesBack' /\ ErrorsAreTruthful' /\ NamesError'
<1>1. served'.call = c /\ served'.answer = r
  OBVIOUS
<1>2. AnswersAreAccepted'
  BY <1>1 DEF AnswersAreAccepted, AnswersOutput, AnswersDefault
<1>3. DefaultComesBack'
  BY <1>1 DEF DefaultComesBack, GetenvAnswer
<1>4. ErrorsAreTruthful'
  BY <1>1 DEF ErrorsAreTruthful
<1>5. NamesError'
  BY <1>1 DEF NamesError
<1> QED
  BY <1>2, <1>3, <1>4, <1>5

LEMMA ServedInvStep == ServedInv /\ [OSNext]_osVars => ServedInv'
<1> SUFFICES ASSUME ServedInv, [OSNext]_osVars PROVE ServedInv'
  OBVIOUS
<1>1. Typed /\ Typed'
  BY OSNextChanges, TypedStep DEF ServedInv
<1>2. ASSUME NEW c \in PathCalls, Serve(c)
      PROVE  AnswersAreAccepted' /\ DefaultComesBack' /\ ErrorsAreTruthful' /\ NamesError'
  <2>1. PathCallOf(c) /\ c.fn \in PathOps /\ c.fn # "getenv"
    BY PathCallIs DEF PathCallOf, PathOps
  <2>2. /\ Arrives(c) /\ Received(c) = c /\ Answer(c) = Handle(c)
        /\ Handle(c).is \in {"return", "exception"}
    BY <1>1, <2>1, PathAnswers
  <2>3. PICK r : r = Answer(c)
    OBVIOUS
  <2>4. r.is = "exception" => Truthful(c, r.type)' /\ r.type \in Exceptions
    <3> SUFFICES ASSUME r.is = "exception" PROVE Truthful(c, r.type)' /\ r.type \in Exceptions
      OBVIOUS
    <3>1. UNCHANGED <<entries, setup>>
      BY <1>2, <2>2, <2>3 DEF Serve
    <3>2. Truthful(c, r.type) /\ r.type \in Exceptions
      BY <1>1, <2>1, <2>2, <2>3, RaisedIsTrue
    <3> QED
      BY <3>1, <3>2, TruthStays
  <2>5. served' = [call |-> c, answer |-> r]
    BY <1>2, <2>3 DEF Serve
  <2>6. r.is # "refused" /\ ~AnswersOutput(c)'
    BY <2>1, <2>2, <2>3 DEF AnswersOutput, AnswersDefault
  <2> QED
    BY <2>1, <2>4, <2>5, <2>6, ServedOfNext
<1>3. ASSUME NEW c \in OtherCalls, Serve(c)
      PROVE  AnswersAreAccepted' /\ DefaultComesBack' /\ ErrorsAreTruthful' /\ NamesError'
  <2>1. OtherAnswered(c)
    BY <1>3, OtherAnswers
  <2>2. PICK r : r = Answer(c)
    OBVIOUS
  <2>3. served' = [call |-> c, answer |-> r] /\ UNCHANGED setup
    BY <1>3, <2>2 DEF Serve
  <2>4. r.is = "refused" <=> AnswersOutput(c)'
    BY <2>1, <2>2, <2>3 DEF OtherAnswered, AnswersOutput, AnswersDefault
  <2>5. r.is = "return" /\ c.fn = "getenv" => r.value = GetenvAnswer(c)'
    BY <2>1, <2>2, <2>3 DEF OtherAnswered, GetenvAnswer
  <2>6. r.is = "exception" => Truthful(c, r.type)' /\ r.type \in Exceptions
    BY <2>1, <2>2 DEF OtherAnswered, Truthful, Exceptions
  <2> QED
    BY <2>3, <2>4, <2>5, <2>6, ServedOfNext
<1>4. ASSUME served' = Nothing
      PROVE  AnswersAreAccepted' /\ DefaultComesBack' /\ ErrorsAreTruthful' /\ NamesError'
  BY <1>4 DEF AnswersAreAccepted, DefaultComesBack, ErrorsAreTruthful, NamesError
<1>5. CASE UNCHANGED osVars
  <2>1. UNCHANGED <<entries, setup>> /\ UNCHANGED served
    BY <1>5 DEF osVars
  <2>2. AnswersAreAccepted'
    BY <2>1 DEF ServedInv, AnswersAreAccepted, AnswersDefault
  <2>3. DefaultComesBack'
    BY <2>1 DEF ServedInv, DefaultComesBack
  <2>4. ErrorsAreTruthful'
    <3> SUFFICES ASSUME served' # Nothing /\ served'.answer.is = "exception"
                 PROVE  Truthful(served.call, served.answer.type)'
      BY DEF ErrorsAreTruthful
    <3>1. PICK c, e : c = served.call /\ e = served.answer.type
      OBVIOUS
    <3>2. Truthful(c, e) /\ e \in Exceptions
      BY <2>1, <3>1 DEF ServedInv, ErrorsAreTruthful, NamesError
    <3>3. Truthful(c, e)'
      BY <2>1, <3>2, TruthStays
    <3>4. c = served'.call /\ e = served'.answer.type
      BY <2>1, <3>1
    <3> QED
      BY <3>3, <3>4
  <2>5. NamesError'
    BY <2>1 DEF ServedInv, NamesError
  <2> QED
    BY <1>1, <2>2, <2>3, <2>4, <2>5 DEF ServedInv
<1>6. CASE ChangeByOthers
  BY <1>1, <1>4, <1>6 DEF ServedInv, ChangeByOthers
<1>7. CASE AskPath
  BY <1>1, <1>2, <1>7 DEF ServedInv, AskPath
<1>8. CASE AskOther
  BY <1>1, <1>3, <1>8 DEF ServedInv, AskOther
<1>9. CASE Take
  BY <1>1, <1>4, <1>9 DEF ServedInv, Take
<1> QED
  BY <1>5, <1>6, <1>7, <1>8, <1>9 DEF OSNext

LEMMA ServedInvariance == OSSpec => []ServedInv
BY ServedInvInit, ServedInvStep, PTL DEF OSSpec

\* No OS call fails a run, whatever the files hold and whoever changes them: Go
\* takes the arguments of every call and Rust every answer, by its kinds, its
\* classes and the name of its exception, but for a default of os.getenv with
\* something in it that is only for output, which is never answered.
THEOREM NoCallIsRefused == OSSpec => []AnswersAreAccepted
BY ServedInvariance, PTL DEF ServedInv

\* For all the values a program may pass as a default, however deeply nested:
\* what os.getenv answers, when its answer is taken, is that value again, with
\* the sign of a zero lost.
THEOREM DefaultIsReturned == OSSpec => []DefaultComesBack
BY ServedInvariance, PTL DEF ServedInv

\* Every exception says what is wrong: the table of
\* mapError and the order of the checks in each method, for trees of every size,
\* the careless ones included; in particular, a walk of as many links as there
\* are entries that still ends at a link has gone round a cycle.
THEOREM ExceptionsAreTruthful == OSSpec => []ErrorsAreTruthful
BY ServedInvariance, PTL DEF ServedInv

-----------------------------------------------------------------------------
(* What a program is told of a path.                                       *)

LEMMA NoFault ==
  ASSUME NEW c, NEW n \in Nat, DOMAIN Errors(c) = 1..n
  PROVE  Failing(c) = {} <=> \A i \in 1..n : ~Errors(c)[i][1]
BY DEF Failing

LEMMA TheAnswer ==
  ASSUME Typed, setup = "full", NEW p \in Paths,
         NEW fn \in PathOps \ {"write_text", "write_bytes", "rename"}
  PROVE  \E c : /\ c.fn = fn /\ PathArg(c, 1) = p
                /\ Told(fn, p) = IF Failing(c) = {} THEN Return(Found(c)) ELSE Raise(MapError(Error(c)))
<1> DEFINE c == Call(fn, <<PathValue(p)>>, <<>>)
<1>1. IsClean(PathValue(p)) /\ Raw(PathValue(p)) = PathToken(p)
  BY PathValueIs
<1>2. IsCall(c) /\ c.fn = fn /\ c.args = <<PathValue(p)>>
  BY <1>1, OneArg
<1>3. PathArg(c, 1) = p
  BY <1>1, <1>2, PathTokens DEF PathArg
<1>4. Told(fn, p) = Answer(c)
  BY DEF Told
<1> HIDE DEF c
<1>5. PathCallOf(c)
  BY <1>2, <1>3 DEF PathCallOf
<1>6. Answer(c) = Handle(c)
  BY <1>5, PathAnswers
<1>7. c.fn # "import" /\ c.fn # "other" /\ setup # "bare"
  BY <1>2 DEF PathOps
<1>8. Handle(c) = IF Failing(c) = {} THEN Return(Found(c)) ELSE Raise(MapError(Error(c)))
  BY <1>7 DEF Handle
<1> QED
  BY <1>2, <1>3, <1>4, <1>6, <1>8

LEMMA ProbesTell ==
  ASSUME Typed, setup = "full", NEW p \in Paths
  PROVE  /\ Yes("exists", p) <=> Exists(p)
         /\ Yes("is_file", p) <=> IsKind(p, "file")
         /\ Yes("is_dir", p) <=> IsDir(p)
         /\ Yes("is_symlink", p) <=> IsKind(p, "link")
<1>1. /\ Exists(p) \in BOOLEAN /\ IsKind(p, "file") \in BOOLEAN
      /\ IsDir(p) \in BOOLEAN /\ IsKind(p, "link") \in BOOLEAN
  BY DEF Exists, IsKind, IsDir
<1>2. ASSUME NEW fn \in {"exists", "is_file", "is_dir", "is_symlink"}, NEW b \in BOOLEAN,
             \A c : c.fn = fn /\ PathArg(c, 1) = p => Found(c) = Bool(b)
      PROVE  Yes(fn, p) <=> b
  <2>1. PICK c : /\ c.fn = fn /\ PathArg(c, 1) = p
                 /\ Told(fn, p) = IF Failing(c) = {} THEN Return(Found(c)) ELSE Raise(MapError(Error(c)))
    BY TheAnswer DEF PathOps
  <2>2. Told(fn, p) = Return(Bool(b))
    BY <1>2, <2>1, OneFault
  <2>3. PICK v, w : v = Bool(b) /\ w = Bool(TRUE)
    OBVIOUS
  <2>4. b <=> v = w
    BY <2>3, BoolIs
  <2>5. Yes(fn, p) <=> Return(v) = Return(w)
    BY <2>2, <2>3 DEF Yes
  <2>6. Return(v) = Return(w) <=> v = w
    BY DEF Return
  <2> QED
    BY <2>4, <2>5, <2>6
<1>3. /\ \A c : c.fn = "exists" /\ PathArg(c, 1) = p => Found(c) = Bool(Exists(p))
      /\ \A c : c.fn = "is_file" /\ PathArg(c, 1) = p => Found(c) = Bool(IsKind(p, "file"))
      /\ \A c : c.fn = "is_dir" /\ PathArg(c, 1) = p => Found(c) = Bool(IsDir(p))
      /\ \A c : c.fn = "is_symlink" /\ PathArg(c, 1) = p => Found(c) = Bool(IsKind(p, "link"))
  BY DEF Found
<1>4. Yes("exists", p) <=> Exists(p)
  BY <1>1, <1>2, <1>3
<1>5. Yes("is_file", p) <=> IsKind(p, "file")
  BY <1>1, <1>2, <1>3
<1>6. Yes("is_dir", p) <=> IsDir(p)
  BY <1>1, <1>2, <1>3
<1>7. Yes("is_symlink", p) <=> IsKind(p, "link")
  BY <1>1, <1>2, <1>3
<1> QED
  BY <1>4, <1>5, <1>6, <1>7

LEMMA StatTells ==
  ASSUME Typed, setup = "full", NEW p \in Paths
  PROVE  /\ Answered("stat", p) <=> Exists(p)
         /\ Exists(p) => Told("stat", p).value = StatAt(p)
<1>1. PICK c : /\ c.fn = "stat" /\ PathArg(c, 1) = p
               /\ Told("stat", p) = IF Failing(c) = {} THEN Return(Found(c)) ELSE Raise(MapError(Error(c)))
  BY TheAnswer DEF PathOps
<1>2. DOMAIN Errors(c) = 1..1 /\ IsFault(Errors(c)[1], ~Exists(p), "ErrNotExist")
  BY <1>1, OneFault
<1>3. Failing(c) = {} <=> Exists(p)
  <2>1. Failing(c) = {} <=> \A i \in 1..1 : ~Errors(c)[i][1]
    BY <1>2, NoFault
  <2>2. 1..1 = {1}
    OBVIOUS
  <2> QED
    BY <1>2, <2>1, <2>2 DEF IsFault
<1>4. Found(c) = StatAt(p)
  BY <1>1 DEF Found
<1> QED
  BY <1>1, <1>3, <1>4 DEF Answered, Return, Raise

LEMMA ReadsTell ==
  ASSUME Typed, setup = "full", NEW p \in Paths
  PROVE  /\ Answered("read_bytes", p) <=> Exists(p) /\ ~IsDir(p)
         /\ Answered("read_bytes", p) => Told("read_bytes", p) = Return(Plain("bytes", "bytes", DataAt(p)))
         /\ Answered("read_text", p) <=> Exists(p) /\ ~IsDir(p) /\ DataAt(p) # Binary
         /\ Answered("read_text", p) => Told("read_text", p) = Return(Str(DataAt(p)))
<1>1. PICK c : /\ c.fn = "read_bytes" /\ PathArg(c, 1) = p
               /\ Told("read_bytes", p) = IF Failing(c) = {} THEN Return(Found(c)) ELSE Raise(MapError(Error(c)))
  BY TheAnswer DEF PathOps
<1>2. Failing(c) = {} <=> Exists(p) /\ ~IsDir(p)
  <2>1. PICK n \in {2, 3} : /\ DOMAIN Errors(c) = 1..n
                            /\ IsFault(Errors(c)[1], ~Exists(p), "ErrNotExist")
                            /\ IsFault(Errors(c)[2], IsDir(p), "EISDIR")
                            /\ n = 3 <=> c.fn = "read_text"
    BY <1>1, ReadFaults
  <2>2. n = 2 /\ 1..2 = {1, 2}
    BY <1>1, <2>1
  <2> QED
    BY <2>1, <2>2, NoFault DEF IsFault
<1>3. Found(c) = Plain("bytes", "bytes", DataAt(p))
  BY <1>1 DEF Found
<1>4. PICK d : /\ d.fn = "read_text" /\ PathArg(d, 1) = p
               /\ Told("read_text", p) = IF Failing(d) = {} THEN Return(Found(d)) ELSE Raise(MapError(Error(d)))
  BY TheAnswer DEF PathOps
<1>5. Failing(d) = {} <=> Exists(p) /\ ~IsDir(p) /\ DataAt(p) # Binary
  <2>1. PICK n \in {2, 3} : /\ DOMAIN Errors(d) = 1..n
                            /\ IsFault(Errors(d)[1], ~Exists(p), "ErrNotExist")
                            /\ IsFault(Errors(d)[2], IsDir(p), "EISDIR")
                            /\ n = 3 <=> d.fn = "read_text"
                            /\ n = 3 => IsFault(Errors(d)[3], DataAt(p) = Binary, "EILSEQ")
    BY <1>4, ReadFaults
  <2>2. n = 3 /\ 1..3 = {1, 2, 3}
    BY <1>4, <2>1
  <2> QED
    BY <2>1, <2>2, NoFault DEF IsFault
<1>6. Found(d) = Str(DataAt(p))
  BY <1>4 DEF Found
<1> QED
  BY <1>1, <1>2, <1>3, <1>4, <1>5, <1>6 DEF Answered, Return, Raise

LEMMA ListTells ==
  ASSUME Typed, setup = "full", NEW p \in Paths
  PROVE  /\ Answered("iterdir", p) <=> IsDir(p)
         /\ IsDir(p) => Told("iterdir", p).value = Listing(p)
<1>1. PICK c : /\ c.fn = "iterdir" /\ PathArg(c, 1) = p
               /\ Told("iterdir", p) = IF Failing(c) = {} THEN Return(Found(c)) ELSE Raise(MapError(Error(c)))
  BY TheAnswer DEF PathOps
<1>2. Failing(c) = {} <=> IsDir(p)
  <2>1. PICK n \in {2, 3} : /\ DOMAIN Errors(c) = 1..n
                            /\ IsFault(Errors(c)[1], ~Exists(p), "ErrNotExist")
                            /\ IsFault(Errors(c)[2], ~IsDir(p), "ENOTDIR")
                            /\ n = 3 <=> c.fn = "rmdir"
    BY <1>1, DirFaults
  <2>2. n = 2 /\ 1..2 = {1, 2}
    BY <1>1, <2>1
  <2>3. IsDir(p) => Exists(p)
    BY DEF IsDir
  <2> QED
    BY <2>1, <2>2, <2>3, NoFault DEF IsFault
<1>3. Found(c) = Listing(p)
  BY <1>1 DEF Found, Listing
<1> QED
  BY <1>1, <1>2, <1>3 DEF Answered, Return, Raise

LEMMA ResolveTells ==
  ASSUME Typed, setup = "full", NEW p \in Paths, Answered("resolve", p)
  PROVE  /\ Resolved(p) \in Paths /\ ~IsKind(Resolved(p), "link")
         /\ Told("resolve", p).value = Str(PathToken(Resolved(p)))
<1>1. PICK c : /\ c.fn = "resolve" /\ PathArg(c, 1) = p
               /\ Told("resolve", p) = IF Failing(c) = {} THEN Return(Found(c)) ELSE Raise(MapError(Error(c)))
  BY TheAnswer DEF PathOps
<1>2. DOMAIN Errors(c) = 1..1 /\ IsFault(Errors(c)[1], IsKind(Resolved(p), "link"), "ELOOP")
  BY <1>1, OneFault
<1>3. Failing(c) = {} <=> ~IsKind(Resolved(p), "link")
  <2>1. Failing(c) = {} <=> \A i \in 1..1 : ~Errors(c)[i][1]
    BY <1>2, NoFault
  <2>2. 1..1 = {1}
    OBVIOUS
  <2> QED
    BY <1>2, <2>1, <2>2 DEF IsFault
<1>4. Found(c) = Str(PathToken(Resolved(p)))
  BY <1>1 DEF Found
<1>5. Failing(c) = {}
  BY <1>1 DEF Answered, Raise
<1> QED
  BY <1>1, <1>3, <1>4, <1>5, ResolvedIs DEF Return

-----------------------------------------------------------------------------
(* The answers to different questions.                                     *)

\* An entry is of one kind, and a probe says yes for each.
LEMMA OneProbe ==
  ASSUME Typed, setup = "full", NEW p \in Paths
  PROVE  Cardinality({fn \in {"is_file", "is_dir", "is_symlink"} : Yes(fn, p)})
           = IF Yes("exists", p) THEN 1 ELSE 0
<1> DEFINE S == {fn \in {"is_file", "is_dir", "is_symlink"} : Yes(fn, p)}
<1>1. /\ "is_file" \in S <=> IsKind(p, "file")
      /\ "is_dir" \in S <=> IsKind(p, "dir")
      /\ "is_symlink" \in S <=> IsKind(p, "link")
      /\ Yes("exists", p) <=> Exists(p)
  <2>1. IsDir(p) <=> IsKind(p, "dir")
    BY DEF IsDir, IsKind
  <2> QED
    BY <2>1, ProbesTell
<1>2. S \in SUBSET {"is_file", "is_dir", "is_symlink"}
  OBVIOUS
<1> HIDE DEF S
<1>3. Exists(p) => entries[p].kind \in {"dir", "file", "link"}
  BY DEF Typed, Exists, Kinds
<1>4. CASE Exists(p)
  <2>1. S = {"is_file"} \/ S = {"is_dir"} \/ S = {"is_symlink"}
    BY <1>1, <1>2, <1>3, <1>4 DEF IsKind
  <2>2. Cardinality(S) = 1
    BY <2>1, FS_Singleton
  <2> QED
    BY <1>1, <1>4, <2>2 DEF S
<1>5. CASE ~Exists(p)
  <2>1. S = {}
    BY <1>1, <1>2, <1>5 DEF IsKind
  <2>2. Cardinality(S) = 0
    BY <2>1, FS_EmptySet
  <2> QED
    BY <1>1, <1>5, <2>2 DEF S
<1> QED
  BY <1>4, <1>5

LEMMA ReadsAgree ==
  ASSUME Typed, setup = "full", NEW p \in Paths
  PROVE  /\ Answered("read_bytes", p) <=> Yes("is_file", p) \/ Yes("is_symlink", p)
         /\ Answered("read_bytes", p) => Raw(Told("read_bytes", p).value) = DataAt(p)
         /\ Answered("read_text", p) => Answered("read_bytes", p)
         /\ Answered("read_text", p) => Raw(Told("read_text", p).value) = DataAt(p)
<1>1. DataAt(p) \notin {Nil, NegZero}
  BY DataIs, SomeTokens
<1>2. Raw(Plain("bytes", "bytes", DataAt(p))) = DataAt(p) /\ Raw(Str(DataAt(p))) = DataAt(p)
  BY <1>1, PlainIs DEF Str
<1>3. Exists(p) /\ ~IsDir(p) <=> IsKind(p, "file") \/ IsKind(p, "link")
  BY DEF Typed, Exists, IsDir, IsKind, Kinds
<1> QED
  BY <1>2, <1>3, ProbesTell, ReadsTell DEF Return

LEMMA StatAgrees ==
  ASSUME Typed, setup = "full", NEW p \in Paths, Answered("stat", p)
  PROVE  LET stat(i) == Raw(Inside(Told("stat", p).value, << <<"values", i>> >>))
         IN  /\ Yes("is_dir", p)     <=> stat(1) = <<"dir">>
             /\ Yes("is_symlink", p) <=> stat(1) = <<"link">>
             /\ Answered("read_bytes", p) =>
                  (stat(7) = Zero <=> Raw(Told("read_bytes", p).value) = Zero)
<1> DEFINE stat(i) == Raw(Inside(Told("stat", p).value, << <<"values", i>> >>))
<1>1. Exists(p) /\ Told("stat", p).value = StatAt(p)
  BY StatTells
<1>2. stat(1) = ModeAt(p) /\ stat(7) = IF IsDir(p) THEN Some ELSE Length(DataAt(p))
  BY <1>1, StatIs
<1> HIDE DEF stat
<1>3. Yes("is_dir", p) <=> stat(1) = <<"dir">>
  <2>1. stat(1) = <<entries[p].kind>>
    BY <1>2 DEF ModeAt
  <2>2. Yes("is_dir", p) <=> entries[p].kind = "dir"
    BY <1>1, ProbesTell DEF IsDir
  <2> QED
    BY <2>1, <2>2
<1>4. Yes("is_symlink", p) <=> stat(1) = <<"link">>
  <2>1. stat(1) = <<entries[p].kind>>
    BY <1>2 DEF ModeAt
  <2>2. Yes("is_symlink", p) <=> entries[p].kind = "link"
    BY <1>1, ProbesTell DEF IsKind
  <2> QED
    BY <2>1, <2>2
<1>5. ASSUME Answered("read_bytes", p)
      PROVE  stat(7) = Zero <=> Raw(Told("read_bytes", p).value) = Zero
  <2>1. ~IsDir(p) /\ Raw(Told("read_bytes", p).value) = DataAt(p)
    BY <1>5, ReadsTell, ReadsAgree
  <2>2. stat(7) = IF DataAt(p) = Zero THEN Zero ELSE Some
    BY <1>2, <2>1 DEF Length
  <2> QED
    BY <2>1, <2>2, SomeTokens
<1> QED
  BY <1>3, <1>4, <1>5 DEF stat

LEMMA ListAgrees ==
  ASSUME Typed, setup = "full", NEW p \in Paths, Answered("iterdir", p)
  PROVE  LET names == Told("iterdir", p).value IN
         {Inside(names, a) : a \in DOMAIN names \ {<<>>}} =
         {PathValue(q) : q \in {r \in Paths : r # p /\ Parent(r) = p /\ Yes("exists", r)}}
<1> DEFINE S == {r \in Paths : r # p /\ Parent(r) = p /\ Yes("exists", r)}
<1>1. Told("iterdir", p).value = Listing(p)
  BY ListTells
<1>2. {Inside(Listing(p), a) : a \in DOMAIN Listing(p) \ {<<>>}} = {PathValue(q) : q \in Children(p)}
  BY ListingIs
<1>3. S = Children(p)
  <2>1. DOMAIN entries \subseteq Paths
    BY DEF Typed, Bounded
  <2>2. \A r \in Paths : Yes("exists", r) <=> r \in DOMAIN entries
    BY ProbesTell DEF Exists
  <2> QED
    BY <2>1, <2>2 DEF Children
<1>4. {PathValue(q) : q \in Children(p)} = {PathValue(q) : q \in S}
  BY <1>3
<1> QED
  BY <1>1, <1>2, <1>4

LEMMA Agree == ASSUME Typed PROVE AnswersAgree
<1> SUFFICES ASSUME setup = "full", NEW p \in Paths
             PROVE
    /\ Yes("exists", p) <=> Answered("stat", p)
    /\ Cardinality({fn \in {"is_file", "is_dir", "is_symlink"} : Yes(fn, p)})
         = IF Yes("exists", p) THEN 1 ELSE 0
    /\ Answered("read_bytes", p) <=> Yes("is_file", p) \/ Yes("is_symlink", p)
    /\ Answered("read_text", p) => Raw(Told("read_text", p).value) = Raw(Told("read_bytes", p).value)
    /\ Answered("stat", p) =>
         LET stat(i) == Raw(Inside(Told("stat", p).value, << <<"values", i>> >>))
         IN  /\ Yes("is_dir", p)     <=> stat(1) = <<"dir">>
             /\ Yes("is_symlink", p) <=> stat(1) = <<"link">>
             /\ Answered("read_bytes", p) =>
                  (stat(7) = Zero <=> Raw(Told("read_bytes", p).value) = Zero)
    /\ Answered("iterdir", p) <=> Yes("is_dir", p)
    /\ Answered("iterdir", p) => LET names == Told("iterdir", p).value IN
         {Inside(names, a) : a \in DOMAIN names \ {<<>>}} =
         {PathValue(q) : q \in {r \in Paths : r # p /\ Parent(r) = p /\ Yes("exists", r)}}
    /\ Answered("resolve", p) => ~Yes("is_symlink", Tail(Raw(Told("resolve", p).value)))
  BY DEF AnswersAgree
<1>1. Yes("exists", p) <=> Answered("stat", p)
  BY ProbesTell, StatTells
<1>2. Answered("read_text", p) => Raw(Told("read_text", p).value) = Raw(Told("read_bytes", p).value)
  BY ReadsAgree
<1>3. Answered("iterdir", p) <=> Yes("is_dir", p)
  BY ProbesTell, ListTells
<1>4. ASSUME Answered("resolve", p)
      PROVE  ~Yes("is_symlink", Tail(Raw(Told("resolve", p).value)))
  <2> DEFINE q == Resolved(p)
  <2>1. q \in Paths /\ ~IsKind(q, "link") /\ Told("resolve", p).value = Str(PathToken(q))
    BY <1>4, ResolveTells
  <2> HIDE DEF q
  <2>2. Tail(Raw(Str(PathToken(q)))) = q
    BY <2>1, PathTokens, PlainIs DEF Str
  <2> QED
    BY <2>1, <2>2, ProbesTell
<1> QED
  BY <1>1, <1>2, <1>3, <1>4, OneProbe, ReadsAgree, StatAgrees, ListAgrees

-----------------------------------------------------------------------------
(* What a program finds after a call that changed files.                   *)

Done(c) ==
  LET p == PathArg(c, 1)
  IN  /\ c.fn \in {"write_text", "write_bytes"} => IsKind(p, "file") /\ DataAt(p) = Raw(c.args[2])
      /\ c.fn = "mkdir" => IsDir(p)
      /\ c.fn \in {"unlink", "rmdir"} => p = Root \/ ~Exists(p)
      /\ c.fn = "rename" => ~Exists(p) /\ Exists(PathArg(c, 2))

\* Until the program takes the answer, what it says is done stays done.
DoneInv ==
  /\ setup \in {"full", "bare"}
  /\ (served # Nothing /\ served.answer.is = "return" /\ served.call.fn \in Changes) =>
       setup = "full" /\ PathCallOf(served.call) /\ Done(served.call)

\* What Create leaves at p.
LEMMA CreatedIs ==
  ASSUME NEW p, NEW k, NEW dirs, Create(p, k, dirs)
  PROVE  p \in DOMAIN entries' /\ entries'[p].kind = k
<1>1. PICK f \in Injection(dirs \cup {p}, Nodes \ Used) :
        entries' = [q \in DOMAIN entries \cup dirs \cup {p} |->
                      IF q \in DOMAIN f THEN [node |-> f[q], kind |-> IF q = p THEN k ELSE "dir"]
                      ELSE entries[q]]
  BY DEF Create
<1>2. p \in DOMAIN f
  BY DEF Injection, IsInjective
<1>3. entries'[p] = [node |-> f[p], kind |-> k]
  BY <1>1, <1>2
<1> QED
  BY <1>1, <1>3

\* What was renamed is at the new path and no longer at the old one.
LEMMA RenamedIs ==
  ASSUME Careless = {}, Inv, NEW old \in Paths, NEW new \in Paths, Rename(old, new)
  PROVE  old \notin DOMAIN entries' /\ new \in DOMAIN entries'
<1> DEFINE moved   == {q \in DOMAIN entries : Within(q, old)}
           targets == {Rebase(q, old, new) : q \in moved}
<1>1. old # Root /\ Exists(old) /\ ~Exists(new) /\ Relocate(old, new)
  BY DEF Rename
<1>2. DOMAIN entries' = (DOMAIN entries \ moved) \cup targets
  BY <1>1, RelocateCarries
<1>3. old \in Seq(Names) /\ new \in Seq(Names) /\ DOMAIN entries \subseteq Paths
  BY PathsAreSequences DEF Inv, TypeOK
<1>4. old \in moved
  BY <1>1, <1>3, WithinOrSame DEF Exists
<1>5. Rebase(old, old, new) = new
  <2>1. /\ Rebase(old, old, new) \in Seq(Names) /\ Len(Rebase(old, old, new)) = Len(new)
        /\ \A i \in 1..Len(new) : Rebase(old, old, new)[i] = new[i]
    <3>1. Within(old, old)
      BY <1>3, WithinOrSame
    <3>2. PICK t : t = Rebase(old, old, new)
      OBVIOUS
    <3>3. /\ t \in Seq(Names) /\ Len(t) = Len(new) + Len(old) - Len(old)
          /\ \A i \in 1..Len(new) : t[i] = new[i]
      BY <1>3, <3>1, <3>2, RebaseIs
    <3>4. Len(new) + Len(old) - Len(old) = Len(new)
      BY <1>3
    <3> QED
      BY <3>2, <3>3, <3>4
  <2> QED
    BY <1>3, <2>1, SameSequence
<1>6. old \notin targets
  <2> SUFFICES ASSUME NEW q \in moved, old = Rebase(q, old, new) PROVE FALSE
    OBVIOUS
  <2>1. q \in Seq(Names) /\ Within(q, old)
    BY <1>3, PathsAreSequences
  <2>2. Within(old, new)
    BY <1>3, <2>1, RebaseStaysWithin
  <2>3. old = new \/ new \in Ancestors(old)
    BY <1>3, <2>2, WithinOrSame
  <2> QED
    BY <1>1, <2>3 DEF Inv, IsTree, IsDir, Exists
<1>7. new \in targets
  BY <1>4, <1>5
<1> HIDE DEF moved, targets
<1> QED
  BY <1>2, <1>4, <1>6, <1>7

\* What each call has done when it is answered.
LEMMA EffectIs ==
  ASSUME Careless = {}, Inv, NEW c, PathCallOf(c), Failing(c) = {}, Effect(c)
  PROVE  Done(c)'
<1> DEFINE p == PathArg(c, 1)
<1>1. p \in Paths
  BY DEF PathCallOf
<1>2. p = PathArg(c, 1)
  OBVIOUS
<1> HIDE DEF p
<1>3. CASE c.fn \in {"write_text", "write_bytes"}
  <2>1. Write(p) /\ Data[entries'[p].node] = Raw(c.args[2])
    BY <1>2, <1>3 DEF Effect, Changes
  <2>2. p \in DOMAIN entries' /\ entries'[p].kind = "file"
    BY <2>1, CreatedIs DEF Write
  <2> QED
    BY <1>2, <1>3, <2>1, <2>2 DEF Done, IsKind, Exists, DataAt
<1>4. CASE c.fn = "mkdir"
  <2>1. \/ (p = Root \/ Exists(p)) /\ UNCHANGED entries
        \/ Create(p, "dir", Missing(p)) \/ Create(p, "dir", {})
    BY <1>2, <1>4 DEF Effect, Changes, MkdirParents, Mkdir
  <2>2. ASSUME Exists(p), p # Root
        PROVE  IsDir(p)
    <3>1. PICK n \in {0, 1, 3} :
             /\ DOMAIN Errors(c) = 1..n
             /\ n = 0 <=> p = Root
             /\ n # 0 => IsFault(Errors(c)[1], Exists(p) /\ ~(IsDir(p) /\ BoolKwarg(c, "exist_ok")), "ErrExist")
      BY <1>2, <1>4, MkdirFaults
    <3>2. n # 0 /\ 1 \in DOMAIN Errors(c)
      BY <2>2, <3>1
    <3> QED
      BY <2>2, <3>1, <3>2, NoneFails DEF IsFault
  <2>3. IsDir(Root)
    BY DEF Inv, IsTree
  <2>4. p \in DOMAIN entries' /\ entries'[p].kind = "dir"
    BY <2>1, <2>2, <2>3, CreatedIs DEF IsDir, Exists
  <2> QED
    BY <1>2, <1>4, <2>4 DEF Done, IsDir, Exists
<1>5. CASE c.fn \in {"unlink", "rmdir"}
  <2>1. Delete({p}) \/ p = Root
    BY <1>2, <1>5 DEF Effect, Changes, Unlink, Rmdir
  <2>2. p = Root \/ p \notin DOMAIN entries'
    BY <2>1 DEF Delete
  <2> QED
    BY <1>2, <1>5, <2>2 DEF Done, Exists
<1>6. CASE c.fn = "rename"
  <2>1. Rename(p, PathArg(c, 2)) /\ PathArg(c, 2) \in Paths
    BY <1>2, <1>6 DEF Effect, Changes, PathCallOf
  <2>2. p \notin DOMAIN entries' /\ PathArg(c, 2) \in DOMAIN entries'
    BY <1>1, <2>1, RenamedIs
  <2> QED
    BY <1>2, <1>6, <2>2 DEF Done, Exists
<1>7. CASE c.fn \notin Changes
  BY <1>7 DEF Done, Changes
<1> QED
  BY <1>3, <1>4, <1>5, <1>6, <1>7 DEF Changes

LEMMA DoneInvInit == OSInit => DoneInv
BY DEF OSInit, DoneInv

LEMMA DoneStays ==
  ASSUME UNCHANGED entries, NEW c, Done(c)
  PROVE  Done(c)'
BY DEF Done, IsKind, IsDir, Exists, DataAt

LEMMA DoneInvStep ==
  ASSUME Careless = {}, Typed, Inv, DoneInv, [OSNext]_osVars
  PROVE  DoneInv'
<1>1. CASE UNCHANGED osVars
  <2>1. UNCHANGED entries /\ UNCHANGED setup /\ UNCHANGED served
    BY <1>1 DEF osVars
  <2>2. PICK c : c = served.call
    OBVIOUS
  <2>3. Done(c) => Done(c)'
    BY <2>1, DoneStays
  <2> QED
    BY <2>1, <2>2, <2>3 DEF DoneInv, PathCallOf, IsCall
<1>2. ASSUME NEW c \in PathCalls, Serve(c)
      PROVE  DoneInv'
  <2>1. PathCallOf(c)
    BY PathCallIs
  <2>2. Received(c) = c /\ Arrives(c) /\ Answer(c) = Handle(c)
    BY <2>1, PathAnswers
  <2>3. served' = [call |-> c, answer |-> Handle(c)] /\ UNCHANGED setup
    BY <1>2, <2>2 DEF Serve
  <2>4. ASSUME Handle(c).is = "return"
        PROVE  setup' = "full" /\ Done(c)'
    <3>1. setup # "bare" /\ Failing(c) = {}
      BY <2>1, <2>4 DEF Handle, PathCallOf, Raise
    <3>2. setup = "full"
      BY <3>1 DEF DoneInv
    <3>3. Effect(c)
      BY <1>2, <2>2, <2>4 DEF Serve
    <3>4. Done(c)'
      BY <2>1, <3>1, <3>3, EffectIs
    <3> QED
      BY <2>3, <3>2, <3>4
  <2>5. served'.call = c /\ served'.answer = Handle(c)
    BY <2>3
  <2>6. PathCallOf(c)'
    BY <2>1 DEF PathCallOf, IsCall
  <2>7. setup' \in {"full", "bare"}
    BY <2>3 DEF DoneInv
  <2> QED
    BY <2>4, <2>5, <2>6, <2>7 DEF DoneInv
<1>3. ASSUME NEW c \in OtherCalls, Serve(c)
      PROVE  DoneInv'
  <2>1. c.fn \notin PathOps /\ Changes \subseteq PathOps
    BY <1>3, OtherAnswers DEF OtherAnswered, Changes, PathOps
  <2>2. served'.call = c /\ UNCHANGED setup
    BY <1>3 DEF Serve
  <2> QED
    BY <2>1, <2>2 DEF DoneInv
<1>4. ASSUME served' = Nothing, UNCHANGED setup
      PROVE  DoneInv'
  BY <1>4 DEF DoneInv
<1> QED
  BY <1>1, <1>2, <1>3, <1>4 DEF OSNext, ChangeByOthers, AskPath, AskOther, Take

LEMMA DoneInvariance == ASSUME Careless = {} PROVE OSSpec => []DoneInv
<1>1. OSInit => Inv /\ Typed /\ DoneInv
  BY InitHolds, TypedInit, DoneInvInit DEF OSInit
<1>2. Inv /\ Typed /\ DoneInv /\ [OSNext]_osVars => (Inv /\ Typed /\ DoneInv)'
  <2> SUFFICES ASSUME Inv, Typed, DoneInv, [OSNext]_osVars
               PROVE  Inv' /\ Typed' /\ DoneInv'
    OBVIOUS
  <2>1. [Change]_entries
    BY OSNextChanges
  <2> QED
    BY <2>1, StepKeeps, TypedStep, DoneInvStep
<1> QED
  BY <1>1, <1>2, PTL DEF OSSpec

\* What was done is what a program is told when it looks.
LEMMA DoneIsTold == ASSUME Typed, DoneInv PROVE AnswersHold
<1> SUFFICES ASSUME served # Nothing, served.answer.is = "return", served.call.fn \in Changes
             PROVE  LET c == served.call
                        p == PathArg(c, 1)
                    IN CASE c.fn = "write_text"  -> Told("read_text", p) = Return(c.args[2])
                         [] c.fn = "write_bytes" -> Told("read_bytes", p) = Return(c.args[2])
                         [] c.fn = "mkdir"       -> Yes("is_dir", p)
                         [] c.fn \in {"unlink", "rmdir"} -> p = Root \/ ~Yes("exists", p)
                         [] c.fn = "rename"      -> ~Yes("exists", p) /\ Yes("exists", PathArg(c, 2))
  BY DEF AnswersHold
<1>1. PICK c : c = served.call
  OBVIOUS
<1>2. PICK p : p = PathArg(c, 1)
  OBVIOUS
<1>3. setup = "full" /\ PathCallOf(c) /\ Done(c)
  BY <1>1 DEF DoneInv
<1>4. p \in Paths
  BY <1>2, <1>3 DEF PathCallOf
<1>5. CASE c.fn = "write_text"
  <2>1. PICK t \in {Zero, Some} : c.args[2] = Plain("string", "string", t)
    BY <1>3, <1>5 DEF PathCallOf
  <2>2. Raw(c.args[2]) = t
    BY <2>1, PlainIs, SomeTokens
  <2>3. IsKind(p, "file") /\ DataAt(p) = t
    BY <1>2, <1>3, <1>5, <2>2 DEF Done
  <2>4. Answered("read_text", p)
    BY <1>3, <1>4, <2>3, ReadsTell, SomeTokens DEF IsKind, IsDir
  <2>5. Told("read_text", p) = Return(c.args[2])
    BY <1>3, <1>4, <2>1, <2>3, <2>4, ReadsTell DEF Str
  <2> QED
    BY <1>1, <1>2, <1>5, <2>5
<1>6. CASE c.fn = "write_bytes"
  <2>1. PICK t \in {Zero, Some, Binary} : c.args[2] = Plain("bytes", "bytes", t)
    BY <1>3, <1>6 DEF PathCallOf
  <2>2. Raw(c.args[2]) = t
    BY <2>1, PlainIs, SomeTokens
  <2>3. IsKind(p, "file") /\ DataAt(p) = t
    BY <1>2, <1>3, <1>6, <2>2 DEF Done
  <2>4. Answered("read_bytes", p)
    BY <1>3, <1>4, <2>3, ReadsTell DEF IsKind, IsDir
  <2>5. Told("read_bytes", p) = Return(c.args[2])
    BY <1>3, <1>4, <2>1, <2>3, <2>4, ReadsTell
  <2> QED
    BY <1>1, <1>2, <1>6, <2>5
<1>7. CASE c.fn = "mkdir"
  <2>1. Yes("is_dir", p)
    BY <1>2, <1>3, <1>4, <1>7, ProbesTell DEF Done
  <2> QED
    BY <1>1, <1>2, <1>7, <2>1
<1>8. CASE c.fn \in {"unlink", "rmdir"}
  <2>1. p = Root \/ ~Yes("exists", p)
    BY <1>2, <1>3, <1>4, <1>8, ProbesTell DEF Done
  <2> QED
    BY <1>1, <1>2, <1>8, <2>1
<1>9. CASE c.fn = "rename"
  <2>1. PathArg(c, 2) \in Paths
    BY <1>3, <1>9 DEF PathCallOf
  <2>2. ~Yes("exists", p) /\ Yes("exists", PathArg(c, 2))
    BY <1>2, <1>3, <1>4, <1>9, <2>1, ProbesTell DEF Done
  <2> QED
    BY <1>1, <1>2, <1>9, <2>2
<1> QED
  BY <1>1, <1>5, <1>6, <1>7, <1>8, <1>9 DEF Changes

\* Whoever changes the files, and however carelessly: what a program is told by
\* the probes, stat, the two reads, iterdir and resolve is one story about one
\* tree.
THEOREM ProbesAgree == OSSpec => []AnswersAgree
<1>1. Typed => AnswersAgree
  BY Agree
<1>2. ServedInv => Typed
  BY DEF ServedInv
<1> QED
  BY <1>1, <1>2, ServedInvariance, PTL

\* After a write, a mkdir, an unlink, an rmdir or a rename that answers no
\* error, a program that looks finds what it did.
THEOREM ChangesAreFound == ASSUME Careless = {} PROVE OSSpec => []AnswersHold
<1>1. Typed /\ DoneInv => AnswersHold
  BY DoneIsTold
<1>2. ServedInv => Typed
  BY DEF ServedInv
<1> QED
  BY <1>1, <1>2, ServedInvariance, DoneInvariance, PTL
=============================================================================
