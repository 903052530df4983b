-------------------------------- MODULE Codec --------------------------------
(***************************************************************************)
(* How a value crosses between Rust and Go.  Each side copies the fields   *)
(* of a value into those of one flat message, by a table of its own, and   *)
(* leaves out the fields that are zero; the other side numbers the kinds   *)
(* and reads the fields back by a table of its own.                        *)
(*                                                                         *)
(* A value has a kind, plain fields, which hold tokens, and child fields,  *)
(* which hold sequences of values; a dict lays its pairs end to end.  It   *)
(* is kept flat, as a function from addresses to nodes: the value itself   *)
(* is at <<>>, and what is at a holds as the i-th in its field f what is   *)
(* at a \o << <<f, i>> >>.  A message has the same form, with the number   *)
(* of the kind in its place.                                               *)
(***************************************************************************)
EXTENDS Naturals, Sequences, Functions

\* What a plain field holds.  Zero is also FALSE, 0.0 and the empty string.
Zero    == <<"0">>
NegZero == <<"-0.0">>
Nil     == <<"nil">>    \* of a pointer or an Option
Some    == <<"x">>

Node(k, at) == [kind |-> k, at |-> at]

\* A value of one node, and one with the values kids[f][1], kids[f][2], ... in
\* its field f.
Leaf(k, at) == [a \in {<<>>} |-> Node(k, at)]
Below(vs, f) == UNION {{<< <<f, i>> >> \o b : b \in DOMAIN vs[i]} : i \in DOMAIN vs}
Value(k, at, kids) ==
  [a \in {<<>>} \cup UNION {Below(kids[f], f) : f \in DOMAIN kids} |->
     IF a = <<>> THEN Node(k, at) ELSE kids[a[1][1]][a[1][2]][Tail(a)]]

Plain(k, field, t)     == Leaf(k, [o \in {field} |-> t])
Holding(k, at, f, vs)  == Value(k, at, [o \in {f} |-> vs])
NoFields               == [o \in {} |-> Zero]
None                   == Leaf("none", NoFields)

-----------------------------------------------------------------------------
(* The fields of the message.                                              *)
ChildFields == {"items", "values", "pairs", "attrs", "class_attrs"}

\* Faulty variant of Pointers: the parts of a complex number are plain.
PointersPlain == {"arg", "docstring", "offset_seconds", "timezone_name"}

\* Left out when nil, where the others are left out when zero.
Pointers == {"arg", "docstring", "offset_seconds", "timezone_name", "real", "imag"}

\* -0.0 equals the zero that both sides compare a float with.
LeftOut(f, t) == IF f \in Pointers THEN t = Nil ELSE t \in {Zero, NegZero}

\* What a reader finds in a field that is not there; no real or imag is 0.0.
Unsent(f) == IF f \in Pointers \ {"real", "imag"} THEN Nil ELSE Zero

\* The constants of wire.go, an iota, and those of wire.rs.
GoKinds ==
  <<"none", "ellipsis", "bool", "int", "big_int", "float", "string", "bytes", "list",
    "tuple", "named_tuple", "dict", "set", "frozen_set", "exception", "path",
    "dataclass", "function", "repr", "cycle", "date", "datetime", "timedelta",
    "timezone", "not_implemented", "time", "class_instance", "file_handle", "complex",
    "module">>
GoNumber == [k \in Range(GoKinds) |-> (CHOOSE i \in DOMAIN GoKinds : GoKinds[i] = k) - 1]
RustNumber ==
  [none |-> 0, ellipsis |-> 1, bool |-> 2, int |-> 3, big_int |-> 4, float |-> 5,
   string |-> 6, bytes |-> 7, list |-> 8, tuple |-> 9, named_tuple |-> 10, dict |-> 11,
   set |-> 12, frozen_set |-> 13, exception |-> 14, path |-> 15, dataclass |-> 16,
   function |-> 17, repr |-> 18, cycle |-> 19, date |-> 20, datetime |-> 21,
   timedelta |-> 22, timezone |-> 23, not_implemented |-> 24, time |-> 25,
   class_instance |-> 26, file_handle |-> 27, complex |-> 28, module |-> 29,
   class_type |-> 18, type |-> 18, builtin_function |-> 18]

-----------------------------------------------------------------------------
(* The tables: for each kind, its fields of the message and the field of   *)
(* the value that each is copied from, or to.                              *)
Same(fields) == [f \in fields |-> f]
Scalars == {"bool", "int", "big_int", "float", "string", "bytes"}

\* The kinds of Go's values.
ValueKinds == Scalars \cup {"none", "ellipsis", "not_implemented", "list", "tuple", "set",
                            "frozen_set", "complex", "module", "named_tuple", "dict",
                            "exception", "path", "class_instance", "file_handle",
                            "function", "repr", "cycle", "date", "datetime", "timedelta",
                            "timezone", "time"}

\* wireValueFromPublic
GoOut ==
  [k \in ValueKinds |->
     CASE k \in Scalars -> Same({k})
       [] k \in {"none", "ellipsis", "not_implemented"} -> Same({})
       [] k \in {"list", "tuple", "set", "frozen_set"} -> Same({"items"})
       [] k = "complex" -> Same({"real", "imag"})
       [] k = "module" -> [name |-> "name", instance_id |-> "id", attrs |-> "attrs"]
       [] k = "named_tuple" -> Same({"type_name", "field_names", "values"})
       [] k = "dict" -> Same({"pairs"})
       [] k = "exception" -> [exc_type |-> "type", arg |-> "arg"]
       [] k = "path" -> [string |-> "path"]
       [] k = "class_instance" ->
           [name |-> "class_name", class_id |-> "class_id",
            instance_id |-> "id", host_defined |-> "host_defined",
            is_dataclass |-> "is_dataclass",
            class_attrs |-> "class_attrs", attrs |-> "attrs"]
       [] k = "file_handle" -> [string |-> "path", mode |-> "mode", position |-> "position"]
       [] k = "function" -> Same({"name", "docstring"})
       [] k = "repr" -> [string |-> "repr"]
       [] k = "cycle" -> Same({"placeholder"})
       [] k = "date" -> Same({"year", "month", "day"})
       [] k = "datetime" ->
           Same({"year", "month", "day", "hour", "minute", "second",
                 "microsecond", "offset_seconds", "timezone_name"})
       [] k = "timedelta" -> Same({"days", "seconds", "microseconds"})
       [] k = "timezone" -> [days |-> "offset_seconds", timezone_name |-> "name"]
       [] k = "time" ->
           Same({"hour", "minute", "second", "microsecond",
                 "offset_seconds", "timezone_name", "fold"})]

\* toPublic
GoIn ==
  [k \in ValueKinds |->
     CASE k \in Scalars -> Same({k})
       [] k \in {"none", "ellipsis", "not_implemented"} -> Same({})
       [] k \in {"list", "tuple", "set", "frozen_set"} -> Same({"items"})
       [] k = "complex" -> Same({"real", "imag"})
       [] k = "module" -> [name |-> "name", instance_id |-> "id", attrs |-> "attrs"]
       [] k = "named_tuple" -> Same({"type_name", "field_names", "values"})
       [] k = "dict" -> Same({"pairs"})
       [] k = "exception" -> [exc_type |-> "type", arg |-> "arg"]
       [] k = "path" -> [string |-> "path"]
       [] k = "class_instance" ->
           [name |-> "class_name", class_id |-> "class_id",
            instance_id |-> "id", host_defined |-> "host_defined",
            is_dataclass |-> "is_dataclass",
            class_attrs |-> "class_attrs", attrs |-> "attrs"]
       [] k = "file_handle" -> [string |-> "path", mode |-> "mode", position |-> "position"]
       [] k = "function" -> Same({"name", "docstring"})
       [] k = "repr" -> [string |-> "repr"]
       [] k = "cycle" -> Same({"placeholder"})
       [] k = "date" -> Same({"year", "month", "day"})
       [] k = "datetime" ->
           Same({"year", "month", "day", "hour", "minute", "second",
                 "microsecond", "offset_seconds", "timezone_name"})
       [] k = "timedelta" -> Same({"days", "seconds", "microseconds"})
       [] k = "timezone" -> [days |-> "offset_seconds", timezone_name |-> "name"]
       [] k = "time" ->
           Same({"hour", "minute", "second", "microsecond",
                 "offset_seconds", "timezone_name", "fold"})]

\* from_object_ref; classes, types and builtins go as their text
RustOut ==
  [k \in ValueKinds \cup {"class_type", "type", "builtin_function"} |->
     CASE k \in Scalars -> Same({k})
       [] k \in {"none", "ellipsis", "not_implemented"} -> Same({})
       [] k \in {"list", "tuple", "set", "frozen_set"} -> Same({"items"})
       [] k \in {"class_type", "type", "builtin_function"} -> [string |-> "repr"]
       [] k = "complex" -> Same({"real", "imag"})
       [] k = "module" -> [name |-> "name", instance_id |-> "id", attrs |-> "attrs"]
       [] k = "named_tuple" -> Same({"type_name", "field_names", "values"})
       [] k = "dict" -> Same({"pairs"})
       [] k = "exception" -> [exc_type |-> "type", arg |-> "arg"]
       [] k = "path" -> [string |-> "path"]
       [] k = "class_instance" ->
           [name |-> "class_name", class_id |-> "class_id",
            instance_id |-> "id", host_defined |-> "host_defined",
            is_dataclass |-> "is_dataclass",
            class_attrs |-> "class_attrs", attrs |-> "attrs"]
       [] k = "file_handle" -> [string |-> "path", mode |-> "mode", position |-> "position"]
       [] k = "function" -> Same({"name", "docstring"})
       [] k = "repr" -> [string |-> "repr"]
       [] k = "cycle" -> Same({"placeholder"})
       [] k = "date" -> Same({"year", "month", "day"})
       [] k = "datetime" ->
           Same({"year", "month", "day", "hour", "minute", "second",
                 "microsecond", "offset_seconds", "timezone_name"})
       [] k = "timedelta" -> Same({"days", "seconds", "microseconds"})
       [] k = "timezone" -> [days |-> "offset_seconds", timezone_name |-> "name"]
       [] k = "time" ->
           Same({"hour", "minute", "second", "microsecond",
                 "offset_seconds", "timezone_name", "fold"})]

\* into_monty
RustIn ==
  [k \in ValueKinds \ {"repr", "cycle", "file_handle"} |->
     CASE k \in Scalars -> Same({k})
       [] k \in {"none", "ellipsis", "not_implemented"} -> Same({})
       [] k \in {"list", "tuple", "set", "frozen_set"} -> Same({"items"})
       [] k = "complex" -> Same({"real", "imag"})
       [] k = "module" -> [name |-> "name", instance_id |-> "id", attrs |-> "attrs"]
       [] k = "named_tuple" -> Same({"type_name", "field_names", "values"})
       [] k = "dict" -> Same({"pairs"})
       [] k = "exception" -> [exc_type |-> "type", arg |-> "arg"]
       [] k = "path" -> [string |-> "path"]
       [] k = "class_instance" ->
           [name |-> "class_name", class_id |-> "class_id",
            instance_id |-> "id", host_defined |-> "host_defined",
            is_dataclass |-> "is_dataclass",
            class_attrs |-> "class_attrs", attrs |-> "attrs"]
       [] k = "function" -> Same({"name", "docstring"})
       [] k = "date" -> Same({"year", "month", "day"})
       [] k = "datetime" ->
           Same({"year", "month", "day", "hour", "minute", "second",
                 "microsecond", "offset_seconds", "timezone_name"})
       [] k = "timedelta" -> Same({"days", "seconds", "microseconds"})
       [] k = "timezone" -> [days |-> "offset_seconds", timezone_name |-> "name"]
       [] k = "time" ->
           Same({"hour", "minute", "second", "microsecond",
                 "offset_seconds", "timezone_name", "fold"})]

-----------------------------------------------------------------------------
(* A node alone: its plain fields.                                         *)
PlainOf(row) == {row[f] : f \in DOMAIN row \ ChildFields}

EncodeNode(x, number, table) ==
  LET own  == table[x.kind]
      sent == {f \in DOMAIN own \ ChildFields : ~LeftOut(f, x.at[own[f]])}
  IN  Node(number[x.kind], [f \in sent |-> x.at[own[f]]])

DecodeNode(x, number, table) ==
  LET kind  == CHOOSE k \in DOMAIN table : number[k] = x.kind
      own   == table[kind]
      of(o) == CHOOSE f \in DOMAIN own : own[f] = o
  IN  Node(kind, [o \in PlainOf(own) |->
                    IF of(o) \in DOMAIN x.at THEN x.at[of(o)] ELSE Unsent(of(o))])

-----------------------------------------------------------------------------
(* A value with all that is inside it.                                     *)

\* The address of what holds, as the i-th step of a, the rest of a.
Above(a, i) == SubSeq(a, 1, i - 1)

\* A child field has one name on both sides; what a table does not copy, or not
\* to that name, does not arrive there.
Copied(row, f)     == f \in DOMAIN row \cap ChildFields /\ row[f] = f
Copying(v, table)  == {a \in DOMAIN v : \A i \in DOMAIN a :
                         Copied(table[v[Above(a, i)].kind], a[i][1])}
Encode(v, number, table) == [a \in Copying(v, table) |-> EncodeNode(v[a], number, table)]
Decode(w, number, table) ==
  LET v == [a \in DOMAIN w |-> DecodeNode(w[a], number, table)]
  IN  [a \in Copying(v, table) |-> v[a]]

\* toPublic and into_monty refuse a kind they have no value for, however deeply
\* it is nested.
Accepts(w, number, table) == \A a \in DOMAIN w : \E k \in DOMAIN table : number[k] = w[a].kind

FromRust(v) == Encode(v, RustNumber, RustOut)
ToGo(w)     == Decode(w, GoNumber, GoIn)
FromGo(v)   == Encode(v, GoNumber, GoOut)
ToRust(w)   == Decode(w, RustNumber, RustIn)
GoAccepts(w)   == Accepts(w, GoNumber, GoIn)
RustAccepts(w) == Accepts(w, RustNumber, RustIn)

-----------------------------------------------------------------------------
(* What the types of the values allow, for the side whose table this is.   *)

\* Only these fields are optional, and only these are floats.
IsToken(f, t) ==
  /\ t = Nil     => f \in {"arg", "docstring", "offset_seconds", "timezone_name"}
  /\ t = NegZero => f \in {"float", "real", "imag"}

IsNode(x, table) ==
  LET own == table[x.kind]
  IN  /\ x.kind \in DOMAIN table
      /\ x = Node(x.kind, [o \in PlainOf(own) |-> x.at[o]])
      /\ \A f \in DOMAIN own \ ChildFields : IsToken(f, x.at[own[f]])

\* Whatever is inside a value is in a child field of something in it.
IsValue(v, table) ==
  /\ v = [a \in DOMAIN v |-> v[a]]
  /\ <<>> \in DOMAIN v
  /\ \A a \in DOMAIN v :
       /\ IsNode(v[a], table)
       /\ \A i \in DOMAIN a : /\ Above(a, i) \in DOMAIN v
                             /\ a[i][1] \in DOMAIN table[v[Above(a, i)].kind] \cap ChildFields
=============================================================================
