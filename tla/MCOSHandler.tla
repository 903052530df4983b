----------------------------- MODULE MCOSHandler -----------------------------
(* Small instances of OSHandler for TLC. *)
EXTENDS OSHandler

CONSTANTS a, b,     \* two names
          Odd,      \* the object whose bytes are no text, and whose link leads to /b
          Blank     \* the one that is empty

\* The other objects are interchangeable.
Symmetry == Permutations(Nodes \ {Odd, Blank})
MCData   == [n \in Nodes |-> CASE n = Odd -> Binary [] n = Blank -> Zero [] OTHER -> Some]
MCTarget == [n \in Nodes |-> IF n = Odd THEN <<b>> ELSE <<a>>]

\* Values that Python has, of every kind: every choice of its plain fields, and
\* one or two values inside, among them one that is no input, nested or not.
Tokens(f) == CASE f \in {"real", "imag", "float"} -> {Zero, NegZero, Some}
               [] f \in Pointers \ {"real", "imag"} -> {Nil, Zero, Some}
               [] f \in {"big_int", "class_id", "instance_id", "exc_type"} -> {Some}
               [] OTHER -> {Zero, Some}
Shown    == Plain("repr", "repr", Some)
Inner    == {None, Str(Zero), Plain("float", "float", NegZero), Shown,
             Holding("tuple", NoFields, "items", <<Shown>>)}
Within2(f) == {<<>>} \cup {<<Str(Some), v>> : v \in Inner}
              \cup IF f \in {"items", "values"} THEN {<<v>> : v \in Inner} ELSE {}

MCDefaults ==
  UNION {LET own   == RustOut[k]
             plain == DOMAIN own \ ChildFields
             nest  == DOMAIN own \cap ChildFields
         IN  {Value(k, [o \in {own[f] : f \in plain} |-> at[CHOOSE f \in plain : own[f] = o]],
                       [o \in {own[f] : f \in nest} |-> kids[CHOOSE f \in nest : own[f] = o]]) :
               at   \in {g \in [plain -> {Zero, NegZero, Nil, Some}] : \A f \in plain : g[f] \in Tokens(f)},
               kids \in {g \in [nest -> UNION {Within2(f) : f \in nest}] : \A f \in nest : g[f] \in Within2(f)}} :
         k \in DOMAIN RustOut}
=============================================================================
