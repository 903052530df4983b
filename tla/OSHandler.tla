------------------------------- MODULE OSHandler -------------------------------
(***************************************************************************)
(* vfs.Handler: how the os and pathlib calls of a Python program are       *)
(* answered from a MemoryFS and an environment.  Arguments and answers     *)
(* cross the wire; between two calls other goroutines change the files.    *)
(*                                                                         *)
(* The interpreter sends each function the arguments of its signature, so  *)
(* that the checks of pathArg and its kind never answer an error here.     *)
(* Path.scan is PathScan.                                                  *)
(***************************************************************************)
EXTENDS MemoryFS, Codec, FiniteSets, SequencesExt

CONSTANTS Data,      \* what an entry object holds, if it is a file
          Target,    \* where it leads, if it is a link
          ServedSize,  \* bound: calls are made of trees of at most so many entries
          ServedDepth, \* bound: and of paths this long
          Defaults   \* what programs pass to os.getenv as a default

\* Bytes that are no UTF-8.
Binary == <<"\\xff">>

ASSUME OSHandlerAssumption == /\ Data \in [Nodes -> {Zero, Some, Binary}]
                              /\ Target \in [Nodes -> Paths]
                              /\ ServedSize \in Nat /\ ServedDepth \in 0..Depth
                              /\ \A v \in Defaults : IsValue(v, RustOut)

VARIABLES setup,   \* "full", or "bare": Handler(nil, nil)
          served   \* the call just answered and what the program got, or Nothing

osVars  == <<entries, setup, served>>
Nothing == <<>>

-----------------------------------------------------------------------------
(* Calls.                                                                  *)
PathOps == {"exists", "is_file", "is_dir", "is_symlink", "read_text", "read_bytes",
            "write_text", "write_bytes", "mkdir", "unlink", "rmdir", "iterdir", "stat",
            "rename", "resolve", "absolute"}
Changes == {"write_text", "write_bytes", "mkdir", "unlink", "rmdir", "rename"}

Call(fn, args, kwargs) == [fn |-> fn, args |-> args, kwargs |-> kwargs]

\* A path is a token too, and never the zero one.
PathToken(p) == <<"/">> \o p
PathValue(p)   == Plain("path", "path", PathToken(p))
Str(t)       == Plain("string", "string", t)
Integer(t)   == Plain("int", "int", t)
Bool(b)      == Plain("bool", "bool", IF b THEN Some ELSE Zero)

\* What is in the plain field of a value that has one of its kind's name, and
\* what is at an address of a value, when nothing is inside it.
Raw(v)       == v[<<>>].at[v[<<>>].kind]
Inside(v, a) == [b \in {<<>>} |-> v[a]]

\* pathArg and normalizePath: "" is "/".
PathArg(c, i) == IF Raw(c.args[i]) = Zero THEN Root ELSE Tail(Raw(c.args[i]))

\* The first pair with this key.
BoolKwarg(c, name) == \E i \in DOMAIN c.kwargs : /\ c.kwargs[i] = Str(<<name>>)
                                                 /\ c.kwargs[i + 1] = Bool(TRUE)

-----------------------------------------------------------------------------
(* The file system, where it changes nothing.                              *)
IsKind(p, k) == Exists(p) /\ entries[p].kind = k

\* A link holds no data.
DataAt(p) == IF IsKind(p, "file") THEN Data[entries[p].node] ELSE Zero

\* The path after n links; a link met again means that they have no end.
Followed(p, n) ==
  LET at[i \in 0..n] == IF i = 0 THEN p
                        ELSE IF IsKind(at[i - 1], "link") THEN Target[entries[at[i - 1]].node]
                        ELSE at[i - 1]
  IN  at[n]
Resolved(p) == Followed(p, Cardinality(DOMAIN entries))

\* Faulty variant of ModeAt: it does not say what the entry is.
ModeAtBare(p) == Some

\* st_mode, as FileStat, DirStat and SymlinkStat make it.
ModeAt(p) == <<entries[p].kind>>

\* The length of data, and namedTuple: inode, device, owner and group are 0.
Length(t) == IF t = Zero THEN Zero ELSE Some
StatAt(p) ==
  LET size == IF IsDir(p) THEN Some ELSE Length(DataAt(p))
      integers == <<ModeAt(p), Zero, Zero, Some, Zero, Zero, size>>
  IN  Holding("named_tuple", [type_name |-> <<"StatResult">>, field_names |-> Some],
              "values", [i \in 1..10 |-> IF i <= 7 THEN Integer(integers[i])
                                          ELSE Plain("float", "float", Some)])

\* What is wrong with making something at p.
ParentErrors(p) == << <<~Exists(Parent(p)), "ErrNotExist">>, <<~IsDir(Parent(p)), "ENOTDIR">> >>

\* Faulty variant of MkdirErrors: exist_ok takes whatever exists.
MkdirErrorsAny(c, p) ==
  IF p = Root THEN <<>>
  ELSE << <<Exists(p) /\ ~BoolKwarg(c, "exist_ok"), "ErrExist">> >>
       \o IF Exists(p) \/ BoolKwarg(c, "parents") THEN <<>> ELSE ParentErrors(p)

MkdirErrors(c, p) ==
  IF p = Root THEN <<>>
  ELSE << <<Exists(p) /\ ~(IsDir(p) /\ BoolKwarg(c, "exist_ok")), "ErrExist">> >>
       \o IF Exists(p) \/ BoolKwarg(c, "parents") THEN <<>> ELSE ParentErrors(p)

\* What each method looks for, in order: when the first holds, the error is
\* the second.
Errors(c) ==
  LET p      == PathArg(c, 1)
      absent == <<~Exists(p), "ErrNotExist">>
      isDir  == <<IsDir(p), "EISDIR">>
      notDir == <<~IsDir(p), "ENOTDIR">>
  IN CASE c.fn = "read_text"  -> <<absent, isDir, <<DataAt(p) = Binary, "EILSEQ">> >>
       [] c.fn = "read_bytes" -> <<absent, isDir>>
       [] c.fn \in {"write_text", "write_bytes"} -> Append(ParentErrors(p), isDir)
       [] c.fn = "mkdir"      -> MkdirErrors(c, p)
       [] c.fn = "unlink"     -> <<absent, isDir>>
       [] c.fn = "rmdir"      -> <<absent, notDir, <<Children(p) # {}, "ENOTEMPTY">> >>
       [] c.fn = "iterdir"    -> <<absent, notDir>>
       [] c.fn = "stat"       -> <<absent>>
       [] c.fn = "rename"     -> <<absent, <<Exists(PathArg(c, 2)), "ErrExist">> >>
                                 \o ParentErrors(PathArg(c, 2))
       [] c.fn = "resolve"    -> << <<IsKind(Resolved(p), "link"), "ELOOP">> >>
       [] OTHER               -> <<>>

\* The first that holds.
Failing(c) == {i \in DOMAIN Errors(c) : Errors(c)[i][1]}
Error(c)   == Errors(c)[CHOOSE i \in Failing(c) : \A j \in Failing(c) : i <= j][2]

\* Faulty variant of MapError: one case is missing.
MapErrorShort(err) ==
  CASE err = "ErrNotExist"               -> "FileNotFoundError"
    [] err \in {"ErrExist", "ENOTEMPTY"} -> "FileExistsError"
    [] err = "ENOTDIR"                   -> "NotADirectoryError"
    [] err = "EILSEQ"                    -> "UnicodeDecodeError"
    [] OTHER                             -> "OSError"

\* Faulty variant of MapError: one exception has a name that Python lacks.
MapErrorMisnamed(err) ==
  CASE err = "ErrNotExist"               -> "FileNotFoundError"
    [] err \in {"ErrExist", "ENOTEMPTY"} -> "FileExistsError"
    [] err = "EISDIR"                    -> "IsDirectoryError"
    [] err = "ENOTDIR"                   -> "NotADirectoryError"
    [] err = "EILSEQ"                    -> "UnicodeDecodeError"
    [] OTHER                             -> "OSError"

\* mapError.  ENOTEMPTY is an ErrExist to errors.Is.
MapError(err) ==
  CASE err = "ErrNotExist"               -> "FileNotFoundError"
    [] err \in {"ErrExist", "ENOTEMPTY"} -> "FileExistsError"
    [] err = "EISDIR"                    -> "IsADirectoryError"
    [] err = "ENOTDIR"                   -> "NotADirectoryError"
    [] err = "EILSEQ"                    -> "UnicodeDecodeError"
    [] OTHER                             -> "OSError"

-----------------------------------------------------------------------------
(* The handler.                                                            *)
Return(v)   == [is |-> "return", value |-> v]
Raise(type) == [is |-> "exception", type |-> type]

EnvKey   == Str(<<"HOME">>)
EnvValue == Str(<<"/home">>)
HasEnv   == setup = "full"

\* What an OS function answers when nothing is wrong.
Found(c) ==
  LET p == PathArg(c, 1)
  IN CASE c.fn = "exists"       -> Bool(Exists(p))
       [] c.fn = "is_file"      -> Bool(IsKind(p, "file"))
       [] c.fn = "is_dir"       -> Bool(IsDir(p))
       [] c.fn = "is_symlink"   -> Bool(IsKind(p, "link"))
       [] c.fn = "read_text"    -> Str(DataAt(p))
       [] c.fn = "read_bytes"   -> Plain("bytes", "bytes", DataAt(p))
       [] c.fn \in {"write_text", "write_bytes"} -> Integer(Length(Raw(c.args[2])))
       [] c.fn = "iterdir"      -> Holding("list", NoFields, "items",
                                     SetToSeq({PathValue(q) : q \in Children(p)}))
       [] c.fn = "stat"         -> StatAt(p)
       [] c.fn = "resolve"      -> Str(PathToken(Resolved(p)))
       [] c.fn = "absolute"     -> Str(PathToken(p))
       [] c.fn = "getenv"       -> IF HasEnv /\ c.args[1] = EnvKey THEN EnvValue
                                   ELSE IF Len(c.args) > 1 THEN c.args[2] ELSE None
       [] c.fn = "environ"      -> Holding("dict", NoFields, "pairs",
                                     IF HasEnv THEN <<EnvKey, EnvValue>> ELSE <<>>)
       [] c.fn = "import_stubs" -> Holding("dict", NoFields, "pairs", <<>>)
       [] OTHER                 -> None

Handle(c) ==
  IF c.fn \in PathOps /\ setup = "bare" THEN Raise("NotImplementedError")
  ELSE IF c.fn = "import" THEN Raise("ModuleNotFoundError")
  ELSE IF c.fn = "other"  THEN Raise("NotImplementedError")
  ELSE IF Failing(c) # {} THEN Raise(MapError(Error(c)))
  ELSE Return(Found(c))

\* What the handler does to the files when it answers a value.
Effect(c) ==
  LET p == PathArg(c, 1)
  IN \/ /\ c.fn \in {"write_text", "write_bytes"}
        /\ Write(p)
        /\ Data[entries'[p].node] = Raw(c.args[2])
     \/ /\ c.fn = "mkdir"
        /\ \/ (p = Root \/ Exists(p)) /\ UNCHANGED entries
           \/ BoolKwarg(c, "parents") /\ MkdirParents(p)
           \/ ~BoolKwarg(c, "parents") /\ Mkdir(p)
     \/ c.fn = "unlink" /\ Unlink(p)
     \/ c.fn = "rmdir" /\ (Rmdir(p) \/ (p = Root /\ UNCHANGED entries))
     \/ c.fn = "rename" /\ Rename(p, PathArg(c, 2))
     \/ c.fn \notin Changes /\ UNCHANGED entries

-----------------------------------------------------------------------------
(* The crossings: the call as Go has it, and the answer as the program has *)
(* it.  A call or an answer that the other side refuses is an error of the *)
(* run, of which the program learns nothing: see Dispatch.                 *)
Refused == [is |-> "refused"]

Sent(c)     == [c EXCEPT !.args   = [i \in DOMAIN c.args |-> FromRust(c.args[i])],
                         !.kwargs = [i \in DOMAIN c.kwargs |-> FromRust(c.kwargs[i])]]
Arrives(c)  == \A w \in Range(Sent(c).args) \cup Range(Sent(c).kwargs) : GoAccepts(w)
Received(c) == [c EXCEPT !.args   = [i \in DOMAIN c.args |-> ToGo(Sent(c).args[i])],
                         !.kwargs = [i \in DOMAIN c.kwargs |-> ToGo(Sent(c).kwargs[i])]]

\* The exception types that this code names, all of which the interpreter has;
\* a name that it does not have is an error to parse_exc_type.
ExcTypes == {"FileExistsError", "FileNotFoundError", "IsADirectoryError", "LookupError",
             "ModuleNotFoundError", "NotADirectoryError", "NotImplementedError", "OSError",
             "RuntimeError", "TypeError", "UnicodeDecodeError", "ValueError"}

\* The interpreter takes an instance as an input only when its class is the host's.
Admits(v) == \A a \in DOMAIN v : v[a].kind = "class_instance" => v[a].at["host_defined"] # Zero

\* What Rust decodes and the interpreter takes.
Taken(v) == RustAccepts(FromGo(v)) /\ Admits(ToRust(FromGo(v)))

\* newWireCallResult and decode_call_result.
Delivered(r) == CASE r.is = "exception" /\ r.type \in ExcTypes -> r
                  [] r.is = "return" /\ Taken(r.value) -> Return(ToRust(FromGo(r.value)))
                  [] OTHER -> Refused

Answer(c) == IF Arrives(c) THEN Delivered(Handle(Received(c))) ELSE Refused

Serve(c) == /\ served' = [call |-> c, answer |-> Answer(c)]
            /\ IF Arrives(c) /\ Handle(Received(c)).is = "return" THEN Effect(Received(c))
                                                                  ELSE UNCHANGED entries
            /\ UNCHANGED setup

-----------------------------------------------------------------------------
(* What programs ask.                                                      *)
PathArgs == {PathValue(p) : p \in {q \in Paths : Len(q) <= ServedDepth}} \cup {Str(Zero)}
Flags    == {<<>>} \cup {<<Str(<<"parents">>), Bool(x), Str(<<"exist_ok">>), Bool(y)>> :
                          x, y \in BOOLEAN}

PathCalls ==
       {Call(fn, <<p>>, <<>>) : fn \in PathOps \ (Changes \ {"unlink", "rmdir"}), p \in PathArgs}
  \cup {Call("write_text", <<p, Str(t)>>, <<>>) : p \in PathArgs, t \in {Zero, Some}}
  \cup {Call("write_bytes", <<p, Plain("bytes", "bytes", t)>>, <<>>) :
          p \in PathArgs, t \in {Zero, Some, Binary}}
  \cup {Call("mkdir", <<p>>, flags) : p \in PathArgs, flags \in Flags}
  \cup {Call("rename", <<p, q>>, <<>>) : p, q \in PathArgs}

OtherCalls ==
       {Call("getenv", <<k>>, <<>>) : k \in {EnvKey, Str(Some)}}
  \cup {Call("getenv", <<k, d>>, <<>>) : k \in {EnvKey, Str(Some)}, d \in Defaults}
  \cup {Call(fn, <<>>, <<>>) : fn \in {"environ", "import_stubs", "other"}}
  \cup {Call("import", <<Str(Some)>>, <<>>)}

OSInit == /\ Init
          /\ setup \in {"full", "bare"}
          /\ served = Nothing

Small == Cardinality(DOMAIN entries) <= ServedSize

\* The host, or a goroutine with another program, changes the files.
ChangeByOthers == /\ served = Nothing /\ setup = "full"
                  /\ Change
                  /\ UNCHANGED <<setup, served>>

AskPath == /\ served = Nothing /\ Small
           /\ \E c \in PathCalls : Serve(c)

\* These look at no file.
AskOther == /\ served = Nothing /\ DOMAIN entries = {Root}
            /\ \E c \in OtherCalls : Serve(c)

Take == /\ served # Nothing /\ served' = Nothing
        /\ UNCHANGED <<entries, setup>>

OSNext == ChangeByOthers \/ AskPath \/ AskOther \/ Take
OSSpec == OSInit /\ [][OSNext]_osVars

-----------------------------------------------------------------------------
\* What can leave Rust but not come back: some kinds, and the instances of the
\* classes that a program defines.
OutputKinds   == {"repr", "cycle", "file_handle", "class_type", "type", "builtin_function"}
OutputOnly(x) == \/ x.kind \in OutputKinds
                 \/ x.kind = "class_instance" /\ x.at["host_defined"] = Zero

\* The default that a program gave to os.getenv is what it answers.
AnswersDefault(c) == /\ c.fn = "getenv" /\ Len(c.args) > 1
                     /\ ~(setup = "full" /\ c.args[1] = EnvKey)

\* Go takes every call and Rust every answer, the names of the exceptions
\* included, so that no OS call fails a run; but for a default with something in
\* it that is only for output, which never comes back.
AnswersAreAccepted ==
  served # Nothing =>
    (served.answer.is = "refused" <=>
       /\ AnswersDefault(served.call)
       /\ \E a \in DOMAIN served.call.args[2] : OutputOnly(served.call.args[2][a]))

\* A value that goes to Go and comes back is what it was, field by field and
\* however deeply nested; only a float of -0.0 loses its sign.
Float(t)    == Plain("float", "float", t)
Unsigned(v) == [a \in DOMAIN v |-> IF v[a] = Float(NegZero)[<<>>] THEN Float(Zero)[<<>>] ELSE v[a]]
DefaultComesBack ==
  (served # Nothing /\ served.answer.is = "return" /\ served.call.fn = "getenv") =>
    LET c == served.call
    IN  served.answer.value = IF setup = "full" /\ c.args[1] = EnvKey THEN EnvValue
                              ELSE IF Len(c.args) > 1 THEN Unsigned(c.args[2]) ELSE None

\* The paths a call makes, and those that must be there for it.
Makes(c) == CASE c.fn \in {"write_text", "write_bytes", "mkdir"} -> {PathArg(c, 1)}
              [] c.fn = "rename" -> {PathArg(c, 2)}
              [] OTHER -> {}
Needs(c) == {Parent(p) : p \in Makes(c)} \cup
            IF c.fn \in {"write_text", "write_bytes", "mkdir"} THEN {} ELSE {PathArg(c, 1)}

\* Links that lead from one to the other without end.
Endless(p) == \E ls \in SUBSET {q \in DOMAIN entries : IsKind(q, "link")} :
                 p \in ls /\ \A l \in ls : Target[entries[l].node] \in ls

\* The exception a program sees says what is wrong: of the paths it named, or
\* of the function it called.
Truthful(c, e) ==
       CASE e = "FileNotFoundError"   -> \E p \in Needs(c) : ~Exists(p)
         [] e = "FileExistsError"     -> \/ \E p \in Makes(c) : Exists(p)
                                         \/ c.fn = "rmdir" /\ Children(PathArg(c, 1)) # {}
         [] e = "IsADirectoryError"   -> IsDir(PathArg(c, 1))
         [] e = "NotADirectoryError"  -> \E p \in Needs(c) : Exists(p) /\ ~IsDir(p)
         [] e = "UnicodeDecodeError"  -> DataAt(PathArg(c, 1)) = Binary
         [] e = "OSError"             -> Endless(PathArg(c, 1))
         [] e = "ModuleNotFoundError" -> c.fn = "import"
         [] e = "NotImplementedError" -> setup = "bare" \/ c.fn = "other"
ErrorsAreTruthful ==
  (served # Nothing /\ served.answer.is = "exception") =>
    Truthful(served.call, served.answer.type)

\* What a program is told of a path.
Told(fn, p)    == Answer(Call(fn, <<PathValue(p)>>, <<>>))
Yes(fn, p)     == Told(fn, p) = Return(Bool(TRUE))
Answered(fn, p) == Told(fn, p).is = "return"

\* The answers to different questions about one tree do not contradict each
\* other: the probes, the mode and the size in stat, what can be read and
\* listed, and where resolve leads.
AnswersAgree ==
  (served = Nothing /\ Small /\ setup = "full") => \A p \in Paths :
    /\ Yes("exists", p) <=> Answered("stat", p)
    /\ Cardinality({fn \in {"is_file", "is_dir", "is_symlink"} : Yes(fn, p)})
         = IF Yes("exists", p) THEN 1 ELSE 0
    /\ Answered("read_bytes", p) <=> Yes("is_file", p) \/ Yes("is_symlink", p)
    /\ Answered("read_text", p) => Raw(Told("read_text", p).value) = Raw(Told("read_bytes", p).value)
    /\ Answered("stat", p) =>
         LET stat(i) == Raw(Inside(Told("stat", p).value, << <<"values", i>> >>))
         IN  /\ Yes("is_dir", p)     <=> stat(1) = <<"dir">>
             /\ Yes("is_symlink", p) <=> stat(1) = <<"link">>
             /\ Answered("read_bytes", p) =>
                  (stat(7) = Zero <=> Raw(Told("read_bytes", p).value) = Zero)
    /\ Answered("iterdir", p) <=> Yes("is_dir", p)
    /\ Answered("iterdir", p) => LET names == Told("iterdir", p).value IN
         {Inside(names, a) : a \in DOMAIN names \ {<<>>}} =
         {PathValue(q) : q \in {r \in Paths : r # p /\ Parent(r) = p /\ Yes("exists", r)}}
    /\ Answered("resolve", p) => ~Yes("is_symlink", Tail(Raw(Told("resolve", p).value)))

\* After a call that changes files, the program finds what the answer says:
\* the text it wrote and its length, a directory, nothing, the entry renamed.
AnswersHold ==
  (served # Nothing /\ served.answer.is = "return" /\ served.call.fn \in Changes) =>
    LET c == served.call
        p == PathArg(c, 1)
    IN CASE c.fn = "write_text"  -> Told("read_text", p) = Return(c.args[2])
         [] c.fn = "write_bytes" -> Told("read_bytes", p) = Return(c.args[2])
         [] c.fn = "mkdir"       -> Yes("is_dir", p)
         [] c.fn \in {"unlink", "rmdir"} -> p = Root \/ ~Yes("exists", p)
         [] c.fn = "rename"      -> ~Yes("exists", p) /\ Yes("exists", PathArg(c, 2))
=============================================================================
