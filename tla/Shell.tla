-------------------------------- MODULE Shell --------------------------------
(***************************************************************************)
(* shmonty's interactive shell: the model that bubbletea's event loop      *)
(* updates, one message at a time.  A key runs its whole handler, the      *)
(* program it feeds to the Repl included, so that each message is one step; *)
(* the person, the terminal and the disk act between the messages.         *)
(*                                                                         *)
(* What is on the input line is a tuple: <<>> nothing, <<"blank">> spaces, *)
(* <<"line", l>> Python, <<"leave">> exit or quit, <<"debug">> /debug,     *)
(* <<"usage">> /execute alone, and <<"execute", dir, base>> the same with  *)
(* a path: the directories that end in "/", then what is after the last.   *)
(* A name is a sequence of letters; that of a directory ends in "/".       *)
(***************************************************************************)
EXTENDS LogPane, Sequences, SequencesExt

CONSTANTS Lines,       \* Python inputs
          Scripts,     \* what a file may contain
          Paths,       \* the files that /execute is given, as dir \o <<base>>
          Listing,     \* each directory's names, as completion spells them
          Printing,    \* the code that prints a line of output
          LogLines,    \* how many lines of telemetry a run of each code makes
          Typed(_, _), \* bound: what the person types, by otel and the inputs so far
          Screens(_),  \* bound: the sizes the terminal gets, by otel
          MaxEntries,  \* maxHistoryEntries
          MaxHistory(_), \* bound: how long the history gets, by otel
          MaxNotices,  \* bound: entries in the transcript that are no inputs
          MaxLines     \* bound: how many lines the log ever gets

Code  == Lines \cup Scripts
Empty == <<>>
Texts == {Empty, <<"blank">>, <<"leave">>, <<"debug">>, <<"usage">>}
           \cup {<<"line", l>> : l \in Lines}
           \cup {"execute"} \X Seq(Seq(STRING)) \X Seq(STRING)
Inputs == Texts \ {Empty, <<"blank">>, <<"leave">>, <<"debug">>}

ASSUME ShellAssumption ==
  /\ Lines \cap Scripts = {} /\ "unreadable" \notin Code /\ "usage" \notin Code
  /\ "notice" \notin Code
  /\ Printing \subseteq Code /\ LogLines \in [Code -> Nat]
  /\ MaxEntries \in Nat \ {0} /\ \A o \in BOOLEAN : MaxHistory(o) \in Nat
  /\ MaxNotices \in Nat /\ MaxLines \in Nat
  /\ \A o \in BOOLEAN : \A n \in 0..MaxHistory(o) : Typed(o, n) \subseteq Texts

\* A name has no "/" but the one that completion puts behind a directory's.
ASSUME ListingAssumption ==
  \A dir \in DOMAIN Listing : \A name \in Listing[dir] :
    /\ name \in Seq(STRING)
    /\ \A i \in 1..Len(name) : name[i] = "/" => i = Len(name)

VARIABLES text,      \* textInput.Value()
          history,   \* the inputs to recall, and to replay
          idx,       \* historyIdx: Len(history) on a fresh line
          pending,   \* pendingInput
          entries,   \* the transcript: [code, fed]
          debug,     \* debugEnabled
          otel,      \* otelHandler # nil
          quitting,
          disk,      \* what each file holds: a script or "unreadable"
          session,   \* ghost: what the present Repl was asked to run, as in entries
          draft      \* ghost: what Up took from a fresh line, as <<text>>, or <<>>

editVars == <<text, idx, pending, draft>>
runVars  == <<history, entries, session>>
modeVars == <<debug, otel, quitting>>
vars     == <<editVars, runVars, modeVars, disk, paneVars>>

\* main and newModel.
Init == /\ text = Empty /\ history = <<>> /\ idx = 0 /\ pending = Empty
        /\ entries = <<>> /\ session = <<>> /\ draft = <<>>
        /\ debug = FALSE /\ otel \in BOOLEAN /\ quitting = FALSE
        /\ disk \in [Paths -> Scripts \cup {"unreadable"}]
        /\ PaneInit

-----------------------------------------------------------------------------
\* strings.TrimSpace of the line.
Trim(t) == CASE t = <<"blank">> -> Empty
             [] t = <<"execute", <<>>, <<>>>> -> <<"usage">>
             [] OTHER -> t

\* runInput and executeFile: what the Repl is fed for an input, or why nothing is.
Fed(code) ==
  CASE code[1] = "line"    -> code[2]
    [] code[1] = "usage"   -> "usage"
    [] code[1] = "execute" -> LET path == Append(code[2], code[3])
                              IN  IF path \in Paths THEN disk[path] ELSE "unreadable"

\* runCode: the entry; FeedRun's value or error is its result.
Ran(code) == [code |-> code, fed |-> Fed(code)]

Notice(code) == [code |-> code, fed |-> "notice"]

\* The telemetry lines of an entry's run: SlogHandler's, which is there only
\* with /debug on and no OpenTelemetry.
LinesOfRun(e) == IF debug /\ ~otel /\ e.fed \in Code THEN LogLines[e.fed] ELSE 0

\* The lines of all of them: the j-th one of the i-th run is <<i, j>>.
LinesOf(es) == Cardinality(UNION {{i} \X (1..LinesOfRun(es[i])) : i \in DOMAIN es})

Newest(es) == IF Len(es) > MaxEntries
              THEN SubSeq(es, Len(es) - MaxEntries + 1, Len(es))
              ELSE es

IsNotice(e) == e.fed = "notice"
Notices     == Cardinality({i \in DOMAIN entries : IsNotice(entries[i])})

\* KeyEnter, after the line was taken.
EnterBlank(code) == code = Empty /\ idx' = Len(history) /\ UNCHANGED <<runVars, modeVars, paneVars>>

EnterLeave(code) == /\ code = <<"leave">>
                    /\ quitting' = TRUE
                    /\ idx' = Len(history)
                    /\ UNCHANGED <<runVars, debug, otel, paneVars>>

EnterDebug(code) == /\ code = <<"debug">>
                    /\ Notices < MaxNotices
                    /\ debug' = (~otel /\ ~debug)
                    /\ entries' = Append(entries, Notice(code))
                    /\ idx' = Len(history)
                    /\ UNCHANGED <<history, session, otel, quitting, paneVars>>

EnterInput(code) == /\ code \notin {Empty, <<"leave">>, <<"debug">>}
                    /\ Len(history) < MaxHistory(otel)
                    /\ newest + LinesOfRun(Ran(code)) <= MaxLines
                    /\ entries' = Newest(Append(entries, Ran(code)))
                    /\ session' = Append(session, Ran(code))
                    /\ AppendLines(LinesOfRun(Ran(code)))
                    /\ history' = Append(history, code)
                    /\ idx' = Len(history')
                    /\ UNCHANGED <<modeVars, size>>

Enter == /\ text' = Empty /\ pending' = Empty /\ draft' = <<>>
         /\ LET code == Trim(text)
            IN  EnterBlank(code) \/ EnterLeave(code) \/ EnterDebug(code) \/ EnterInput(code)
         /\ UNCHANGED disk

-----------------------------------------------------------------------------
\* navigateHistory, to the position i.
Recall(i) == /\ idx' = i
             /\ text' = IF i = Len(history) THEN pending' ELSE history[i + 1]
             /\ UNCHANGED <<runVars, modeVars, disk, paneVars>>

\* Mutant: every Up takes the line, not only the first.
UpTakingLine == /\ history # <<>>
                /\ pending' = text
                /\ draft' = IF idx = Len(history) THEN <<text>> ELSE draft
                /\ Recall(Max({idx - 1, 0}))

Up == /\ history # <<>>
      /\ LET fresh == idx = Len(history)
         IN  /\ pending' = IF fresh THEN text ELSE pending
             /\ draft' = IF fresh THEN <<text>> ELSE draft
      /\ Recall(Max({idx - 1, 0}))

\* Mutant: the cursor is not kept within the history.
DownUnclamped == /\ history # <<>> /\ idx' = idx + 1
                 /\ text' = IF idx + 1 < Len(history) THEN history[idx + 2] ELSE pending
                 /\ draft' = <<>>
                 /\ UNCHANGED <<pending, runVars, modeVars, disk, paneVars>>

Down == /\ history # <<>>
        /\ draft' = IF idx + 1 < Len(history) THEN draft ELSE <<>>
        /\ UNCHANGED pending
        /\ Recall(Min({idx + 1, Len(history)}))

-----------------------------------------------------------------------------
Hidden(name) == name # <<>> /\ Head(name) = "."

\* What may stand for the last part of a path: hidden names only if it asks for them.
Matches(dir, base) ==
  IF dir \in DOMAIN Listing
  THEN {name \in Listing[dir] : IsPrefix(base, name) /\ (Hidden(name) => Hidden(base))}
  ELSE {}

\* The path dir + name; a name that ends in "/" is one more directory.
Path(dir, name) == IF name # <<>> /\ Last(name) = "/"
                   THEN <<"execute", Append(dir, Front(name)), <<>>>>
                   ELSE <<"execute", dir, name>>

\* Mutant: completes to one of the matches.
CommonPrefixOfOne(names) == CHOOSE name \in names : TRUE

CommonPrefix(names) == LongestCommonPrefix(names)

\* completePath
Complete ==
  /\ text # Empty /\ text[1] = "execute"
  /\ LET dir     == text[2]
         base    == text[3]
         matches == Matches(dir, base)
         common  == CommonPrefix(matches)
     IN  /\ matches # {}
         /\ \/ /\ common # base
               /\ text' = Path(dir, common)
               /\ UNCHANGED entries
            \/ /\ common = base /\ Cardinality(matches) > 1
               /\ Notices < MaxNotices
               /\ entries' = Newest(Append(entries, Notice(text)))
               /\ UNCHANGED text
  /\ UNCHANGED <<idx, pending, draft, history, session, modeVars, disk, paneVars>>

-----------------------------------------------------------------------------
\* Mutant: m.repl is not replaced.
ReplayOnOldRepl(inputs) ==
  LET ran == [i \in DOMAIN inputs |-> Ran(inputs[i])]
  IN  /\ newest + LinesOf(ran) <= MaxLines
      /\ session' = session \o ran
      /\ entries' = Newest(ran)
      /\ AppendLines(LinesOf(ran))

\* Mutant: m.entries is not reset.
ReplayBelowTranscript(inputs) ==
  LET ran == [i \in DOMAIN inputs |-> Ran(inputs[i])]
  IN  /\ newest + LinesOf(ran) <= MaxLines
      /\ session' = ran
      /\ entries' = Newest(entries \o ran)
      /\ AppendLines(LinesOf(ran))

\* rewind: what is left of the history runs on a new Repl.
Replay(inputs) ==
  LET ran == [i \in DOMAIN inputs |-> Ran(inputs[i])]
  IN  /\ newest + LinesOf(ran) <= MaxLines
      /\ session' = ran
      /\ entries' = Newest(ran)
      /\ AppendLines(LinesOf(ran))

Rewind == /\ history # <<>>
          /\ history' = Front(history)
          /\ idx' = Len(history')
          /\ pending' = Empty /\ draft' = <<>>
          /\ Replay(history')
          /\ text' = Last(history)
          /\ UNCHANGED <<modeVars, disk, size>>

\* NewRepl fails: the input is put back, but not the cursor.
RewindFails == /\ history # <<>>
               /\ idx' = Len(history) - 1
               /\ pending' = Empty /\ draft' = <<>>
               /\ UNCHANGED <<text, runVars, modeVars, disk, paneVars>>

\* KeyPgUp and KeyPgDown.
ScrollPane == /\ debug
              /\ Scroll(PaneHeight) \/ Scroll(-PaneHeight)
              /\ UNCHANGED <<editVars, runVars, modeVars, disk>>

ResizeWindow == Resize /\ size' \in Screens(otel) /\ UNCHANGED <<editVars, runVars, modeVars, disk>>

\* KeyCtrlC and KeyEsc; KeyCtrlD on an empty line.
CtrlC == quitting' = TRUE /\ UNCHANGED <<editVars, runVars, debug, otel, disk, paneVars>>
CtrlD == text = Empty /\ CtrlC

\* Any other key goes to the input line.
Type == /\ text' \in Typed(otel, Len(history)) \ {text}
        /\ UNCHANGED <<idx, pending, draft, runVars, modeVars, disk, paneVars>>

\* Somebody edits a file, or takes it away.
Edit == /\ \E f \in Paths, s \in Scripts \cup {"unreadable"} : disk' = [disk EXCEPT ![f] = s]
        /\ UNCHANGED <<editVars, runVars, modeVars, paneVars>>

\* Update, until tea.Quit.
Next == /\ ~quitting
        /\ \/ Enter \/ Up \/ Down \/ Complete \/ Rewind \/ RewindFails
           \/ ScrollPane \/ ResizeWindow \/ CtrlC \/ CtrlD \/ Type \/ Edit

Spec == Init /\ [][Next]_vars

-----------------------------------------------------------------------------
\* View: header, transcript, status line and input line, and the rows that
\* pad the frame; the newline at its end is cut off.
\* An entry has its code, its output if it has any, its result and a blank row.
Printed     == {i \in DOMAIN entries : entries[i].fed \in Printing}
TextRows    == 2 + 3 * Len(entries) + Cardinality(Printed) + 2
BlockHeight == IF debug THEN BlockRows ELSE 0
Padding     == IF size.height > 0 THEN Max({size.height - TextRows - BlockHeight, 0}) ELSE 0

\* How many newlines View writes, and what the renderer splits the frame into.
Newlines == TextRows + Padding + BlockHeight

FrameLines == (Newlines - 1) + 1

-----------------------------------------------------------------------------
\* Every variable has its type; the cursor is within the history.
TypeOK == /\ text \in Texts /\ pending \in Texts
          /\ draft \in {<<>>} \cup {<<t>> : t \in {text, pending}}
          /\ history \in Seq(Inputs) /\ idx \in 0..Len(history)
          /\ \A e \in Range(entries) \cup Range(session) :
                e.code \in Texts /\ e.fed \in Code \cup {"unreadable", "usage", "notice"}
          /\ {debug, otel, quitting} \subseteq BOOLEAN /\ ~(debug /\ otel)
          /\ disk \in [Paths -> Scripts \cup {"unreadable"}]
          /\ PaneTypeOK

\* The Repl that takes the next input has been asked to run exactly the inputs
\* of the history, in its order, whatever was entered, rewound and replayed.
\* (rewind, main.go: a session with that line removed)
SessionIsHistory == [i \in DOMAIN session |-> session[i].code] = history

AnswersAfter(es, i) == {j \in DOMAIN es : j > i /\ ~IsNotice(es[j])}

\* The results on the screen are those of this Repl, of its latest inputs and
\* in their order: none is left from before a rewind, or shown in place of
\* what a changed script answers now.
TranscriptIsTail ==
  \A i \in DOMAIN entries : ~IsNotice(entries[i]) =>
    LET k == Len(session) - Cardinality(AnswersAfter(entries, i))
    IN  k \in DOMAIN session /\ entries[i] = session[k]

\* A pane that has lines to show shows some, after any scrolling, trimming and
\* resizing. (maxLogScrollOffset, main.go:400)
PaneNeverEmpty == stored > 0 => Shown # {}

\* The pane takes as many rows as it has, whatever its lines wrap to; and if
\* the transcript and such a pane fit the screen, the frame fills it exactly: one
\* line more pushes the header off, one less leaves old rows. (View, main.go:742;
\* renderLogPane, main.go:434)
FrameFillsScreen ==
  LET fixed == IF debug THEN 1 + PaneHeight + 1 ELSE 0
  IN  /\ BlockHeight = fixed
      /\ TextRows + fixed <= size.height => FrameLines = size.height

\* New telemetry does not move a pane: at the tail it stays there; scrolled back
\* it shows the same lines until the log has dropped some of their page, then the
\* oldest page. It does move one that a change of the terminal's size left behind
\* the oldest page. (appendLogLines, main.go:411)
ViewKept ==
  IF following THEN Bottom' = newest'
  ELSE \/ resized
       \/ Bottom - PaneHeight + 1 >= Oldest' /\ Shown' = Shown
       \/ Bottom - PaneHeight + 1 < Oldest' /\ Bottom' = Oldest' + PaneHeight - 1
ViewStable == [][size' = size /\ newest' > newest => ViewKept]_vars

\* What Up took from the fresh line is there again when Down gets back to it,
\* however long the walk and whatever was typed over recalled inputs. (main.go:259)
DraftComesBack ==
  [][Down /\ draft # <<>> /\ idx' = Len(history) => text' = draft[1]]_vars

\* Tab loses no candidate: it completes as far as all of them go, or steps into
\* the only one. (completePath, main.go:290)
CompletionKeepsCandidates ==
  [][Complete /\ text' # text =>
       LET before == Matches(text[2], text[3])
       IN  \/ /\ text'[2] = text[2] /\ IsStrictPrefix(text[3], text'[3])
              /\ Matches(text'[2], text'[3]) = before
           \/ /\ \E name \in before : before = {name} /\ text' = Path(text[2], name)
              /\ text'[3] = <<>>]_vars
=============================================================================
