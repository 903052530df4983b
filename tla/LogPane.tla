------------------------------- MODULE LogPane -------------------------------
(***************************************************************************)
(* shmonty's telemetry pane: a window on the newest lines of the log, which *)
(* keeps so many and drops the older ones.  Lines are known by their       *)
(* numbers, counted from the start of the session; of a terminal only its  *)
(* height matters, and how many rows a line of the log takes at its width. *)
(***************************************************************************)
EXTENDS Integers, FiniteSets, FiniteSetsExt

CONSTANTS MaxStored,    \* maxStoredLogLines
          MinPane,      \* minLogPaneHeight
          DefaultPane,  \* defaultLogPaneHeight
          Sizes         \* the sizes the terminal may get: [height, wrap]

ASSUME PaneAssumption ==
  /\ MaxStored \in Nat \ {0} /\ MinPane \in Nat \ {0} /\ DefaultPane \in Nat \ {0}
  /\ Sizes \subseteq [height : Nat, wrap : Nat \ {0}]

VARIABLES newest,     \* how many lines the log ever got
          stored,     \* len(logLines): the last of them
          offset,     \* logScrollOffset
          following,  \* logFollowing
          size,       \* width and height; height is 0 until the first WindowSizeMsg
          resized     \* ghost: size has changed since the offset was last clamped

logVars  == <<newest, stored, offset, following>>
paneVars == <<newest, stored, offset, following, size, resized>>

PaneInit == /\ newest = 0 /\ stored = 0 /\ offset = 0
            /\ following = TRUE
            /\ size = [height |-> 0, wrap |-> 1] /\ resized = FALSE

\* logPaneHeight: a quarter of the terminal.
PaneHeight == IF size.height = 0 THEN DefaultPane ELSE Max({size.height \div 4, MinPane})

\* Mutant: back to the oldest line, not to the oldest page.
MaxOffsetOfLines(n) == n

\* maxLogScrollOffset, of a log of n lines: the oldest page.
MaxOffset(n) == Max({n - PaneHeight, 0})

ScrollTo(o, n) == /\ offset' = Min({Max({o, 0}), MaxOffset(n)})
                  /\ following' = (offset' = 0)
                  /\ resized' = FALSE

\* scrollLog
Scroll(delta) == ScrollTo(offset + delta, stored) /\ UNCHANGED <<newest, stored, size>>

\* Mutant: a pane that was scrolled back slides with the tail.
AppendLinesSliding(n) ==
  IF n = 0 THEN UNCHANGED <<logVars, resized>>
  ELSE /\ newest' = newest + n
       /\ stored' = Min({stored + n, MaxStored})
       /\ ScrollTo(offset, stored')

\* appendLogLines, of n lines: a pane that does not follow the tail goes back
\* with them.
AppendLines(n) ==
  IF n = 0 THEN UNCHANGED <<logVars, resized>>
  ELSE /\ newest' = newest + n
       /\ stored' = Min({stored + n, MaxStored})
       /\ ScrollTo(IF following THEN offset ELSE offset + n, stored')

\* WindowSizeMsg: the scroll position stays what it was.
Resize == /\ size' \in Sizes /\ resized' = (resized \/ size' # size)
          /\ UNCHANGED logVars

\* renderLogPane takes lines from the scroll position backwards while it has
\* rows left.
Bottom == newest - Min({offset, stored})
Oldest == newest - stored + 1
Shown  == {i \in Oldest..Bottom : (Bottom - i) * size.wrap < PaneHeight}

\* Mutant: the last of them is not cut.
RowsOfUncut(i) == size.wrap

\* The last of them is cut to the rows that are left.
RowsOf(i) == Min({size.wrap, PaneHeight - (Bottom - i) * size.wrap})
Rows      == {r \in Shown \X (1..size.wrap) : r[2] <= RowsOf(r[1])}

\* The block: a rule, the rows, the blank rows that they lack, a rule.
BlockRows == 1 + Cardinality(Rows) + Max({PaneHeight - Cardinality(Rows), 0}) + 1

-----------------------------------------------------------------------------
PaneTypeOK == /\ newest \in Nat
              /\ stored \in 0..Min({newest, MaxStored})
              /\ offset \in 0..stored
              /\ following = (offset = 0)
              /\ resized \in BOOLEAN
              /\ size \in Sizes \cup {[height |-> 0, wrap |-> 1]}
=============================================================================
