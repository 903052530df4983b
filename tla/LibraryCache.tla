----------------------------- MODULE LibraryCache -----------------------------
(***************************************************************************)
(* How processes get at the native library that is embedded in them        *)
(* (ensureLoaded, extractEmbeddedLibrary): one cache directory for all that *)
(* embed the same library, a copy made under a temporary name and moved     *)
(* into place, and a digest check of a copy that is found.  One step per    *)
(* call of the operating system; each may fail, a process may be killed     *)
(* between any two, and the machine may stop.                              *)
(*                                                                         *)
(* sync.Once lets one goroutine of a process through and keeps its answer,  *)
(* so that a process is one sequence of steps.  Nothing is ever synced to   *)
(* the disk: what was written may be short after the machine stopped.       *)
(***************************************************************************)
EXTENDS Integers, FiniteSets

CONSTANTS Procs,
          Existing,   \* at which contents of the target a move may answer ErrExist
          MaxTemps,   \* bound: how many temporary files there may be; enough for all faults
          MaxFaults   \* bound: failed calls, kills, stops and wipes

Contents == {"absent", "short", "whole"}

ASSUME CacheAssumption == /\ Existing \subseteq Contents \ {"absent"}
                          /\ MaxTemps \in Nat /\ MaxFaults \in Nat

\* A process is down, in one of the calls, or done: ready or failed, for its life.
Holding == {"write", "close", "chmod", "move"}
Loading == {"mkdir", "check", "create", "reread", "load", "register"} \cup Holding
Stages  == {"down", "ready", "failed"} \cup Loading

VARIABLES windows,  \* runtime.GOOS
          dir,      \* whether the cache directory exists
          target,   \* what is at its target path
          temps,    \* the temporary files that exist
          stage,    \* of each process
          temp,     \* the process's temporary file, 0 for none
          written,  \* what the process wrote to it
          mapped,   \* what the process has loaded
          left,     \* ghost: files that nobody removed: of killed processes, or os.Remove failed
          faults    \* how many faults there were

disk  == <<dir, target, temps>>
procs == <<stage, temp, written, mapped>>
vars  == <<windows, disk, procs, left, faults>>

Init == /\ windows \in BOOLEAN
        /\ dir = FALSE /\ target = "absent" /\ temps = {}
        /\ stage = [p \in Procs |-> "down"]
        /\ temp = [p \in Procs |-> 0]
        /\ written = [p \in Procs |-> "absent"]
        /\ mapped = [p \in Procs |-> "absent"]
        /\ left = {} /\ faults = 0

Goto(p, s) == stage' = [stage EXCEPT ![p] = s]

\* As many calls fail, or worse, in one step.
Faults(n) == faults + n <= MaxFaults /\ faults' = faults + n

Fault == Faults(1)

-----------------------------------------------------------------------------
\* The first call of the process that needs the library.
Begin(p) == /\ stage[p] = "down"
            /\ Goto(p, "mkdir")
            /\ UNCHANGED <<windows, disk, temp, written, mapped, left, faults>>

\* os.MkdirAll
MakeDir(p) == /\ stage[p] = "mkdir"
              /\ \/ dir' = TRUE /\ Goto(p, "check") /\ UNCHANGED faults
                 \/ Fault /\ Goto(p, "failed") /\ UNCHANGED dir
              /\ UNCHANGED <<windows, target, temps, temp, written, mapped, left>>

\* Mutant: any copy will do.
GoodUnchecked == target # "absent"

\* Whether the digest of what is at the target is that of the library.
Good == target = "whole"

\* Mutant: a copy that is not good is an error.
CheckRefusing(p) == /\ stage[p] = "check"
                    /\ Goto(p, IF Good THEN "load" ELSE IF target = "absent" THEN "create" ELSE "failed")
                    /\ UNCHANGED <<windows, disk, temp, written, mapped, left, faults>>

\* A copy that is there is used if it is good; if it is not, or cannot be read,
\* a new one is made.
Check(p) == /\ stage[p] = "check"
            /\ \/ Goto(p, IF Good THEN "load" ELSE "create") /\ UNCHANGED faults
               \/ Fault /\ Goto(p, "create")
            /\ UNCHANGED <<windows, disk, temp, written, mapped, left>>

\* Names that are not taken, nor known to a process whose file was cleared away.
Free == 1..MaxTemps \ (temps \cup {temp[p] : p \in Procs})

\* os.CreateTemp; one of the free numbers stands for the random name.
Create(p) == /\ stage[p] = "create"
             /\ \/ /\ dir /\ Free # {}
                   /\ LET t == CHOOSE n \in Free : TRUE
                      IN  temps' = temps \cup {t} /\ temp' = [temp EXCEPT ![p] = t]
                   /\ Goto(p, "write") /\ UNCHANGED faults
                \/ ~dir /\ Goto(p, "failed") /\ UNCHANGED <<temps, temp, faults>>
                \/ Fault /\ Goto(p, "failed") /\ UNCHANGED <<temps, temp>>
             /\ UNCHANGED <<windows, dir, target, written, mapped, left>>

\* The process is done with its temporary file.
Forget(p) == /\ temp' = [temp EXCEPT ![p] = 0]
             /\ written' = [written EXCEPT ![p] = "absent"]

\* Mutant: nothing is removed.
DiscardKeeping(p, n) == Forget(p) /\ Faults(n) /\ UNCHANGED <<temps, left>>

\* Mutant: every temporary file is removed.
DiscardAll(p, n) == Forget(p) /\ Faults(n) /\ temps' = {} /\ UNCHANGED left

\* os.Remove of the temporary file, in a step where n calls failed before it.
\* When it fails too, nobody hears of it and the file stays.
Discard(p, n) == /\ Forget(p)
                 /\ \/ temps' = temps \ {temp[p]} /\ Faults(n) /\ UNCHANGED left
                    \/ /\ temp[p] \in temps /\ left' = left \cup {temp[p]}
                       /\ Faults(n + 1) /\ UNCHANGED temps

\* A call on the temporary file fails.
GiveUp(p) == Discard(p, 1) /\ Goto(p, "failed")

\* Mutant: the error of Write is not looked at.
WriteUnchecked(p) == /\ stage[p] = "write"
                     /\ \/ written' = [written EXCEPT ![p] = "whole"] /\ UNCHANGED faults
                        \/ written' = [written EXCEPT ![p] = "short"] /\ Fault
                     /\ Goto(p, "close")
                     /\ UNCHANGED <<windows, disk, temp, mapped, left>>

Write(p) == /\ stage[p] = "write"
            /\ \/ /\ written' = [written EXCEPT ![p] = "whole"]
                  /\ Goto(p, "close") /\ UNCHANGED <<temps, temp, left, faults>>
               \/ GiveUp(p)
            /\ UNCHANGED <<windows, dir, target, mapped>>

Close(p) == /\ stage[p] = "close"
            /\ \/ /\ Goto(p, IF windows THEN "move" ELSE "chmod")
                  /\ UNCHANGED <<temps, temp, written, left, faults>>
               \/ GiveUp(p)
            /\ UNCHANGED <<windows, dir, target, mapped>>

\* os.Chmod; the file may be gone with the directory.
Chmod(p) == /\ stage[p] = "chmod"
            /\ \/ /\ temp[p] \in temps /\ Goto(p, "move")
                  /\ UNCHANGED <<temps, temp, written, left, faults>>
               \/ temp[p] \notin temps /\ Discard(p, 0) /\ Goto(p, "failed")
               \/ GiveUp(p)
            /\ UNCHANGED <<windows, dir, target, mapped>>

\* On Windows a file that is loaded cannot be replaced or removed.
InUse == windows /\ \E q \in Procs : mapped[q] # "absent"

\* os.Rename: what is at the target goes, whatever it is.
Moved(p) == /\ temp[p] \in temps /\ ~InUse
            /\ target' = written[p] /\ temps' = temps \ {temp[p]} /\ Forget(p)
            /\ Goto(p, "load") /\ UNCHANGED <<left, faults>>

\* ErrExist: somebody else's copy is taken as it is.
MoveFindsOther(p) == /\ target \in Existing
                     /\ Discard(p, 0)
                     /\ Goto(p, "load") /\ UNCHANGED target

\* Any other error: somebody else's copy is taken if it is good.
MoveFails(p) == /\ \/ (temp[p] \notin temps \/ InUse) /\ Discard(p, 0)
                   \/ Discard(p, 1)
                /\ Goto(p, "reread") /\ UNCHANGED target

Move(p) == /\ stage[p] = "move"
           /\ Moved(p) \/ MoveFindsOther(p) \/ MoveFails(p)
           /\ UNCHANGED <<windows, dir, mapped>>

Reread(p) == /\ stage[p] = "reread"
             /\ \/ Goto(p, IF Good THEN "load" ELSE "failed") /\ UNCHANGED faults
                \/ Fault /\ Goto(p, "failed")
             /\ UNCHANGED <<windows, disk, temp, written, mapped, left>>

\* loadLibrary, which may or may not notice that a file is short.
Load(p) == /\ stage[p] = "load"
           /\ \/ /\ target # "absent"
                 /\ mapped' = [mapped EXCEPT ![p] = target]
                 /\ Goto(p, "register") /\ UNCHANGED faults
              \/ target # "whole" /\ Goto(p, "failed") /\ UNCHANGED <<mapped, faults>>
              \/ Fault /\ Goto(p, "failed") /\ UNCHANGED mapped
           /\ UNCHANGED <<windows, disk, temp, written, left>>

\* register: a symbol may not be found.
Register(p) == /\ stage[p] = "register"
               /\ \/ Goto(p, "ready") /\ UNCHANGED faults
                  \/ Fault /\ Goto(p, "failed")
               /\ UNCHANGED <<windows, disk, temp, written, mapped, left>>

-----------------------------------------------------------------------------
\* What processes leave when they end without a word.
Ended(ps) == /\ stage' = [p \in Procs |-> IF p \in ps THEN "down" ELSE stage[p]]
             /\ temp' = [p \in Procs |-> IF p \in ps THEN 0 ELSE temp[p]]
             /\ written' = [p \in Procs |-> IF p \in ps THEN "absent" ELSE written[p]]
             /\ mapped' = [p \in Procs |-> IF p \in ps THEN "absent" ELSE mapped[p]]
             /\ left' = left \cup {temp[p] : p \in {q \in ps : temp[q] \in temps}}

\* A process is killed while it loads, or ends later.
End(p) == /\ stage[p] # "down"
          /\ IF stage[p] \in Loading THEN Fault ELSE UNCHANGED faults
          /\ Ended({p})
          /\ UNCHANGED <<windows, disk>>

\* The machine stops.  A file that was moved into place may be short, or its
\* name not there yet.
Stop == /\ Fault
        /\ Ended(Procs)
        /\ target' \in {target, "short", "absent"}
        /\ target = "absent" => target' = "absent"
        /\ UNCHANGED <<windows, dir, temps>>

\* Somebody clears the cache.
Wipe == /\ Fault /\ dir /\ ~InUse
        /\ dir' = FALSE /\ target' = "absent" /\ temps' = {} /\ left' = {}
        /\ UNCHANGED <<windows, procs>>

Step(p) == MakeDir(p) \/ Check(p) \/ Create(p) \/ Write(p) \/ Close(p) \/ Chmod(p)
             \/ Move(p) \/ Reread(p) \/ Load(p) \/ Register(p)

Next == \/ \E p \in Procs : Begin(p) \/ Step(p) \/ End(p)
        \/ Stop \/ Wipe

\* A process that is not killed goes on; nobody has to begin or to end.
Spec == Init /\ [][Next]_vars /\ \A p \in Procs : WF_vars(Step(p))

-----------------------------------------------------------------------------
TypeOK == /\ windows \in BOOLEAN /\ dir \in BOOLEAN
          /\ target \in Contents
          /\ temps \subseteq 1..MaxTemps /\ left \subseteq temps
          /\ stage \in [Procs -> Stages]
          /\ temp \in [Procs -> 0..MaxTemps]
          /\ written \in [Procs -> Contents] /\ mapped \in [Procs -> Contents]
          /\ faults \in 0..MaxFaults

\* No process runs on a library that is not the one embedded in it, whatever
\* became of earlier copies, and whoever moves his into place meanwhile.
\* (extractEmbeddedLibrary, ffi.go:189)
LoadedIsWhole == \A p \in Procs : mapped[p] # "short"

\* A copy in the making belongs to one process, so that nobody moves another's
\* half; and a process that ends its use of one takes it away: only one that was
\* killed, or whose os.Remove failed, leaves its file behind.
\* (the removals of extractEmbeddedLibrary, ffi.go:210)
NoLitter == /\ \A p, q \in Procs : temp[p] = temp[q] /\ temp[p] \in temps => p = q
            /\ \A t \in temps \ left : \E p \in Procs : temp[p] = t /\ stage[p] \in Holding

\* What is good stays good: no process replaces or removes a whole copy by
\* anything else; only the machine and the owner of the cache can.
GoodStaysGood == [][target = "whole" /\ target' # "whole" => faults' = faults + 1]_vars

\* The cache heals: once nothing fails any more, a process that begins gets the
\* library, whatever was left by those before it. (ensureLoaded, ffi.go:125)
Heals == \A p \in Procs :
           (stage[p] = "mkdir" /\ faults = MaxFaults) ~> stage[p] \in {"ready", "down"}
=============================================================================
