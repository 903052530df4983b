-------------------------- MODULE LibraryCacheProofs --------------------------
(***************************************************************************)
(* Proofs about LibraryCache, for any number of processes, temporary files  *)
(* and faults.                                                             *)
(***************************************************************************)
EXTENDS LibraryCache, TLAPS

Flags == windows \in BOOLEAN /\ dir \in BOOLEAN

Shape == /\ target \in Contents
         /\ temps \subseteq 1..MaxTemps /\ left \subseteq temps
         /\ stage \in [Procs -> Stages]
         /\ temp \in [Procs -> 0..MaxTemps]
         /\ written \in [Procs -> Contents] /\ mapped \in [Procs -> Contents]
         /\ faults \in 0..MaxFaults

\* Who owns which temporary file; nobody has one that was left behind.
Owned == /\ Shape
         /\ NoLitter
         /\ \A p \in Procs : temp[p] \notin left

\* What is moved into place is whole, and so is what is about to be loaded, if
\* it is still there.
Sound == /\ LoadedIsWhole
         /\ \A p \in Procs : stage[p] \in {"close", "chmod", "move"} => written[p] = "whole"
         /\ \A p \in Procs : stage[p] = "load" => target # "short"

LEMMA TypeOKParts == TypeOK <=> Flags /\ Shape
BY DEF TypeOK, Flags, Shape

LEMMA FlagsStep == Flags /\ [Next]_vars => Flags'
<1> USE DEF Flags
<1>1. ASSUME Flags, Next PROVE Flags'
  <2>1. ASSUME NEW p \in Procs, Begin(p) PROVE Flags'
    BY <1>1, <2>1, Zenon DEF Begin, disk
  <2>2. ASSUME NEW p \in Procs, MakeDir(p) PROVE Flags'
    BY <1>1, <2>2, Zenon DEF MakeDir
  <2>3. ASSUME NEW p \in Procs, Step(p), ~MakeDir(p) PROVE Flags'
    BY <1>1, <2>3, Zenon
       DEF Step, Check, Create, Write, Close, Chmod, Move, Reread, Load, Register, disk
  <2>4. ASSUME NEW p \in Procs, End(p) PROVE Flags'
    BY <1>1, <2>4, Zenon DEF End, disk
  <2>5. CASE Stop
    BY <1>1, <2>5, Zenon DEF Stop
  <2>6. CASE Wipe
    BY <1>1, <2>6, Zenon DEF Wipe
  <2> QED BY <1>1, <2>1, <2>2, <2>3, <2>4, <2>5, <2>6, Zenon DEF Next
<1>2. CASE UNCHANGED vars
  BY <1>2, Zenon DEF vars, disk
<1> QED BY <1>1, <1>2, Zenon

LEMMA OwnedInit == Init => Owned
BY CacheAssumption DEF Init, Owned, Shape, NoLitter, Contents, Stages, Holding, Loading

\* What Owned says of the temporary files and the processes that write them.
Files == /\ temps \subseteq 1..MaxTemps /\ left \subseteq temps
         /\ stage \in [Procs -> Stages]
         /\ temp \in [Procs -> 0..MaxTemps]
         /\ written \in [Procs -> Contents]
         /\ NoLitter
         /\ \A p \in Procs : temp[p] \notin left

\* A process that is done with its temporary file: it is gone, or left behind.
LEMMA FilesForget ==
  ASSUME Owned, NEW p \in Procs, Forget(p), NEW s \in Stages, Goto(p, s),
         \/ temps' = temps \ {temp[p]} /\ UNCHANGED left
         \/ temp[p] \in temps /\ left' = left \cup {temp[p]} /\ UNCHANGED temps
  PROVE  Files'
<1> USE CacheAssumption DEF Owned, Shape, Forget, Goto
<1>1. /\ temps' \subseteq 1..MaxTemps
      /\ stage' \in [Procs -> Stages]
      /\ temp' \in [Procs -> 0..MaxTemps]
      /\ written' \in [Procs -> Contents]
  <2>1. temps' \subseteq 1..MaxTemps
    OBVIOUS
  <2>2. stage' \in [Procs -> Stages]
    OBVIOUS
  <2>3. temp' \in [Procs -> 0..MaxTemps]
    OBVIOUS
  <2>4. written' \in [Procs -> Contents]
    BY DEF Contents
  <2> QED BY <2>1, <2>2, <2>3, <2>4
<1>2. left' \subseteq temps'
  <2>1. left \subseteq temps /\ temp[p] \notin left
    OBVIOUS
  <2>2. CASE temps' = temps \ {temp[p]} /\ UNCHANGED left
    BY <2>1, <2>2
  <2>3. CASE temp[p] \in temps /\ left' = left \cup {temp[p]} /\ UNCHANGED temps
    BY <2>1, <2>3
  <2> QED BY <2>2, <2>3
<1>3. ASSUME NEW q \in Procs PROVE temp'[q] \notin left'
  <2>1. CASE q = p
    BY <1>1, <1>2, <2>1
  <2>2. CASE q # p
    BY <2>2 DEF NoLitter
  <2> QED BY <2>1, <2>2
<1>4. \A q, r \in Procs : temp'[q] = temp'[r] /\ temp'[q] \in temps' => q = r
  BY DEF NoLitter
<1>5. ASSUME NEW t \in temps' \ left'
      PROVE  \E q \in Procs : temp'[q] = t /\ stage'[q] \in Holding
  <2>1. PICK q \in Procs : temp[q] = t /\ stage[q] \in Holding
    BY <1>5 DEF NoLitter
  <2>2. q # p
    BY <1>5, <2>1
  <2> QED BY <2>1, <2>2
<1> QED BY <1>1, <1>2, <1>3, <1>4, <1>5 DEF Files, NoLitter

\* Processes that end leave their files behind.
LEMMA FilesEnded ==
  ASSUME Owned, NEW ps \in SUBSET Procs, Ended(ps), UNCHANGED temps
  PROVE  Files' /\ mapped' \in [Procs -> Contents]
<1> USE CacheAssumption DEF Owned, Shape, Ended
<1>1. /\ stage' \in [Procs -> Stages] /\ temp' \in [Procs -> 0..MaxTemps]
      /\ written' \in [Procs -> Contents] /\ mapped' \in [Procs -> Contents]
  BY DEF Contents, Stages
<1>2. left' \subseteq temps'
  OBVIOUS
<1>3. ASSUME NEW q \in Procs PROVE temp'[q] \notin left'
  <2>1. CASE q \in ps
    BY <1>2, <2>1
  <2>2. CASE q \notin ps
    BY <2>2 DEF NoLitter
  <2> QED BY <2>1, <2>2
<1>4. \A q, r \in Procs : temp'[q] = temp'[r] /\ temp'[q] \in temps' => q = r
  BY DEF NoLitter
<1>5. ASSUME NEW t \in temps' \ left'
      PROVE  \E q \in Procs : temp'[q] = t /\ stage'[q] \in Holding
  <2>1. PICK q \in Procs : temp[q] = t /\ stage[q] \in Holding
    BY <1>5 DEF NoLitter
  <2>2. q \notin ps
    BY <1>5, <2>1
  <2> QED BY <2>1, <2>2
<1> QED BY <1>1, <1>2, <1>3, <1>4, <1>5 DEF Files, NoLitter

LEMMA OwnedStep == Owned /\ [Next]_vars => Owned'
<1> SUFFICES ASSUME Owned, [Next]_vars PROVE Owned'
  OBVIOUS
<1> USE CacheAssumption DEF Owned, Shape, NoLitter, Goto, Fault, Faults, Contents, Stages, Holding, Loading
<1>1. ASSUME NEW p \in Procs, Begin(p) PROVE Owned'
  BY <1>1 DEF Begin, disk
<1>2. ASSUME NEW p \in Procs, MakeDir(p) PROVE Owned'
  BY <1>2 DEF MakeDir
<1>3. ASSUME NEW p \in Procs, Check(p) PROVE Owned'
  BY <1>3 DEF Check, disk
<1>4. ASSUME NEW p \in Procs, Create(p) PROVE Owned'
  <2>1. CASE UNCHANGED <<temps, temp>>
    BY <1>4, <2>1 DEF Create
  <2>2. CASE Free # {} /\ ~UNCHANGED <<temps, temp>>
    <3> DEFINE t == CHOOSE n \in Free : TRUE
    <3>1. t \in Free
      BY <2>2
    <3>2. t \in 1..MaxTemps /\ t \notin temps /\ \A q \in Procs : temp[q] # t
      BY <3>1 DEF Free
    <3>3. /\ temps' = temps \cup {t} /\ temp' = [temp EXCEPT ![p] = t]
          /\ stage[p] = "create" /\ stage' = [stage EXCEPT ![p] = "write"]
          /\ UNCHANGED <<target, written, mapped, left, faults>>
      BY <1>4, <2>2 DEF Create
    <3> HIDE DEF t
    <3>4. \A q, r \in Procs : temp'[q] = temp'[r] /\ temp'[q] \in temps' => q = r
      BY <3>2, <3>3
    <3>5. ASSUME NEW u \in temps' \ left'
          PROVE  \E q \in Procs : temp'[q] = u /\ stage'[q] \in Holding
      <4>1. CASE u = t
        BY <3>3, <4>1
      <4>2. CASE u # t
        BY <3>2, <3>3, <3>5, <4>2
      <4> QED BY <4>1, <4>2
    <3> QED BY <3>2, <3>3, <3>4, <3>5
  <2> QED BY <1>4, <2>1, <2>2 DEF Create
<1>0. ASSUME NEW p \in Procs, NEW t \in Stages \ Holding, NEW n \in {0, 1},
             Discard(p, n), Goto(p, t), UNCHANGED <<target, mapped>>
      PROVE  Owned'
  <2>1. Files'
    BY <1>0, FilesForget DEF Discard
  <2>2. faults' \in 0..MaxFaults
    BY <1>0 DEF Discard
  <2> QED BY <1>0, <2>1, <2>2 DEF Files
<1>5. ASSUME NEW p \in Procs, Write(p) PROVE Owned'
  <2>1. CASE GiveUp(p)
    BY <1>0, <1>5, <2>1 DEF Write, GiveUp
  <2>2. CASE /\ written' = [written EXCEPT ![p] = "whole"]
             /\ Goto(p, "close") /\ UNCHANGED <<temps, temp, left, faults>>
    BY <1>5, <2>2 DEF Write
  <2> QED BY <1>5, <2>1, <2>2 DEF Write
<1>6. ASSUME NEW p \in Procs, Close(p) PROVE Owned'
  <2>1. CASE GiveUp(p)
    BY <1>0, <1>6, <2>1 DEF Close, GiveUp
  <2>2. CASE /\ Goto(p, IF windows THEN "move" ELSE "chmod")
             /\ UNCHANGED <<temps, temp, written, left, faults>>
    BY <1>6, <2>2 DEF Close
  <2> QED BY <1>6, <2>1, <2>2 DEF Close
<1>7. ASSUME NEW p \in Procs, Chmod(p) PROVE Owned'
  <2>1. CASE GiveUp(p)
    BY <1>0, <1>7, <2>1 DEF Chmod, GiveUp
  <2>2. CASE /\ temp[p] \in temps /\ Goto(p, "move")
             /\ UNCHANGED <<temps, temp, written, left, faults>>
    BY <1>7, <2>2 DEF Chmod
  <2>3. CASE Discard(p, 0) /\ Goto(p, "failed")
    BY <1>0, <1>7, <2>3 DEF Chmod
  <2> QED BY <1>7, <2>1, <2>2, <2>3 DEF Chmod
<1>8. ASSUME NEW p \in Procs, Move(p) PROVE Owned'
  <2>1. CASE Moved(p)
    <3>1. Files'
      BY <1>8, <2>1, FilesForget DEF Moved
    <3>2. target' \in Contents /\ UNCHANGED <<mapped, faults>>
      BY <1>8, <2>1 DEF Move, Moved
    <3> QED BY <3>1, <3>2 DEF Files
  <2>2. CASE MoveFindsOther(p)
    BY <1>0, <1>8, <2>2 DEF Move, MoveFindsOther
  <2>3. CASE MoveFails(p)
    BY <1>0, <1>8, <2>3 DEF Move, MoveFails
  <2> QED BY <1>8, <2>1, <2>2, <2>3 DEF Move
<1>9. ASSUME NEW p \in Procs, Reread(p) PROVE Owned'
  BY <1>9 DEF Reread, disk
<1>10. ASSUME NEW p \in Procs, Load(p) PROVE Owned'
  BY <1>10 DEF Load, disk
<1>11. ASSUME NEW p \in Procs, Register(p) PROVE Owned'
  BY <1>11 DEF Register, disk
<1>12. ASSUME NEW p \in Procs, End(p) PROVE Owned'
  <2>1. Files' /\ mapped' \in [Procs -> Contents]
    BY <1>12, FilesEnded DEF End, disk
  <2>2. faults' \in 0..MaxFaults
    BY <1>12 DEF End
  <2> QED BY <1>12, <2>1, <2>2 DEF Files, End, disk
<1>13. CASE Stop
  <2>1. Files' /\ mapped' \in [Procs -> Contents]
    BY <1>13, FilesEnded DEF Stop
  <2>2. faults' \in 0..MaxFaults
    BY <1>13 DEF Stop
  <2> QED BY <1>13, <2>1, <2>2 DEF Files, Stop
<1>14. CASE Wipe
  BY <1>14 DEF Wipe, procs
<1>15. CASE UNCHANGED vars
  BY <1>15 DEF vars, disk, procs
<1> QED BY <1>1, <1>2, <1>3, <1>4, <1>5, <1>6, <1>7, <1>8, <1>9, <1>10, <1>11, <1>12,
           <1>13, <1>14, <1>15 DEF Next, Step

-----------------------------------------------------------------------------
LEMMA SoundInit == Init => Sound
BY DEF Init, Sound, LoadedIsWhole

\* A copy that a move finds is taken unseen: it has to be whole.
LEMMA SoundStep ==
  ASSUME Existing \subseteq {"whole"}, Owned, Sound, [Next]_vars
  PROVE  Sound'
<1> USE DEF Owned, Shape, Sound, LoadedIsWhole, Goto, Contents
<1>1. ASSUME NEW p \in Procs, Begin(p) PROVE Sound'
  BY <1>1 DEF Begin, disk
<1>2. ASSUME NEW p \in Procs, MakeDir(p) PROVE Sound'
  BY <1>2 DEF MakeDir
<1>3. ASSUME NEW p \in Procs, Check(p) PROVE Sound'
  BY <1>3 DEF Check, Good, disk
<1>4. ASSUME NEW p \in Procs, Create(p) PROVE Sound'
  BY <1>4 DEF Create
<1>5. ASSUME NEW p \in Procs, Write(p) PROVE Sound'
  BY <1>5 DEF Write, GiveUp, Discard, Forget
<1>6. ASSUME NEW p \in Procs, Close(p) PROVE Sound'
  BY <1>6 DEF Close, GiveUp, Discard, Forget
<1>7. ASSUME NEW p \in Procs, Chmod(p) PROVE Sound'
  BY <1>7 DEF Chmod, GiveUp, Discard, Forget
<1>8. ASSUME NEW p \in Procs, Move(p) PROVE Sound'
  BY <1>8 DEF Move, Moved, MoveFindsOther, MoveFails, Discard, Forget
<1>9. ASSUME NEW p \in Procs, Reread(p) PROVE Sound'
  BY <1>9 DEF Reread, Good, disk
<1>10. ASSUME NEW p \in Procs, Load(p) PROVE Sound'
  BY <1>10 DEF Load, disk
<1>11. ASSUME NEW p \in Procs, Register(p) PROVE Sound'
  BY <1>11 DEF Register, disk
<1>12. ASSUME NEW p \in Procs, End(p) PROVE Sound'
  BY <1>12 DEF End, Ended, disk
<1>13. CASE Stop
  BY <1>13 DEF Stop, Ended
<1>14. CASE Wipe
  BY <1>14 DEF Wipe, procs
<1>15. CASE UNCHANGED vars
  BY <1>15 DEF vars, disk, procs
<1> QED BY <1>1, <1>2, <1>3, <1>4, <1>5, <1>6, <1>7, <1>8, <1>9, <1>10, <1>11, <1>12,
           <1>13, <1>14, <1>15 DEF Next, Step

\* Only a fault takes a whole copy away: what a process moves there is whole.
LEMMA GoodStep ==
  ASSUME Owned, Sound, Next, target = "whole", target' # "whole"
  PROVE  faults' = faults + 1
<1>1. \A p \in Procs : ~Move(p)
  BY DEF Move, Moved, MoveFindsOther, MoveFails, Sound
<1>2. \A p \in Procs : ~Begin(p) /\ ~Step(p) /\ ~End(p)
  BY <1>1 DEF Begin, Step, MakeDir, Check, Create, Write, Close, Chmod, Reread, Load, Register,
              End, disk
<1>3. Stop \/ Wipe
  BY <1>2 DEF Next
<1> QED BY <1>3 DEF Stop, Wipe, Fault, Faults

-----------------------------------------------------------------------------
\* Every process, file and fault keeps its shape, whatever fails and whoever
\* is killed.
THEOREM TypeCorrect == Spec => []TypeOK
<1>1. Init => Flags
  BY Zenon DEF Init, Flags
<1> QED BY <1>1, FlagsStep, OwnedInit, OwnedStep, TypeOKParts, PTL DEF Spec, Owned

\* A temporary file belongs to one process, and stays behind only when the
\* process was killed or its os.Remove failed.
THEOREM OnlyFaultsLeaveFiles == Spec => []NoLitter
BY OwnedInit, OwnedStep, PTL DEF Spec, Owned

\* As long as a move answers ErrExist only of a whole copy, no process loads
\* anything but the library embedded in it.
THEOREM LoadsTheLibrary ==
  ASSUME Existing \subseteq {"whole"}
  PROVE  Spec => []LoadedIsWhole
<1>1. Owned /\ Sound /\ [Next]_vars => Sound'
  BY SoundStep
<1> QED BY <1>1, OwnedInit, OwnedStep, SoundInit, PTL DEF Spec, Sound

\* Under the same assumption no process spoils a whole copy.
THEOREM GoodCopiesStay ==
  ASSUME Existing \subseteq {"whole"}
  PROVE  Spec => GoodStaysGood
<1>1. Owned /\ Sound /\ [Next]_vars => Sound'
  BY SoundStep
<1>2. Owned /\ Sound /\ [Next]_vars =>
        [target = "whole" /\ target' # "whole" => faults' = faults + 1]_vars
  BY GoodStep
<1> QED BY <1>1, <1>2, OwnedInit, OwnedStep, SoundInit, PTL DEF Spec, GoodStaysGood
=============================================================================
