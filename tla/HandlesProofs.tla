---------------------------- MODULE HandlesProofs ----------------------------
(***************************************************************************)
(* Proofs about Handles: for every number of goroutines, Repls, Snapshots  *)
(* and Runners, and with every rare failure, no native value is ever       *)
(* shared, used after its release or forgotten, a borrowed handle stays    *)
(* open, and a REPL that was not loaded from bytes has one execution.      *)
(***************************************************************************)
EXTENDS Handles, TLAPS

(***************************************************************************)
(* The inductive invariant.  SoleOwner alone is not inductive: that Move   *)
(* and Swap overwrite no handle depends on what each label of pc says of   *)
(* the goroutine's hands and of its object.                                *)
(***************************************************************************)

\* An object that does not exist has no handle.
Unmade == \A o \in Objs \ made : holds[o] = None

\* A goroutine inside a method has an object that exists and has that method.
Called == \A t \in Threads : pc[t] # "idle" =>
            /\ obj[t] \in made
            /\ op[t] \in Methods(obj[t])

\* The owner of a Snapshot exists.
OwnersMade == \A p \in Progs : owner[p] # None => owner[p] \in made

\* Until it takes a handle, a goroutine has none.
EmptyHanded == \A t \in Threads :
                 pc[t] \in {"idle", "locked", "using", "reading"} => holds[t] = None

\* restore and clear have a Repl to work on.
Owned == \A t \in Threads : pc[t] \in {"put", "swap"} => Own(t) \in Repls

\* Which mutex each label holds, and that a borrowed handle is there.
Guarded == \A t \in Threads :
             /\ pc[t] \in {"locked", "using"} => mu[obj[t]] = t
             /\ pc[t] = "swap" => mu[Own(t)] = t
             /\ pc[t] = "using" => holds[obj[t]] # None

Bookkeeping == Unmade /\ Called /\ OwnersMade /\ EmptyHanded /\ Owned /\ Guarded

IInv == TypeOK /\ SoleOwner /\ Bookkeeping

-----------------------------------------------------------------------------
(* Facts about one state that the steps below share.                       *)

\* A goroutine inside a method is at a place of its own, its object at
\* another one, and its owner, if any, is a Repl that exists.
LEMMA InsideCall ==
  ASSUME IInv, NEW t \in Threads, pc[t] # "idle"
  PROVE  /\ obj[t] \in Objs /\ obj[t] \in Places /\ t \in Places /\ obj[t] # t
         /\ obj[t] \notin Threads
         /\ Own(t) # None => Own(t) \in Repls /\ Own(t) \in made
         /\ None \notin Places /\ None \notin Natives
<1>1. obj[t] \in made /\ obj[t] \in Objs
  BY DEF IInv, TypeOK, Bookkeeping, Called
<1>2. Own(t) # None => Own(t) \in Repls /\ Own(t) \in made
  BY <1>1, ConstantsAssumption
  DEF IInv, TypeOK, Bookkeeping, OwnersMade, Own, OwnerOf, Objs
<1> QED
  BY <1>1, <1>2, ConstantsAssumption DEF Places

\* A feed is a call of a Repl, which is its own owner.
LEMMA FeedOwns ==
  ASSUME IInv, NEW t \in Threads, pc[t] # "idle", op[t] = "feed"
  PROVE  obj[t] \in Repls /\ Own(t) = obj[t]
<1>1. obj[t] \in Objs /\ "feed" \in Methods(obj[t])
  BY DEF IInv, TypeOK, Bookkeeping, Called
<1>2. obj[t] \in Repls
  BY <1>1, ConstantsAssumption DEF Methods, Objs
<1> QED
  BY <1>2 DEF Own, OwnerOf

-----------------------------------------------------------------------------
(* What the operations on handles do to SoleOwner.                         *)

Handing == holds \in [Places -> Natives \cup {None}] /\ None \notin Natives /\ SoleOwner

\* A value moves to an empty place: take, Publish.
LEMMA MoveKeeps ==
  ASSUME Handing, NEW x \in Places, NEW y \in Places, x # y, holds[y] = None,
         Move(x, y), UNCHANGED live
  PROVE  SoleOwner'
<1>1. \A z \in Places : holds'[z] = IF z = x THEN None ELSE IF z = y THEN holds[x] ELSE holds[z]
  BY DEF Handing, Move
<1>2. \A z, w \in Places : holds'[z] # None /\ holds'[z] = holds'[w] => z = w
  BY <1>1 DEF Handing, SoleOwner
<1>3. {holds'[z] : z \in Places} \ {None} = {holds[z] : z \in Places} \ {None}
  BY <1>1
<1> QED
  BY <1>2, <1>3 DEF Handing, SoleOwner

\* A place is emptied and its value, if it had one, is freed.
LEMMA FreeKeeps ==
  ASSUME Handing, NEW x \in Places, Free(x)
  PROVE  SoleOwner'
<1>1. \A z \in Places : holds'[z] = IF z = x THEN None ELSE holds[z]
  BY DEF Handing, Free
<1>2. \A z, w \in Places : holds'[z] # None /\ holds'[z] = holds'[w] => z = w
  BY <1>1 DEF Handing, SoleOwner
<1>3. live' = {holds'[z] : z \in Places} \ {None}
  BY <1>1 DEF Handing, SoleOwner, Free
<1> QED
  BY <1>2, <1>3 DEF SoleOwner

\* A new value, different from every allocated one, fills an empty place.
LEMMA AllocateKeeps ==
  ASSUME Handing, NEW x \in Places, NEW s, holds[x] = None, Allocate(x, s)
  PROVE  SoleOwner'
<1>1. \A z \in Places : holds'[z] = IF z = x THEN s ELSE holds[z]
  BY DEF Handing, Allocate
<1>2. s # None /\ \A z \in Places : holds[z] # s
  BY DEF Handing, Allocate, SoleOwner
<1>3. \A z, w \in Places : holds'[z] # None /\ holds'[z] = holds'[w] => z = w
  BY <1>1, <1>2 DEF Handing, SoleOwner
<1>4. live' = {holds'[z] : z \in Places} \ {None}
  BY <1>1, <1>2 DEF Handing, SoleOwner, Allocate
<1> QED
  BY <1>3, <1>4 DEF SoleOwner

\* restore and clear exchange two places.
LEMMA ExchangeKeeps ==
  ASSUME Handing, NEW x \in Places, NEW y \in Places, UNCHANGED live,
         holds' = [holds EXCEPT ![x] = holds[y], ![y] = holds[x]]
  PROVE  SoleOwner'
<1>1. \A z \in Places : holds'[z] = IF z = y THEN holds[x] ELSE IF z = x THEN holds[y] ELSE holds[z]
  BY DEF Handing
<1>2. \A z, w \in Places : holds'[z] # None /\ holds'[z] = holds'[w] => z = w
  BY <1>1 DEF Handing, SoleOwner
<1>3. {holds'[z] : z \in Places} \ {None} = {holds[z] : z \in Places} \ {None}
  BY <1>1
<1> QED
  BY <1>2, <1>3 DEF Handing, SoleOwner

-----------------------------------------------------------------------------
(* Every step keeps SoleOwner.                                             *)

\* The steps that touch neither a handle nor a native value.
Quiet(t) == \/ Borrow(t) \/ BorrowNil(t) \/ ReadInFlight(t) \/ EndDump(t) \/ TakeNil(t)
            \/ MarshalFails(t) \/ Execute(t) \/ PutLock(t)

LEMMA Hands == IInv => Handing
BY ConstantsAssumption DEF IInv, TypeOK, Handing

LEMMA SoleOwnerStep == IInv /\ [LoadNext]_vars => SoleOwner'
<1> SUFFICES ASSUME IInv, [LoadNext]_vars PROVE SoleOwner'
  OBVIOUS
<1> USE Hands
<1>0. ASSUME UNCHANGED <<holds, live>> PROVE SoleOwner'
  BY <1>0 DEF IInv, SoleOwner
<1>1. ASSUME NEW o \in Repls \cup Runners, Construct(o) PROVE SoleOwner'
  <2>1. o \in Places /\ holds[o] = None
    BY <1>1 DEF Construct, IInv, Bookkeeping, Unmade, Objs, Places
  <2> QED
    BY <1>1, <2>1, AllocateKeeps DEF Construct
<1>2. ASSUME NEW p \in Progs, LoadSnapshot(p) PROVE SoleOwner'
  BY <1>2, AllocateKeeps DEF LoadSnapshot, Objs, Places
<1>3. ASSUME NEW p \in Progs, DropSnapshot(p) PROVE SoleOwner'
  BY <1>3, FreeKeeps DEF DropSnapshot, Objs, Places
<1>4. ASSUME NEW p \in Progs, NEW r \in Repls, LoadReplSnapshot(p, r) PROVE SoleOwner'
  <2>1. PICK s \in Natives \ live, b \in Natives \ live :
          /\ s # b
          /\ holds' = [holds EXCEPT ![p] = s, ![r] = b]
          /\ live' = live \cup {s, b}
    BY <1>4 DEF LoadReplSnapshot
  <2>2. p \in Places /\ r \in Places /\ p # r /\ holds[p] = None /\ holds[r] = None
    BY <1>4, ConstantsAssumption
    DEF LoadReplSnapshot, IInv, Bookkeeping, Unmade, Objs, Places
  <2>3. \A z \in Places : holds'[z] = IF z = r THEN b ELSE IF z = p THEN s ELSE holds[z]
    BY <2>1, <2>2 DEF Handing
  <2>4. s # None /\ b # None /\ \A z \in Places : holds[z] # s /\ holds[z] # b
    BY <2>1 DEF Handing, SoleOwner
  <2>5. \A z, w \in Places : holds'[z] # None /\ holds'[z] = holds'[w] => z = w
    BY <2>1, <2>3, <2>4 DEF Handing, SoleOwner
  <2>6. live' = {holds'[z] : z \in Places} \ {None}
    BY <2>1, <2>2, <2>3, <2>4 DEF Handing, SoleOwner
  <2> QED
    BY <2>5, <2>6 DEF SoleOwner
<1>5. ASSUME NEW t \in Threads, EndStart(t) PROVE SoleOwner'
  <2>1. CASE UNCHANGED <<holds, live>>
    BY <2>1, <1>0
  <2>2. ASSUME NEW p \in Progs, NEW s \in Natives, Fresh(t, p), Allocate(p, s) PROVE SoleOwner'
    BY <2>2, AllocateKeeps DEF Fresh, Objs, Places
  <2> QED
    BY <1>5, <2>1, <2>2 DEF EndStart
<1>6. ASSUME NEW t \in Threads, Take(t) PROVE SoleOwner'
  <2>1. holds[t] = None /\ pc[t] # "idle"
    BY <1>6 DEF Take, Taking, IInv, Bookkeeping, EmptyHanded
  <2> QED
    BY <1>6, <2>1, InsideCall, MoveKeeps DEF Take
<1>7. ASSUME NEW t \in Threads, NEW p \in Progs, Publish(t, p) PROVE SoleOwner'
  <2>1. t \in Places /\ p \in Places /\ t # p /\ holds[p] = None
    BY <1>7, ConstantsAssumption DEF Publish, Fresh, Objs, Places
  <2> QED
    BY <1>7, <2>1, MoveKeeps DEF Publish
<1>8. ASSUME NEW t \in Threads, Swap(t) PROVE SoleOwner'
  <2>1. pc[t] # "idle" /\ Own(t) \in Repls
    BY <1>8 DEF Swap, IInv, Bookkeeping, Owned
  <2>2. t \in Places /\ Own(t) \in Places
    BY <2>1 DEF Objs, Places
  <2> QED
    BY <1>8, <2>2, ExchangeKeeps DEF Swap
<1>9. ASSUME NEW t \in Threads,
             \/ OptionsFail(t) \/ ExecuteFails(t) \/ Recover(t) \/ CallbackPanics(t)
             \/ ProgressInvalid(t) \/ Consume(t) \/ CloseOld(t)
      PROVE  SoleOwner'
  <2>1. t \in Places
    BY DEF Places
  <2>2. Free(t) \/ UNCHANGED <<holds, live>>
    BY <1>9 DEF OptionsFail, ExecuteFails, Recover, CallbackPanics, ProgressInvalid, Consume, CloseOld
  <2> QED
    BY <2>1, <2>2, <1>0, FreeKeeps
<1>10. ASSUME NEW t \in Threads, Quiet(t) PROVE SoleOwner'
  <2>1. UNCHANGED <<holds, live>>
    BY <1>10 DEF Quiet, Borrow, BorrowNil, ReadInFlight, EndDump, TakeNil, MarshalFails, Execute, PutLock
  <2> QED
    BY <2>1, <1>0
<1>11. ASSUME NEW t \in Threads, NEW o \in Objs, NEW m,
              Canceled(t, o) \/ Call(t, m, o) \/ Busy(t, m, o)
       PROVE  SoleOwner'
  BY <1>0, <1>11 DEF Canceled, Call, Busy
<1>12. CASE UNCHANGED vars
  BY <1>0, <1>12 DEF vars
<1> QED
  BY <1>1, <1>2, <1>3, <1>4, <1>5, <1>6, <1>7, <1>8, <1>9, <1>10, <1>11, <1>12
  DEF LoadNext, Next, Caller, Step, Quiet

-----------------------------------------------------------------------------
(* Every step keeps the shape of the state.                                *)

LEMMA TypeStep == IInv /\ [LoadNext]_vars => TypeOK'
<1> SUFFICES ASSUME IInv, [LoadNext]_vars PROVE TypeOK'
  OBVIOUS
<1> USE DEF IInv, TypeOK, Goto, Unlock, Move, Free, Allocate, Return, Continue, MarkInFlight,
            Settle, Labels, Results
<1>1. ASSUME NEW o \in Repls \cup Runners, Construct(o) PROVE TypeOK'
  BY <1>1 DEF Construct, Objs, Places, locals
<1>2. ASSUME NEW p \in Progs, LoadSnapshot(p) \/ DropSnapshot(p) PROVE TypeOK'
  BY <1>2 DEF LoadSnapshot, DropSnapshot, Objs, Places, locals
<1>3. ASSUME NEW p \in Progs, NEW r \in Repls, LoadReplSnapshot(p, r) PROVE TypeOK'
  BY <1>3 DEF LoadReplSnapshot, Objs, Places, locals
<1>4. ASSUME NEW t \in Threads, NEW o \in Objs,
             NEW m \in {"dump", "start", "feed", "resume", "abandon"},
             Canceled(t, o) \/ Call(t, m, o) \/ Busy(t, m, o)
      PROVE  TypeOK'
  BY <1>4 DEF Canceled, Call, Busy
<1>5. ASSUME NEW t \in Threads, Borrow(t) \/ BorrowNil(t) \/ ReadInFlight(t) \/ EndDump(t)
      PROVE  TypeOK'
  BY <1>5 DEF Borrow, BorrowNil, ReadInFlight, EndDump, NilAnswer
<1>6. ASSUME NEW t \in Threads, EndStart(t) PROVE TypeOK'
  <2>1. CASE UNCHANGED <<made, holds, live, owner>>
    BY <1>6, <2>1 DEF EndStart
  <2>2. ASSUME NEW p \in Progs, NEW s \in Natives, Allocate(p, s),
               made' = made \cup {p}, owner' = [owner EXCEPT ![p] = None]
        PROVE  TypeOK'
    <3>1. holds' \in [Places -> Natives \cup {None}] /\ live' \subseteq Natives
      BY <2>2 DEF Objs, Places
    <3>2. made' \subseteq Objs /\ owner' \in [Progs -> Repls \cup {None}]
      BY <2>2 DEF Objs
    <3> QED
      BY <1>6, <3>1, <3>2 DEF EndStart
  <2> QED
    BY <1>6, <2>1, <2>2 DEF EndStart
<1>7. ASSUME NEW t \in Threads, Take(t) PROVE TypeOK'
  <2>1. obj[t] \in Places /\ t \in Places
    BY <1>7, InsideCall DEF Take, Taking
  <2> QED
    BY <1>7, <2>1 DEF Take
<1>8. ASSUME NEW t \in Threads, TakeNil(t) \/ OptionsFail(t) \/ MarshalFails(t) \/ Execute(t)
      PROVE  TypeOK'
  BY <1>8 DEF TakeNil, OptionsFail, MarshalFails, Execute, NilAnswer
<1>9. ASSUME NEW t \in Threads, ExecuteFails(t) \/ Recover(t) \/ CallbackPanics(t)
      PROVE  TypeOK'
  BY <1>9 DEF ExecuteFails, Recover, CallbackPanics
<1>10. ASSUME NEW t \in Threads, NEW p \in Progs, Publish(t, p) PROVE TypeOK'
  <2>1. Own(t) \in Repls \cup {None} /\ t \in Places
    BY <1>10, InsideCall DEF Publish
  <2> QED
    BY <1>10, <2>1 DEF Publish, Objs, Places
<1>11. ASSUME NEW t \in Threads, ProgressInvalid(t) \/ Consume(t) \/ CloseOld(t)
       PROVE  TypeOK'
  BY <1>11 DEF ProgressInvalid, Consume, CloseOld
<1>12. ASSUME NEW t \in Threads, PutLock(t) \/ Swap(t) PROVE TypeOK'
  <2>1. Own(t) \in Places
    BY <1>12, InsideCall DEF PutLock, Swap, Bookkeeping, Owned, Objs, Places
  <2>2. CASE PutLock(t)
    BY <2>1, <2>2 DEF PutLock
  <2>3. CASE Swap(t)
    <3>1. holds' \in [Places -> Natives \cup {None}]
      BY <2>1, <2>3 DEF Swap, Places
    <3> QED
      BY <2>3, <3>1 DEF Swap
  <2> QED
    BY <1>12, <2>2, <2>3
<1>13. CASE UNCHANGED vars
  BY <1>13 DEF vars
<1> QED
  BY <1>1, <1>2, <1>3, <1>4, <1>5, <1>6, <1>7, <1>8, <1>9, <1>10, <1>11, <1>12, <1>13
  DEF LoadNext, Next, Caller, Step

-----------------------------------------------------------------------------
(* Every step keeps the bookkeeping.                                       *)

\* A Snapshot that some goroutine uses is neither dropped nor made anew, so a
\* goroutine that stays inside a method keeps its object and its owner.
LEMMA CallStays ==
  ASSUME IInv, [LoadNext]_vars, NEW u \in Threads, pc[u] # "idle", obj'[u] = obj[u]
  PROVE  obj[u] \in made' /\ Own(u)' = Own(u)
<1>0. obj[u] \in made /\ obj[u] \in Objs /\ obj[u] # None
  BY InsideCall DEF IInv, Bookkeeping, Called
<1>1. ASSUME UNCHANGED owner, made \subseteq made'
      PROVE  obj[u] \in made' /\ Own(u)' = Own(u)
  BY <1>0, <1>1 DEF Own, OwnerOf
<1>2. ASSUME NEW p \in Progs, NEW v, obj[u] # p, owner' = [owner EXCEPT ![p] = v],
             made \ {p} \subseteq made'
      PROVE  obj[u] \in made' /\ Own(u)' = Own(u)
  BY <1>0, <1>2 DEF Own, OwnerOf, IInv, TypeOK
<1>3. ASSUME NEW p \in Progs, LoadSnapshot(p) \/ DropSnapshot(p)
      PROVE  obj[u] \in made' /\ Own(u)' = Own(u)
  BY <1>3, <1>2 DEF LoadSnapshot, DropSnapshot, Referenced
<1>4. ASSUME NEW p \in Progs, NEW r \in Repls, LoadReplSnapshot(p, r)
      PROVE  obj[u] \in made' /\ Own(u)' = Own(u)
  BY <1>0, <1>4, <1>2 DEF LoadReplSnapshot
<1>5. ASSUME NEW t \in Threads, EndStart(t)
      PROVE  obj[u] \in made' /\ Own(u)' = Own(u)
  <2>1. CASE UNCHANGED <<made, owner>>
    BY <2>1, <1>1
  <2>2. ASSUME NEW p \in Progs, Fresh(t, p), Return(t, "paused"), made' = made \cup {p},
               owner' = [owner EXCEPT ![p] = None]
        PROVE  obj[u] \in made' /\ Own(u)' = Own(u)
    <3>1. u # t
      BY <1>0, <2>2 DEF Return, IInv, TypeOK
    <3> QED
      BY <2>2, <3>1, <1>2 DEF Fresh
  <2> QED
    BY <1>5, <2>1, <2>2 DEF EndStart
<1>6. ASSUME NEW t \in Threads, NEW p \in Progs, Publish(t, p)
      PROVE  obj[u] \in made' /\ Own(u)' = Own(u)
  <2>1. u # t
    BY <1>0, <1>6 DEF Publish, Return, IInv, TypeOK
  <2> QED
    BY <1>6, <2>1, <1>2 DEF Publish, Fresh
<1>7. ASSUME NEW o \in Repls \cup Runners, Construct(o)
      PROVE  obj[u] \in made' /\ Own(u)' = Own(u)
  BY <1>1, <1>7 DEF Construct
<1>8. ASSUME NEW t \in Threads, NEW o \in Objs, NEW m,
             Canceled(t, o) \/ Call(t, m, o) \/ Busy(t, m, o)
      PROVE  obj[u] \in made' /\ Own(u)' = Own(u)
  BY <1>1, <1>8 DEF Canceled, Call, Busy
<1>9. ASSUME NEW t \in Threads,
             \/ Quiet(t) \/ Take(t) \/ OptionsFail(t) \/ ExecuteFails(t) \/ Recover(t)
             \/ CallbackPanics(t) \/ ProgressInvalid(t) \/ Consume(t) \/ Swap(t) \/ CloseOld(t)
      PROVE  obj[u] \in made' /\ Own(u)' = Own(u)
  <2>1. UNCHANGED <<made, owner>>
    BY <1>9 DEF Quiet, Borrow, BorrowNil, ReadInFlight, EndDump, TakeNil, MarshalFails, Execute,
       PutLock, Take, OptionsFail, ExecuteFails, Recover, CallbackPanics, ProgressInvalid,
       Consume, Swap, CloseOld
  <2> QED
    BY <2>1, <1>1
<1>10. CASE UNCHANGED vars
  BY <1>1, <1>10 DEF vars
<1> QED
  BY <1>3, <1>4, <1>5, <1>6, <1>7, <1>8, <1>9, <1>10 DEF LoadNext, Next, Caller, Step, Quiet

\* Steps of a goroutine and of the API's callers, for the lemmas below: what
\* each does to the goroutines' positions.
LEMMA OthersStay ==
  ASSUME IInv, NEW t \in Threads,
         \/ Step(t) \/ PutLock(t)
         \/ \E o \in Objs, m \in {"dump", "start", "feed", "resume", "abandon"} :
              Canceled(t, o) \/ Call(t, m, o) \/ Busy(t, m, o),
         NEW u \in Threads, u # t
  PROVE  pc'[u] = pc[u] /\ op'[u] = op[u] /\ obj'[u] = obj[u]
<1> USE DEF IInv, TypeOK, Goto, Return, Continue, Settle
<1>1. ASSUME NEW o \in Objs, NEW m, Canceled(t, o) \/ Call(t, m, o) \/ Busy(t, m, o)
      PROVE  pc'[u] = pc[u] /\ op'[u] = op[u] /\ obj'[u] = obj[u]
  BY <1>1 DEF Canceled, Call, Busy
<1>2. ASSUME Quiet(t) \/ EndStart(t) \/ Take(t) \/ OptionsFail(t)
      PROVE  pc'[u] = pc[u] /\ op'[u] = op[u] /\ obj'[u] = obj[u]
  BY <1>2 DEF Quiet, Borrow, BorrowNil, ReadInFlight, EndDump, TakeNil, MarshalFails, Execute,
     PutLock, EndStart, Take, OptionsFail
<1>3. ASSUME \/ ExecuteFails(t) \/ Recover(t) \/ CallbackPanics(t) \/ ProgressInvalid(t)
             \/ Consume(t) \/ Swap(t) \/ CloseOld(t) \/ \E p \in Progs : Publish(t, p)
      PROVE  pc'[u] = pc[u] /\ op'[u] = op[u] /\ obj'[u] = obj[u]
  BY <1>3 DEF ExecuteFails, Recover, CallbackPanics, ProgressInvalid, Consume, Swap, CloseOld, Publish
<1> QED
  BY <1>1, <1>2, <1>3 DEF Step, Quiet

\* When objects come and go, no goroutine moves.
LEMMA AllStay ==
  ASSUME \/ \E o \in Repls \cup Runners : Construct(o)
         \/ \E p \in Progs : LoadSnapshot(p) \/ DropSnapshot(p)
         \/ \E p \in Progs, r \in Repls : LoadReplSnapshot(p, r)
         \/ UNCHANGED vars
  PROVE  UNCHANGED <<pc, op, obj, mu>>
BY DEF Construct, LoadSnapshot, DropSnapshot, LoadReplSnapshot, locals, vars

\* How the goroutine that takes a step stands after it.
LEMMA StepLeavesCalled ==
  ASSUME IInv, NEW t \in Threads, Step(t) \/ PutLock(t)
  PROVE  \/ pc'[t] = "idle"
         \/ pc[t] # "idle" /\ obj'[t] = obj[t] /\ op'[t] = op[t]
<1> USE DEF IInv, TypeOK, Goto, Return, Continue, Settle
<1>1. CASE Quiet(t) \/ EndStart(t) \/ Take(t) \/ OptionsFail(t)
  BY <1>1 DEF Quiet, Borrow, Borrowing, BorrowNil, ReadInFlight, EndDump, TakeNil, Taking,
     MarshalFails, Execute, PutLock, EndStart, Take, OptionsFail
<1>2. CASE \/ ExecuteFails(t) \/ Recover(t) \/ CallbackPanics(t) \/ ProgressInvalid(t)
           \/ Consume(t) \/ Swap(t) \/ CloseOld(t) \/ \E p \in Progs : Publish(t, p)
  BY <1>2 DEF ExecuteFails, Recover, CallbackPanics, ProgressInvalid, Consume, Swap, CloseOld, Publish
<1> QED
  BY <1>1, <1>2 DEF Step, Quiet

LEMMA CalledStep == IInv /\ [LoadNext]_vars => Called'
<1> SUFFICES ASSUME IInv, [LoadNext]_vars, NEW u \in Threads, pc'[u] # "idle"
             PROVE  obj'[u] \in made' /\ op'[u] \in Methods(obj'[u])
  BY DEF Called, Methods
<1>1. ASSUME pc[u] # "idle", obj'[u] = obj[u], op'[u] = op[u]
      PROVE  obj'[u] \in made' /\ op'[u] \in Methods(obj'[u])
  BY <1>1, CallStays DEF IInv, Bookkeeping, Called
<1>2. ASSUME NEW t \in Threads, Step(t) \/ PutLock(t)
      PROVE  obj'[u] \in made' /\ op'[u] \in Methods(obj'[u])
  BY <1>1, <1>2, OthersStay, StepLeavesCalled
<1>3. ASSUME NEW t \in Threads, NEW o \in Objs,
             NEW m \in {"dump", "start", "feed", "resume", "abandon"},
             Canceled(t, o) \/ Call(t, m, o) \/ Busy(t, m, o)
      PROVE  obj'[u] \in made' /\ op'[u] \in Methods(obj'[u])
  <2>1. CASE u = t
    BY <1>3, <2>1 DEF Canceled, Call, Busy, Goto, IInv, TypeOK
  <2>2. CASE u # t
    BY <1>1, <1>3, <2>2, OthersStay
  <2> QED
    BY <2>1, <2>2
<1>4. CASE UNCHANGED <<pc, op, obj, mu>>
  BY <1>1, <1>4
<1> QED
  BY <1>2, <1>3, <1>4, AllStay DEF LoadNext, Next, Caller

LEMMA OwnersMadeStep == IInv /\ [LoadNext]_vars => OwnersMade'
<1> SUFFICES ASSUME IInv, [LoadNext]_vars PROVE OwnersMade'
  OBVIOUS
<1>1. ASSUME UNCHANGED owner, made \subseteq made' PROVE OwnersMade'
  BY <1>1 DEF IInv, Bookkeeping, OwnersMade
<1>2. ASSUME NEW p \in Progs, NEW v, v # None => v \in Repls \cap made',
             owner' = [owner EXCEPT ![p] = v], made \ {p} \subseteq made'
      PROVE  OwnersMade'
  <2>1. p \notin Repls
    BY ConstantsAssumption
  <2>2. \A q \in Progs : owner[q] # None => owner[q] \in Repls \cap made
    BY DEF IInv, TypeOK, Bookkeeping, OwnersMade
  <2> QED
    BY <1>2, <2>1, <2>2 DEF IInv, TypeOK, OwnersMade
<1>3. ASSUME NEW p \in Progs, LoadSnapshot(p) \/ DropSnapshot(p) PROVE OwnersMade'
  BY <1>3, <1>2 DEF LoadSnapshot, DropSnapshot
<1>4. ASSUME NEW p \in Progs, NEW r \in Repls, LoadReplSnapshot(p, r) PROVE OwnersMade'
  BY <1>4, <1>2 DEF LoadReplSnapshot
<1>5. ASSUME NEW t \in Threads, EndStart(t) PROVE OwnersMade'
  BY <1>5, <1>1, <1>2 DEF EndStart
<1>6. ASSUME NEW t \in Threads, NEW p \in Progs, Publish(t, p) PROVE OwnersMade'
  BY <1>6, <1>2, InsideCall DEF Publish
<1>7. ASSUME NEW o \in Repls \cup Runners, Construct(o) PROVE OwnersMade'
  BY <1>1, <1>7 DEF Construct
<1>8. ASSUME NEW t \in Threads,
             \/ Quiet(t) \/ Take(t) \/ OptionsFail(t) \/ ExecuteFails(t) \/ Recover(t)
             \/ CallbackPanics(t) \/ ProgressInvalid(t) \/ Consume(t) \/ Swap(t) \/ CloseOld(t)
             \/ \E o \in Objs, m \in {"dump", "start", "feed", "resume", "abandon"} :
                  Canceled(t, o) \/ Call(t, m, o) \/ Busy(t, m, o)
      PROVE  OwnersMade'
  <2>1. UNCHANGED <<made, owner>>
    BY <1>8 DEF Quiet, Borrow, BorrowNil, ReadInFlight, EndDump, TakeNil, MarshalFails, Execute,
       PutLock, Take, OptionsFail, ExecuteFails, Recover, CallbackPanics, ProgressInvalid,
       Consume, Swap, CloseOld, Canceled, Call, Busy
  <2> QED
    BY <2>1, <1>1
<1>9. CASE UNCHANGED vars
  BY <1>1, <1>9 DEF vars
<1> QED
  BY <1>3, <1>4, <1>5, <1>6, <1>7, <1>8, <1>9 DEF LoadNext, Next, Caller, Step, Quiet

LEMMA UnmadeStep == IInv /\ [LoadNext]_vars => Unmade'
<1> SUFFICES ASSUME IInv, [LoadNext]_vars PROVE Unmade'
  OBVIOUS
<1> USE DEF IInv, Bookkeeping, Unmade, TypeOK
<1>1. ASSUME UNCHANGED holds, made \subseteq made' PROVE Unmade'
  BY <1>1
<1>2. ASSUME NEW o \in Repls \cup Runners, Construct(o) PROVE Unmade'
  BY <1>2 DEF Construct, Allocate, Objs, Places
<1>3. ASSUME NEW p \in Progs, LoadSnapshot(p) \/ DropSnapshot(p) PROVE Unmade'
  BY <1>3 DEF LoadSnapshot, DropSnapshot, Allocate, Free, Objs, Places
<1>4. ASSUME NEW p \in Progs, NEW r \in Repls, LoadReplSnapshot(p, r) PROVE Unmade'
  BY <1>4 DEF LoadReplSnapshot, Objs, Places
<1>5. ASSUME NEW t \in Threads, EndStart(t) PROVE Unmade'
  <2>1. ASSUME NEW p \in Progs, NEW s \in Natives, Allocate(p, s), made' = made \cup {p}
        PROVE  Unmade'
    BY <2>1 DEF Allocate, Objs, Places
  <2> QED
    BY <1>1, <1>5, <2>1 DEF EndStart
<1>6. ASSUME NEW t \in Threads, NEW p \in Progs, Publish(t, p) PROVE Unmade'
  BY <1>6, ConstantsAssumption DEF Publish, Move, Objs, Places
<1>7. ASSUME NEW t \in Threads, Take(t) PROVE Unmade'
  BY <1>7, InsideCall, ConstantsAssumption DEF Take, Taking, Move, Objs, Places
<1>8. ASSUME NEW t \in Threads, Swap(t) PROVE Unmade'
  <2>1. Own(t) \in made /\ t \notin Objs
    BY <1>8, InsideCall, ConstantsAssumption DEF Swap, Owned, Objs, Places
  <2> QED
    BY <1>8, <2>1 DEF Swap, Places
<1>9. ASSUME NEW t \in Threads,
             \/ OptionsFail(t) \/ ExecuteFails(t) \/ Recover(t) \/ CallbackPanics(t)
             \/ ProgressInvalid(t) \/ Consume(t) \/ CloseOld(t)
      PROVE  Unmade'
  <2>1. (Free(t) \/ UNCHANGED holds) /\ UNCHANGED made
    BY <1>9 DEF OptionsFail, ExecuteFails, Recover, CallbackPanics, ProgressInvalid, Consume, CloseOld
  <2> QED
    BY <2>1, ConstantsAssumption DEF Free, Places
<1>10. ASSUME NEW t \in Threads,
              \/ Quiet(t)
              \/ \E o \in Objs, m \in {"dump", "start", "feed", "resume", "abandon"} :
                   Canceled(t, o) \/ Call(t, m, o) \/ Busy(t, m, o)
       PROVE  Unmade'
  <2>1. UNCHANGED <<made, holds>>
    BY <1>10 DEF Quiet, Borrow, BorrowNil, ReadInFlight, EndDump, TakeNil, MarshalFails, Execute,
       PutLock, Canceled, Call, Busy
  <2> QED
    BY <2>1, <1>1
<1>11. CASE UNCHANGED vars
  BY <1>1, <1>11 DEF vars
<1> QED
  BY <1>2, <1>3, <1>4, <1>5, <1>6, <1>7, <1>8, <1>9, <1>10, <1>11
  DEF LoadNext, Next, Caller, Step, Quiet

LEMMA EmptyHandedStep == IInv /\ [LoadNext]_vars => EmptyHanded'
<1> SUFFICES ASSUME IInv, [LoadNext]_vars, NEW u \in Threads,
                    pc'[u] \in {"idle", "locked", "using", "reading"}
             PROVE  holds'[u] = None
  BY DEF EmptyHanded
<1> USE DEF IInv, TypeOK, Goto, Return, Continue, Settle, Free
<1>0. u \in Places /\ u \notin Objs
  BY ConstantsAssumption DEF Places
<1>1. pc[u] \in {"idle", "locked", "using", "reading"} => holds[u] = None
  BY DEF Bookkeeping, EmptyHanded
<1>2. ASSUME NEW o \in Repls \cup Runners, Construct(o) PROVE holds'[u] = None
  BY <1>0, <1>1, <1>2 DEF Construct, Allocate, locals, Objs
<1>3. ASSUME NEW p \in Progs, LoadSnapshot(p) \/ DropSnapshot(p) PROVE holds'[u] = None
  BY <1>0, <1>1, <1>3 DEF LoadSnapshot, DropSnapshot, Allocate, locals, Objs
<1>4. ASSUME NEW p \in Progs, NEW r \in Repls, LoadReplSnapshot(p, r) PROVE holds'[u] = None
  BY <1>0, <1>1, <1>4 DEF LoadReplSnapshot, locals, Objs
<1>5. ASSUME NEW t \in Threads, NEW o \in Objs, NEW m,
             Canceled(t, o) \/ Call(t, m, o) \/ Busy(t, m, o)
      PROVE  holds'[u] = None
  BY <1>1, <1>5 DEF Canceled, Call, Busy
<1>6. ASSUME NEW t \in Threads, Quiet(t) PROVE holds'[u] = None
  BY <1>1, <1>6 DEF Quiet, Borrow, BorrowNil, Borrowing, ReadInFlight, EndDump, TakeNil, Taking,
     MarshalFails, Execute, PutLock
<1>7. ASSUME NEW t \in Threads, EndStart(t) PROVE holds'[u] = None
  <2>1. pc[u] \in {"idle", "locked", "using", "reading"}
    BY <1>7 DEF EndStart
  <2>2. ASSUME NEW p \in Progs, NEW s \in Natives, Allocate(p, s) PROVE holds'[u] = None
    BY <1>0, <1>1, <2>1, <2>2 DEF Allocate, Objs
  <2>3. ASSUME UNCHANGED holds PROVE holds'[u] = None
    BY <1>1, <2>1, <2>3
  <2> QED
    BY <1>7, <2>2, <2>3 DEF EndStart
<1>8. ASSUME NEW t \in Threads, Take(t) PROVE holds'[u] = None
  <2>1. obj[t] \in Objs
    BY <1>8, InsideCall DEF Take, Taking
  <2>2. u # t
    BY <1>8 DEF Take
  <2> QED
    BY <1>0, <1>1, <1>8, <2>1, <2>2 DEF Take, Move
<1>9. ASSUME NEW t \in Threads, NEW p \in Progs, Publish(t, p) PROVE holds'[u] = None
  BY <1>0, <1>1, <1>9 DEF Publish, Move, Objs, Places
<1>10. ASSUME NEW t \in Threads, OptionsFail(t) \/ CallbackPanics(t) \/ CloseOld(t)
       PROVE  holds'[u] = None
  BY <1>0, <1>1, <1>10 DEF OptionsFail, CallbackPanics, CloseOld, Places
<1>11. ASSUME NEW t \in Threads, ExecuteFails(t) \/ ProgressInvalid(t) PROVE holds'[u] = None
  BY <1>0, <1>1, <1>11 DEF ExecuteFails, ProgressInvalid, Places
<1>12. ASSUME NEW t \in Threads, Recover(t) \/ Consume(t) PROVE holds'[u] = None
  BY <1>0, <1>1, <1>12 DEF Recover, Consume, Places
<1>13. ASSUME NEW t \in Threads, Swap(t) PROVE holds'[u] = None
  <2>1. Own(t) \in Objs
    BY <1>13 DEF Swap, Bookkeeping, Owned, Objs
  <2>2. u = t => holds[Own(t)] = None
    BY <1>13 DEF Swap
  <2> QED
    BY <1>0, <1>1, <1>13, <2>1, <2>2 DEF Swap, Places
<1>14. CASE UNCHANGED vars
  BY <1>1, <1>14 DEF vars
<1> QED
  BY <1>2, <1>3, <1>4, <1>5, <1>6, <1>7, <1>8, <1>9, <1>10, <1>11, <1>12, <1>13, <1>14
  DEF LoadNext, Next, Caller, Step, Quiet

LEMMA OwnedStep == IInv /\ [LoadNext]_vars => Owned'
<1> SUFFICES ASSUME IInv, [LoadNext]_vars, NEW u \in Threads, pc'[u] \in {"put", "swap"}
             PROVE  Own(u)' \in Repls
  BY DEF Owned
<1> USE DEF IInv, TypeOK, Goto, Return, Continue, Settle
<1>1. ASSUME pc[u] # "idle", obj'[u] = obj[u], Own(u) # None PROVE Own(u)' \in Repls
  BY <1>1, CallStays, InsideCall
<1>2. ASSUME pc[u] \in {"put", "swap"}, obj'[u] = obj[u] PROVE Own(u)' \in Repls
  <2>1. Own(u) \in Repls /\ Own(u) # None
    BY <1>2, ConstantsAssumption DEF Bookkeeping, Owned, Objs, Places
  <2> QED
    BY <1>1, <1>2, <2>1
<1>3. ASSUME NEW t \in Threads, Step(t) \/ PutLock(t), u # t PROVE Own(u)' \in Repls
  BY <1>2, <1>3, OthersStay
<1>4. ASSUME Quiet(u) \/ OptionsFail(u) \/ EndStart(u) \/ Take(u) PROVE Own(u)' \in Repls
  <2>1. CASE MarshalFails(u)
    <3>1. Own(u) # None
      BY <2>1, FeedOwns, ConstantsAssumption DEF MarshalFails, Objs, Places
    <3> QED
      BY <1>1, <2>1, <3>1 DEF MarshalFails
  <2>2. CASE PutLock(u)
    BY <1>2, <2>2 DEF PutLock
  <2> QED
    BY <1>4, <2>1, <2>2 DEF Quiet, Borrow, BorrowNil, ReadInFlight, EndDump, TakeNil, Execute,
       OptionsFail, EndStart, Take
<1>5. ASSUME Recover(u) \/ ProgressInvalid(u) \/ Consume(u) PROVE Own(u)' \in Repls
  BY <1>1, <1>5 DEF Recover, ProgressInvalid, Consume
<1>6. ASSUME ExecuteFails(u) \/ CallbackPanics(u) \/ Swap(u) \/ CloseOld(u)
             \/ \E p \in Progs : Publish(u, p)
      PROVE  Own(u)' \in Repls
  BY <1>6 DEF ExecuteFails, CallbackPanics, Swap, CloseOld, Publish
<1>7. ASSUME NEW t \in Threads, NEW o \in Objs,
             NEW m \in {"dump", "start", "feed", "resume", "abandon"},
             Canceled(t, o) \/ Call(t, m, o) \/ Busy(t, m, o)
      PROVE  Own(u)' \in Repls
  <2>1. u # t
    BY <1>7 DEF Canceled, Call, Busy
  <2> QED
    BY <1>2, <1>7, <2>1, OthersStay
<1>8. CASE UNCHANGED <<pc, op, obj, mu>>
  BY <1>2, <1>8
<1> QED
  BY <1>3, <1>4, <1>5, <1>6, <1>7, <1>8, AllStay DEF LoadNext, Next, Caller, Step, Quiet

\* A goroutine's mutex is untouched by the steps of the others: they lock a
\* free mutex, or unlock their own.
LEMMA MutexStays ==
  ASSUME IInv, NEW t \in Threads,
         \/ Step(t) \/ PutLock(t)
         \/ \E o \in Objs, m \in {"dump", "start", "feed", "resume", "abandon"} :
              Canceled(t, o) \/ Call(t, m, o) \/ Busy(t, m, o),
         NEW u \in Threads, u # t, NEW k \in Objs, mu[k] = u
  PROVE  mu'[k] = u
<1> USE DEF IInv, TypeOK, Unlock
<1>1. u # None
  BY ConstantsAssumption DEF Places
<1>2. ASSUME UNCHANGED mu PROVE mu'[k] = u
  BY <1>2
<1>3. ASSUME NEW o \in Objs, NEW v, mu[o] \in {None, t}, mu' = [mu EXCEPT ![o] = v]
      PROVE  mu'[k] = u
  BY <1>1, <1>3
<1>4. ASSUME NEW o \in Objs, NEW m, Canceled(t, o) \/ Call(t, m, o) \/ Busy(t, m, o)
      PROVE  mu'[k] = u
  BY <1>2, <1>3, <1>4 DEF Canceled, Call, Busy
<1>5. CASE BorrowNil(t) \/ EndDump(t) \/ EndStart(t) \/ Take(t) \/ TakeNil(t)
  <2>1. pc[t] \in {"locked", "using"} /\ mu' = [mu EXCEPT ![obj[t]] = None]
    BY <1>5 DEF BorrowNil, Borrowing, EndDump, EndStart, Take, TakeNil, Taking
  <2>2. obj[t] \in Objs /\ mu[obj[t]] = t
    BY <2>1, InsideCall DEF Bookkeeping, Guarded
  <2> QED
    BY <2>1, <2>2, <1>3
<1>6. CASE PutLock(t) \/ Swap(t)
  <2>1. Own(t) \in Objs /\ mu[Own(t)] \in {None, t}
    BY <1>6 DEF PutLock, Swap, Bookkeeping, Guarded, Owned, Objs
  <2> QED
    BY <1>6, <2>1, <1>3 DEF PutLock, Swap
<1>7. CASE \/ Borrow(t) \/ ReadInFlight(t) \/ MarshalFails(t) \/ Execute(t) \/ OptionsFail(t)
           \/ ExecuteFails(t) \/ Recover(t) \/ CallbackPanics(t) \/ ProgressInvalid(t)
           \/ Consume(t) \/ CloseOld(t) \/ \E p \in Progs : Publish(t, p)
  BY <1>2, <1>7 DEF Borrow, ReadInFlight, MarshalFails, Execute, OptionsFail, ExecuteFails,
     Recover, CallbackPanics, ProgressInvalid, Consume, CloseOld, Publish
<1> QED
  BY <1>4, <1>5, <1>6, <1>7 DEF Step

\* The handle of a borrowed object is untouched by every step but the end of
\* the borrowing: those who take it or swap it need the mutex.
LEMMA BorrowedStays ==
  ASSUME IInv, [LoadNext]_vars, NEW u \in Threads, pc[u] = "using", pc'[u] = "using"
  PROVE  holds'[obj[u]] = holds[obj[u]]
<1> USE DEF IInv, TypeOK
<1>0. /\ obj[u] \in made /\ obj[u] \in Objs /\ obj[u] \notin Threads
      /\ mu[obj[u]] = u /\ holds[obj[u]] # None
  BY InsideCall DEF Bookkeeping, Guarded, Called
<1>1. ASSUME NEW o \in Repls \cup Runners, Construct(o) PROVE holds'[obj[u]] = holds[obj[u]]
  BY <1>0, <1>1 DEF Construct, Allocate, Objs, Places
<1>2. ASSUME NEW p \in Progs, LoadSnapshot(p) \/ DropSnapshot(p)
      PROVE  holds'[obj[u]] = holds[obj[u]]
  BY <1>0, <1>2 DEF LoadSnapshot, DropSnapshot, Referenced, Allocate, Free, Objs, Places
<1>3. ASSUME NEW p \in Progs, NEW r \in Repls, LoadReplSnapshot(p, r)
      PROVE  holds'[obj[u]] = holds[obj[u]]
  BY <1>0, <1>3 DEF LoadReplSnapshot, Objs, Places
<1>4. ASSUME NEW t \in Threads, EndStart(t) PROVE holds'[obj[u]] = holds[obj[u]]
  <2>1. CASE UNCHANGED holds
    BY <2>1
  <2>2. ASSUME NEW p \in Progs, NEW s \in Natives, Fresh(t, p), Allocate(p, s)
        PROVE  holds'[obj[u]] = holds[obj[u]]
    BY <1>0, <2>2 DEF Fresh, Allocate
  <2> QED
    BY <1>4, <2>1, <2>2 DEF EndStart
<1>5. ASSUME NEW t \in Threads, Take(t) PROVE holds'[obj[u]] = holds[obj[u]]
  <2>1. mu[obj[t]] = t /\ pc[t] = "locked"
    BY <1>5 DEF Take, Taking, Bookkeeping, Guarded
  <2> QED
    BY <1>0, <1>5, <2>1 DEF Take, Move, Places
<1>6. ASSUME NEW t \in Threads, NEW p \in Progs, Publish(t, p)
      PROVE  holds'[obj[u]] = holds[obj[u]]
  BY <1>0, <1>6 DEF Publish, Fresh, Move, Places
<1>7. ASSUME NEW t \in Threads, Swap(t) PROVE holds'[obj[u]] = holds[obj[u]]
  <2>1. mu[Own(t)] = t /\ pc[t] = "swap"
    BY <1>7 DEF Swap, Bookkeeping, Guarded
  <2> QED
    BY <1>0, <1>7, <2>1 DEF Swap, Places
<1>8. ASSUME NEW t \in Threads,
             \/ OptionsFail(t) \/ ExecuteFails(t) \/ Recover(t) \/ CallbackPanics(t)
             \/ ProgressInvalid(t) \/ Consume(t) \/ CloseOld(t)
      PROVE  holds'[obj[u]] = holds[obj[u]]
  <2>1. Free(t) \/ UNCHANGED holds
    BY <1>8 DEF OptionsFail, ExecuteFails, Recover, CallbackPanics, ProgressInvalid, Consume, CloseOld
  <2> QED
    BY <1>0, <2>1 DEF Free, Places
<1>9. ASSUME NEW t \in Threads,
             \/ Quiet(t)
             \/ \E o \in Objs, m \in {"dump", "start", "feed", "resume", "abandon"} :
                  Canceled(t, o) \/ Call(t, m, o) \/ Busy(t, m, o)
      PROVE  holds'[obj[u]] = holds[obj[u]]
  BY <1>9 DEF Quiet, Borrow, BorrowNil, ReadInFlight, EndDump, TakeNil, MarshalFails, Execute,
     PutLock, Canceled, Call, Busy
<1>10. CASE UNCHANGED vars
  BY <1>10 DEF vars
<1> QED
  BY <1>1, <1>2, <1>3, <1>4, <1>5, <1>6, <1>7, <1>8, <1>9, <1>10
  DEF LoadNext, Next, Caller, Step, Quiet

LEMMA GuardedStep == IInv /\ [LoadNext]_vars => Guarded'
<1> SUFFICES ASSUME IInv, [LoadNext]_vars, NEW u \in Threads
             PROVE  /\ pc'[u] \in {"locked", "using"} => mu'[obj'[u]] = u
                    /\ pc'[u] = "swap" => mu'[Own(u)'] = u
                    /\ pc'[u] = "using" => holds'[obj'[u]] # None
  BY DEF Guarded
<1> DEFINE Good == /\ pc'[u] \in {"locked", "using"} => mu'[obj'[u]] = u
                   /\ pc'[u] = "swap" => mu'[Own(u)'] = u
                   /\ pc'[u] = "using" => holds'[obj'[u]] # None
<1>0. /\ pc[u] \in {"locked", "using"} => mu[obj[u]] = u
      /\ pc[u] = "swap" => mu[Own(u)] = u
      /\ pc[u] = "using" => holds[obj[u]] # None
  BY DEF IInv, Bookkeeping, Guarded
<1>1. ASSUME pc'[u] = pc[u], obj'[u] = obj[u],
             \A k \in Objs : mu[k] = u => mu'[k] = u
      PROVE  Good
  <2>1. CASE pc[u] \in {"locked", "using"}
    BY <1>0, <1>1, <2>1, InsideCall, BorrowedStays
  <2>2. CASE pc[u] = "swap"
    BY <1>0, <1>1, <2>2, InsideCall, CallStays DEF IInv, Bookkeeping, Owned, Objs
  <2> QED
    BY <1>1, <2>1, <2>2
<1>2. ASSUME NEW t \in Threads,
             \/ Step(t) \/ PutLock(t)
             \/ \E o \in Objs, m \in {"dump", "start", "feed", "resume", "abandon"} :
                  Canceled(t, o) \/ Call(t, m, o) \/ Busy(t, m, o),
             u # t
      PROVE  Good
  BY <1>1, <1>2, OthersStay, MutexStays
<1> USE DEF Goto, Return, Continue, Settle
<1>3. ASSUME NEW o \in Objs, NEW m, Canceled(u, o) \/ Call(u, m, o) \/ Busy(u, m, o) PROVE Good
  BY <1>3 DEF Canceled, Call, Busy, IInv, TypeOK
<1>4. CASE Borrow(u)
  BY <1>0, <1>4 DEF Borrow, Borrowing, IInv, TypeOK
<1>5. CASE PutLock(u)
  <2>1. Own(u) \in Objs /\ obj[u] # None
    BY <1>5, InsideCall DEF PutLock, IInv, Bookkeeping, Owned, Objs
  <2>2. Own(u)' = Own(u)
    BY <1>5, CallStays DEF PutLock
  <2> QED
    BY <1>5, <2>1, <2>2 DEF PutLock, IInv, TypeOK
<1>6. CASE \/ BorrowNil(u) \/ ReadInFlight(u) \/ EndDump(u) \/ EndStart(u) \/ Take(u) \/ TakeNil(u)
           \/ MarshalFails(u) \/ Execute(u) \/ OptionsFail(u) \/ ExecuteFails(u) \/ Recover(u)
  BY <1>6 DEF BorrowNil, ReadInFlight, EndDump, EndStart, Take, TakeNil, MarshalFails, Execute,
     OptionsFail, ExecuteFails, Recover, IInv, TypeOK
<1>7. CASE \/ CallbackPanics(u) \/ ProgressInvalid(u) \/ Consume(u) \/ Swap(u) \/ CloseOld(u)
           \/ \E p \in Progs : Publish(u, p)
  BY <1>7 DEF CallbackPanics, ProgressInvalid, Consume, Swap, CloseOld, Publish, IInv, TypeOK
<1>8. CASE UNCHANGED <<pc, op, obj, mu>>
  BY <1>1, <1>8
<1> QED
  BY <1>2, <1>3, <1>4, <1>5, <1>6, <1>7, <1>8, AllStay DEF LoadNext, Next, Caller, Step, Quiet

-----------------------------------------------------------------------------
(* The theorems.                                                           *)

LEMMA InitIInv == Init => IInv
<1> SUFFICES ASSUME Init PROVE IInv
  OBVIOUS
<1> USE ConstantsAssumption
<1>1. TypeOK
  BY DEF Init, TypeOK, Labels, Results
<1>2. SoleOwner
  BY DEF Init, SoleOwner
<1>3. Bookkeeping
  BY DEF Init, Bookkeeping, Unmade, Called, OwnersMade, EmptyHanded, Owned, Guarded, Objs, Places
<1> QED
  BY <1>1, <1>2, <1>3 DEF IInv

LEMMA StepIInv == IInv /\ [LoadNext]_vars => IInv'
BY SoleOwnerStep, TypeStep, CalledStep, OwnersMadeStep, UnmadeStep, EmptyHandedStep, OwnedStep,
   GuardedStep
DEF IInv, Bookkeeping

\* The invariant holds whether or not sessions are loaded from bytes.
LEMMA Inductive == LoadSpec => []IInv
BY InitIInv, StepIInv, PTL DEF LoadSpec

LEMMA SpecIsLoadSpec == Spec => LoadSpec
<1>1. [Next]_vars => [LoadNext]_vars
  BY DEF LoadNext
<1> QED
  BY <1>1, PTL DEF Spec, LoadSpec

\* The state of every Go object and every goroutine keeps its shape.
THEOREM TypeCorrect == LoadSpec => []TypeOK
<1>1. IInv => TypeOK
  BY DEF IInv
<1> QED
  BY <1>1, Inductive, PTL

\* Memory safety of the handle protocol: no native value is shared, freed
\* twice, used after its release, or forgotten.
THEOREM SoleOwnership == LoadSpec => []SoleOwner
<1>1. IInv => SoleOwner
  BY DEF IInv
<1> QED
  BY <1>1, Inductive, PTL

\* Nothing closes or moves a handle that Dump, TypeCheck or Start has lent to
\* Rust.
THEOREM BorrowingIsSafe == LoadSpec => BorrowedStaysOpen
<1>1. ASSUME IInv, IInv', [LoadNext]_vars
      PROVE  [\A t \in Threads : pc[t] = "using" /\ pc'[t] = "using" =>
                /\ holds'[obj[t]] = holds[obj[t]]
                /\ holds'[obj[t]] \in live']_vars
  <2> SUFFICES ASSUME NEW t \in Threads, pc[t] = "using", pc'[t] = "using"
               PROVE  holds'[obj[t]] = holds[obj[t]] /\ holds'[obj[t]] \in live'
    OBVIOUS
  <2>1. holds'[obj[t]] = holds[obj[t]] /\ holds[obj[t]] # None
    BY <1>1, BorrowedStays DEF IInv, Bookkeeping, Guarded
  <2>2. obj[t] \in Places
    BY <1>1, InsideCall
  <2> QED
    BY <1>1, <2>1, <2>2 DEF IInv, SoleOwner
<1> QED
  BY <1>1, Inductive, PTL DEF LoadSpec, BorrowedStaysOpen

-----------------------------------------------------------------------------
(* One execution per REPL.  The mutex plays no part in it: what counts is  *)
(* that a handle can be taken only where it is, and that taking it marks   *)
(* the Repl.  LoadReplSnapshot breaks it, so that it is a theorem of Spec. *)

Single(r) == /\ \A x, y \in Carriers(r) : x = y
             /\ Carriers(r) # {} => inFlight[r] /\ holds[r] = None

\* A Repl that does not exist is not out on an execution.
LEMMA NoCarriers ==
  ASSUME IInv, NEW r \in Repls, r \notin made
  PROVE  Carriers(r) = {}
<1>1. ASSUME NEW t \in Threads, pc[t] \in Executing PROVE Own(t) # r
  <2>1. pc[t] # "idle"
    BY <1>1 DEF Executing
  <2> QED
    BY <2>1, InsideCall, ConstantsAssumption DEF Objs, Places
<1>2. \A p \in Progs : owner[p] # r
  BY ConstantsAssumption DEF IInv, Bookkeeping, OwnersMade, Objs, Places
<1> QED
  BY <1>1, <1>2 DEF Carriers

\* Fewer carriers, and either none at all or a Repl as it was.
LEMMA FewerCarriers ==
  ASSUME NEW r \in Repls, Single(r), Carriers(r)' \subseteq Carriers(r),
         Carriers(r)' = {} \/ (inFlight'[r] = inFlight[r] /\ holds'[r] = holds[r])
  PROVE  Single(r)'
BY DEF Single

\* A goroutine that does not begin to execute carries what it carried before.
LEMMA GoroutineCarried ==
  ASSUME IInv, [Next]_vars, NEW r \in Repls, NEW u \in Threads, u \in Carriers(r)',
         pc'[u] \in Executing => pc[u] \in Executing /\ obj'[u] = obj[u]
  PROVE  u \in Carriers(r)
<1>1. pc'[u] \in Executing /\ Own(u)' = r
  BY ConstantsAssumption DEF Carriers, Objs
<1>2. Own(u)' = Own(u)
  BY <1>1, CallStays DEF Executing, LoadNext
<1> QED
  BY <1>1, <1>2 DEF Carriers

\* Likewise a Snapshot that is not touched.
LEMMA SnapshotCarried ==
  ASSUME NEW r \in Repls, NEW p \in Progs, p \in Carriers(r)', p \in made,
         owner'[p] = owner[p], holds'[p] = holds[p]
  PROVE  p \in Carriers(r)
BY ConstantsAssumption DEF Carriers, Objs

LEMMA SingleStep ==
  ASSUME IInv, [Next]_vars, NEW r \in Repls, Single(r)
  PROVE  Single(r)'
<1> USE DEF IInv, TypeOK
<1>0. /\ r \in Places /\ r \notin Threads /\ r # None
      /\ \A p \in Progs : p \in Places /\ p # r /\ p \notin Threads
      /\ \A t \in Threads : t \in Places /\ t \notin Progs /\ t \notin Repls
  BY ConstantsAssumption DEF Objs, Places
\* No new carrier: the goroutines do not begin to execute, and each Snapshot
\* of r that has a handle had it before.
<1>1. ASSUME \A u \in Threads :
               pc'[u] \in Executing => pc[u] \in Executing /\ obj'[u] = obj[u],
             \A p \in Progs \cap made' :
               owner'[p] = r /\ holds'[p] # None => p \in made /\ owner[p] = r /\ holds[p] # None
      PROVE  Carriers(r)' \subseteq Carriers(r)
  <2>1. \A u \in Threads : u \in Carriers(r)' => u \in Carriers(r)
    BY <1>1, GoroutineCarried
  <2>2. \A p \in Progs : p \in Carriers(r)' => p \in Carriers(r)
    BY <1>0, <1>1 DEF Carriers
  <2>3. Carriers(r)' \subseteq Threads \cup Progs
    BY DEF Carriers
  <2> QED
    BY <2>1, <2>2, <2>3
<1>2. ASSUME UNCHANGED <<pc, obj, inFlight>>,
             NEW p \in Progs, owner' = [owner EXCEPT ![p] = None],
             made' \subseteq made \cup {p},
             \A x \in Places : x # p => holds'[x] = holds[x]
      PROVE  Single(r)'
  <2>1. Carriers(r)' \subseteq Carriers(r)
    BY <1>0, <1>1, <1>2
  <2> QED
    BY <1>0, <1>2, <2>1, FewerCarriers
<1>3. ASSUME NEW p \in Progs, LoadSnapshot(p) \/ DropSnapshot(p) PROVE Single(r)'
  BY <1>2, <1>3 DEF LoadSnapshot, DropSnapshot, Allocate, Free, locals
<1>4. ASSUME NEW o \in Repls \cup Runners, Construct(o) PROVE Single(r)'
  <2>1. o \notin Progs /\ o \in Places
    BY ConstantsAssumption DEF Objs, Places
  <2>2. Carriers(r)' \subseteq Carriers(r)
    BY <1>0, <1>1, <1>4, <2>1 DEF Construct, Allocate, locals
  <2>3. CASE o = r
    BY <1>4, <2>2, <2>3, NoCarriers, FewerCarriers DEF Construct
  <2>4. CASE o # r
    BY <1>0, <1>4, <2>1, <2>2, <2>4, FewerCarriers DEF Construct, Allocate
  <2> QED
    BY <2>3, <2>4
<1>5. ASSUME NEW t \in Threads, UNCHANGED <<made, owner, inFlight>>,
             \A x \in Places : x # t => holds'[x] = holds[x],
             \A u \in Threads :
               pc'[u] \in Executing => pc[u] \in Executing /\ obj'[u] = obj[u]
      PROVE  Single(r)'
  <2>1. Carriers(r)' \subseteq Carriers(r)
    BY <1>0, <1>1, <1>5
  <2> QED
    BY <1>0, <1>5, <2>1, FewerCarriers
<1>6. ASSUME NEW t \in Threads, NEW o \in Objs,
             NEW m \in {"dump", "start", "feed", "resume", "abandon"},
             Canceled(t, o) \/ Call(t, m, o) \/ Busy(t, m, o)
      PROVE  Single(r)'
  BY <1>5, <1>6 DEF Canceled, Call, Busy, Goto, Executing
<1>7. ASSUME NEW t \in Threads, Quiet(t) PROVE Single(r)'
  <2>1. \A u \in Threads :
          pc'[u] \in Executing => pc[u] \in Executing /\ obj'[u] = obj[u]
    BY <1>7 DEF Quiet, Borrow, BorrowNil, ReadInFlight, EndDump, TakeNil, MarshalFails, Execute,
       PutLock, Goto, Return, Continue, Executing
  <2>2. UNCHANGED <<made, owner, inFlight, holds>>
    BY <1>7 DEF Quiet, Borrow, BorrowNil, ReadInFlight, EndDump, TakeNil, MarshalFails, Execute,
       PutLock
  <2> QED
    BY <2>1, <2>2, <1>5
<1>8. ASSUME NEW t \in Threads,
             \/ OptionsFail(t) \/ ExecuteFails(t) \/ Recover(t) \/ CallbackPanics(t)
             \/ ProgressInvalid(t) \/ Consume(t) \/ CloseOld(t)
      PROVE  Single(r)'
  <2>1. \A u \in Threads :
          pc'[u] \in Executing => pc[u] \in Executing /\ obj'[u] = obj[u]
    BY <1>8 DEF OptionsFail, ExecuteFails, Recover, CallbackPanics, ProgressInvalid, Consume,
       CloseOld, Settle, Goto, Return, Continue, Executing
  <2>2. UNCHANGED <<made, owner, inFlight>> /\ (Free(t) \/ UNCHANGED holds)
    BY <1>8 DEF OptionsFail, ExecuteFails, Recover, CallbackPanics, ProgressInvalid, Consume, CloseOld
  <2> QED
    BY <2>1, <2>2, <1>5 DEF Free
<1>9. ASSUME NEW t \in Threads, EndStart(t) PROVE Single(r)'
  <2>1. \A u \in Threads :
          pc'[u] \in Executing => pc[u] \in Executing /\ obj'[u] = obj[u]
    BY <1>9 DEF EndStart, Goto, Return, Executing
  <2>2. CASE UNCHANGED <<made, holds, owner>>
    BY <1>5, <1>9, <2>1, <2>2 DEF EndStart
  <2>3. ASSUME NEW p \in Progs, NEW s \in Natives, Allocate(p, s), made' = made \cup {p},
               owner' = [owner EXCEPT ![p] = None], UNCHANGED inFlight
        PROVE  Single(r)'
    <3>1. Carriers(r)' \subseteq Carriers(r)
      BY <1>0, <1>1, <2>1, <2>3 DEF Allocate
    <3> QED
      BY <1>0, <2>3, <3>1, FewerCarriers DEF Allocate
  <2> QED
    BY <1>9, <2>2, <2>3 DEF EndStart
<1>10. ASSUME NEW t \in Threads, Take(t) PROVE Single(r)'
  <2>1. obj[t] \in made /\ obj[t] \in Places /\ obj[t] # t /\ op[t] \in Methods(obj[t]) /\ t \in Places
    BY <1>10, InsideCall DEF Take, Taking, Bookkeeping, Called
  <2>2. \A x \in Places : holds'[x] = IF x = t THEN holds[obj[t]]
                                      ELSE IF x = obj[t] THEN None ELSE holds[x]
    BY <1>10, <2>1 DEF Take, Move
  <2>3. UNCHANGED <<made, owner, obj>> /\ \A u \in Threads : u # t => pc'[u] = pc[u]
    BY <1>10 DEF Take, Goto
  <2>4. \A u \in Threads : u # t /\ u \in Carriers(r)' => u \in Carriers(r)
    BY <2>3, GoroutineCarried
  <2>5. \A p \in Progs : p \in Carriers(r)' => p \in Carriers(r) /\ p # obj[t]
    BY <1>0, <2>2, <2>3 DEF Carriers
  <2>6. t \in Carriers(r)' => Own(t) = r
    BY <1>0, <2>3 DEF Carriers, Own, OwnerOf
  <2>7. Carriers(r)' \subseteq Threads \cup Progs
    BY DEF Carriers
  <2>8. CASE Own(t) # r
    <3>1. Carriers(r)' \subseteq Carriers(r) /\ obj[t] # r
      BY <2>4, <2>5, <2>6, <2>7, <2>8 DEF Own, OwnerOf
    <3> QED
      BY <1>0, <1>10, <2>2, <3>1, FewerCarriers DEF Take, MarkInFlight
  <2>9. CASE Own(t) = r /\ obj[t] = r
    <3>1. Carriers(r) = {}
      BY <1>10, <2>9 DEF Take, Single
    <3>2. Carriers(r)' \subseteq {t}
      BY <2>4, <2>5, <2>7, <3>1
    <3>3. inFlight'[r] /\ holds'[r] = None
      BY <1>0, <1>10, <2>2, <2>9 DEF Take, MarkInFlight
    <3> QED
      BY <3>2, <3>3 DEF Single
  <2>10. CASE Own(t) = r /\ obj[t] # r
    <3>1. obj[t] \in Progs /\ owner[obj[t]] = r
      BY <1>0, <2>10 DEF Own, OwnerOf
    <3>2. obj[t] \in Carriers(r)
      BY <1>10, <2>1, <3>1 DEF Carriers, Take
    <3>3. Carriers(r) = {obj[t]} /\ inFlight[r] /\ holds[r] = None
      BY <3>2 DEF Single
    <3>4. Carriers(r)' \subseteq {t}
      BY <1>0, <2>4, <2>5, <2>7, <3>1, <3>3
    <3>5. inFlight'[r] /\ holds'[r] = None
      BY <1>0, <1>10, <2>2, <2>10, <3>3 DEF Take, MarkInFlight
    <3> QED
      BY <3>4, <3>5 DEF Single
  <2> QED
    BY <2>8, <2>9, <2>10
<1>11. ASSUME NEW t \in Threads, NEW p \in Progs, Publish(t, p) PROVE Single(r)'
  <2>1. \A x \in Places : x # t /\ x # p => holds'[x] = holds[x]
    BY <1>11 DEF Publish, Move
  <2>2. /\ made' = made \cup {p} /\ owner' = [owner EXCEPT ![p] = Own(t)] /\ UNCHANGED inFlight
        /\ pc'[t] = "idle" /\ \A u \in Threads : u # t => pc'[u] = pc[u] /\ obj'[u] = obj[u]
    BY <1>11 DEF Publish, Return, Goto
  <2>3. \A u \in Threads : u \in Carriers(r)' => u \in Carriers(r) /\ u # t
    BY <1>0, <2>2, GoroutineCarried DEF Carriers, Executing
  <2>4. \A q \in Progs : q \in Carriers(r)' /\ q # p => q \in Carriers(r)
    BY <1>0, <2>1, <2>2, SnapshotCarried DEF Carriers
  <2>5. p \in Carriers(r)' => Own(t) = r
    BY <1>0, <2>2 DEF Carriers
  <2>6. Carriers(r)' \subseteq Threads \cup Progs
    BY DEF Carriers
  <2>7. CASE Own(t) # r
    <3>1. Carriers(r)' \subseteq Carriers(r)
      BY <2>3, <2>4, <2>5, <2>6, <2>7
    <3> QED
      BY <1>0, <2>1, <2>2, <3>1, FewerCarriers
  <2>8. CASE Own(t) = r
    <3>1. Carriers(r) = {t} /\ inFlight[r] /\ holds[r] = None
      BY <1>11, <2>8 DEF Publish, Carriers, Executing, Single
    <3>2. Carriers(r)' \subseteq {p}
      BY <1>0, <2>3, <2>4, <2>6, <3>1
    <3>3. inFlight'[r] /\ holds'[r] = None
      BY <1>0, <2>1, <2>2, <3>1
    <3> QED
      BY <3>2, <3>3 DEF Single
  <2> QED
    BY <2>7, <2>8
<1>12. ASSUME NEW t \in Threads, Swap(t) PROVE Single(r)'
  <2>1. Own(t) \in Repls /\ Own(t) \in Places /\ \A p \in Progs : p # Own(t)
    BY <1>12, ConstantsAssumption DEF Swap, Bookkeeping, Owned, Objs, Places
  <2>2. /\ UNCHANGED <<made, owner>> /\ pc'[t] \notin Executing
        /\ \A u \in Threads : u # t => pc'[u] = pc[u] /\ obj'[u] = obj[u]
    BY <1>12 DEF Swap, Return, Continue, Goto, Executing
  <2>3. \A x \in Places : x # t /\ x # Own(t) => holds'[x] = holds[x]
    BY <1>12 DEF Swap
  <2>4. Carriers(r)' \subseteq Carriers(r)
    BY <1>0, <1>1, <2>1, <2>2, <2>3
  <2>5. CASE Own(t) # r
    BY <1>0, <1>12, <2>1, <2>3, <2>4, <2>5, FewerCarriers DEF Swap
  <2>6. CASE Own(t) = r
    <3>1. Carriers(r) = {t}
      BY <1>12, <2>6 DEF Swap, Carriers, Executing, Single
    <3>2. t \notin Carriers(r)'
      BY <1>0, <2>2 DEF Carriers
    <3> QED
      BY <2>4, <3>1, <3>2, FewerCarriers
  <2> QED
    BY <2>5, <2>6
<1>13. CASE UNCHANGED vars
  <2>1. Carriers(r)' = Carriers(r)
    BY <1>13 DEF vars, Carriers, Own, OwnerOf
  <2> QED
    BY <1>13, <2>1, FewerCarriers DEF vars
<1> QED
  BY <1>3, <1>4, <1>6, <1>7, <1>8, <1>9, <1>10, <1>11, <1>12, <1>13
  DEF Next, Caller, Step, Quiet

LEMMA OneExecutionStep == IInv /\ OneExecution /\ [Next]_vars => OneExecution'
<1> SUFFICES ASSUME IInv, OneExecution, [Next]_vars, NEW r \in Repls PROVE Single(r)'
  BY DEF OneExecution, Single
<1> QED
  BY SingleStep DEF OneExecution, Single

\* At most one execution of a REPL is outstanding, and while there is one the
\* Repl is marked in flight and has no interpreter to lend.
THEOREM SingleExecution == Spec => []OneExecution
<1>1. Init => OneExecution
  BY ConstantsAssumption DEF Init, OneExecution, Carriers, Executing
<1>2. [Next]_vars => [LoadNext]_vars
  BY DEF LoadNext
<1> QED
  BY <1>1, <1>2, OneExecutionStep, Inductive, SpecIsLoadSpec, PTL DEF Spec
=============================================================================
