---------------------------- MODULE ContractProofs ----------------------------
(***************************************************************************)
(* Proofs about what Handles means for the caller of a Repl: ErrClosed     *)
(* from a feed is the truth, a REPL outlives everything but the rare       *)
(* failures, and the handle protocol implements ReplContract.              *)
(***************************************************************************)
EXTENDS HandlesProofs

\* A goroutine that is still inside a method has not decided on ErrClosed, and
\* only Dump reads inFlight without the mutex.
Undecided == \A t \in Threads :
  /\ pc[t] # "idle" => res[t] # "closed"
  /\ pc[t] = "reading" => op[t] # "feed"

\* Until Rust has lost it, a goroutine that executes has the interpreter; and
\* without a rare failure Rust does not lose it.
InHand == \A t \in Threads :
  /\ pc[t] \in {"exec", "recover"} => holds[t] # None
  /\ pc[t] = "consume" /\ res[t] \notin {"lost", "rejected"} => holds[t] # None
  /\ Faults = {} /\ pc[t] \in Executing => holds[t] # None

-----------------------------------------------------------------------------
\* A step of one goroutine leaves what another one has and will answer.
LEMMA OthersKeep ==
  ASSUME IInv, NEW t \in Threads,
         \/ Step(t) \/ PutLock(t)
         \/ \E o \in Objs, m \in {"dump", "start", "feed", "resume", "abandon"} :
              Canceled(t, o) \/ Call(t, m, o) \/ Busy(t, m, o),
         NEW u \in Threads, u # t
  PROVE  res'[u] = res[u] /\ holds'[u] = holds[u]
<1> USE DEF IInv, TypeOK, Goto, Return, Continue, Settle, Move, Free, Allocate
<1>0. u \in Places /\ u \notin Objs
  BY ConstantsAssumption DEF Places
<1>1. CASE Quiet(t) \/ EndStart(t) \/ OptionsFail(t) \/ ExecuteFails(t) \/ Recover(t)
  BY <1>0, <1>1 DEF Quiet, Borrow, BorrowNil, ReadInFlight, EndDump, TakeNil, MarshalFails, Execute,
     PutLock, EndStart, OptionsFail, ExecuteFails, Recover, Objs
<1>2. CASE CallbackPanics(t) \/ ProgressInvalid(t) \/ Consume(t) \/ CloseOld(t)
           \/ \E p \in Progs : Publish(t, p)
  BY <1>0, <1>2 DEF CallbackPanics, ProgressInvalid, Consume, CloseOld, Publish, Objs
<1>3. CASE Take(t)
  <2>1. obj[t] \in Objs
    BY <1>3, InsideCall DEF Take, Taking
  <2> QED
    BY <1>0, <1>3, <2>1 DEF Take
<1>4. CASE Swap(t)
  <2>1. Own(t) \in Objs
    BY <1>4 DEF Swap, Bookkeeping, Owned, Objs
  <2> QED
    BY <1>0, <1>4, <2>1 DEF Swap
<1>5. CASE \E o \in Objs, m \in {"dump", "start", "feed", "resume", "abandon"} :
             Canceled(t, o) \/ Call(t, m, o) \/ Busy(t, m, o)
  BY <1>5 DEF Canceled, Call, Busy
<1> QED
  BY <1>1, <1>2, <1>3, <1>4, <1>5 DEF Step, Quiet

\* Objects come and go without the goroutines.
LEMMA AllKeep ==
  ASSUME IInv,
         \/ \E o \in Repls \cup Runners : Construct(o)
         \/ \E p \in Progs : LoadSnapshot(p) \/ DropSnapshot(p)
         \/ \E p \in Progs, r \in Repls : LoadReplSnapshot(p, r)
         \/ UNCHANGED vars,
         NEW u \in Threads
  PROVE  res'[u] = res[u] /\ holds'[u] = holds[u]
<1>0. u \in Places /\ u \notin Objs
  BY ConstantsAssumption DEF Places
<1> QED
  BY <1>0 DEF IInv, TypeOK, Construct, LoadSnapshot, DropSnapshot, LoadReplSnapshot, Allocate, Free,
     locals, vars, Objs

LEMMA UndecidedStep == IInv /\ Undecided /\ [LoadNext]_vars => Undecided'
<1> SUFFICES ASSUME IInv, Undecided, [LoadNext]_vars, NEW u \in Threads
             PROVE  /\ pc'[u] # "idle" => res'[u] # "closed"
                    /\ pc'[u] = "reading" => op'[u] # "feed"
  BY DEF Undecided
<1>0. /\ pc[u] # "idle" => res[u] # "closed"
      /\ pc[u] = "reading" => op[u] # "feed"
  BY DEF Undecided
<1> USE DEF IInv, TypeOK, Goto, Return, Continue, Settle
<1>1. ASSUME NEW t \in Threads, u # t, Step(t) \/ PutLock(t) \/
             \E o \in Objs, m \in {"dump", "start", "feed", "resume", "abandon"} :
                Canceled(t, o) \/ Call(t, m, o) \/ Busy(t, m, o)
      PROVE  pc'[u] = pc[u] /\ op'[u] = op[u] /\ res'[u] = res[u]
  BY <1>1, OthersStay, OthersKeep
<1>2. CASE Quiet(u) \/ EndStart(u) \/ Take(u) \/ OptionsFail(u)
  BY <1>0, <1>2 DEF Quiet, Borrow, Borrowing, BorrowNil, ReadInFlight, EndDump, TakeNil, MarshalFails,
     Execute, PutLock, EndStart, Take, Taking, OptionsFail
<1>3. CASE ExecuteFails(u) \/ Recover(u) \/ CallbackPanics(u) \/ ProgressInvalid(u) \/ Consume(u)
           \/ CloseOld(u) \/ Swap(u) \/ \E p \in Progs : Publish(u, p)
  BY <1>0, <1>3 DEF ExecuteFails, Recover, CallbackPanics, ProgressInvalid, Consume, CloseOld, Swap,
     Publish
<1>4. ASSUME NEW o \in Objs, NEW m \in {"dump", "start", "feed", "resume", "abandon"},
             Canceled(u, o) \/ Call(u, m, o) \/ Busy(u, m, o)
      PROVE  /\ pc'[u] # "idle" => res'[u] # "closed"
             /\ pc'[u] = "reading" => op'[u] # "feed"
  BY <1>0, <1>4 DEF Canceled, Call, Busy
<1> QED
  BY <1>0, <1>1, <1>2, <1>3, <1>4, AllStay, AllKeep DEF LoadNext, Next, Caller, Step, Quiet

\* What a method answers with ErrClosed, it has found closed in this very step.
LEMMA ClosedNow ==
  ASSUME IInv, Undecided, [LoadNext]_vars, NEW u \in Threads,
         Returning(u), op[u] = "feed", res'[u] = "closed"
  PROVE  Lost(obj[u])
<1>0. pc[u] # "idle" /\ pc'[u] = "idle" /\ res[u] # "closed" /\ pc[u] # "reading"
  BY DEF Returning, Undecided
<1> USE DEF IInv, TypeOK, Goto, Return, Continue, Settle
<1>1. CASE TakeNil(u)
  BY <1>1, <1>0, FeedOwns DEF TakeNil, NilAnswer, Lost
<1>2. CASE Quiet(u) /\ ~TakeNil(u)
  BY <1>0, <1>2 DEF Quiet, Borrow, Borrowing, BorrowNil, ReadInFlight, EndDump, MarshalFails,
     Execute, PutLock
<1>3. CASE EndStart(u) \/ Take(u) \/ OptionsFail(u)
  BY <1>0, <1>3 DEF EndStart, Take, Taking, OptionsFail
<1>4. CASE ExecuteFails(u) \/ Recover(u) \/ CallbackPanics(u) \/ ProgressInvalid(u) \/ Consume(u)
           \/ CloseOld(u) \/ Swap(u) \/ \E p \in Progs : Publish(u, p)
  BY <1>0, <1>4 DEF ExecuteFails, Recover, CallbackPanics, ProgressInvalid, Consume, CloseOld, Swap,
     Publish
<1>5. ASSUME NEW o \in Objs, NEW m \in {"dump", "start", "feed", "resume", "abandon"},
             Canceled(u, o) \/ Call(u, m, o) \/ Busy(u, m, o)
      PROVE  FALSE
  BY <1>0, <1>5 DEF Canceled, Call, Busy
<1> QED
  BY <1>0, <1>1, <1>2, <1>3, <1>4, <1>5, AllStay, OthersStay DEF LoadNext, Next, Caller, Step, Quiet

LEMMA UndecidedInit == Init => Undecided
BY DEF Init, Undecided

\* A Repl that says it is not in flight has nobody who could bring its session
\* back: that is what OneExecution adds to what the feed has seen.
LEMMA LostIsGone ==
  ASSUME OneExecution, NEW r \in Repls, Lost(r)
  PROVE  Gone(r)
BY DEF OneExecution, Lost, Gone

LEMMA ClosedIsGone ==
  ASSUME IInv, OneExecution, Undecided, [LoadNext]_vars, NEW u \in Threads,
         Returning(u), op[u] = "feed", res'[u] = "closed"
  PROVE  Gone(obj[u])
<1>1. obj[u] \in Repls
  BY FeedOwns DEF Returning
<1> QED
  BY <1>1, ClosedNow, LostIsGone

\* A feed that answers ErrClosed tells the truth: the REPL has no interpreter,
\* nobody executes it, and no paused Snapshot could bring it back. Rare failures
\* make no difference.
THEOREM FeedsTellTheTruth == Spec => FeedClosedIsTruthful
<1>1. IInv /\ OneExecution /\ Undecided /\ [LoadNext]_vars =>
        [\A t \in Threads :
           Returning(t) /\ op[t] = "feed" /\ res'[t] = "closed" => Gone(obj[t])]_vars
  BY ClosedIsGone
<1>2. Spec => [][LoadNext]_vars /\ []IInv /\ []OneExecution
  BY Inductive, SpecIsLoadSpec, SingleExecution, PTL DEF LoadSpec
<1>3. Spec => []Undecided
  BY <1>2, UndecidedInit, UndecidedStep, PTL DEF Spec
<1> QED
  BY <1>1, <1>2, <1>3, PTL DEF FeedClosedIsTruthful

-----------------------------------------------------------------------------
(* What a step leaves alone: the place, the interpreter and the execution  *)
(* of every Repl but the one its goroutine works for.                      *)

Untouched(q) == /\ Carriers(q)' = Carriers(q)
                /\ holds'[q] = holds[q]
                /\ q \in made' <=> q \in made
                /\ \A x \in Carriers(q) : holds'[x] = holds[x]

LEMMA UntouchedParts ==
  ASSUME NEW q \in Repls,
         \A u \in Threads : (pc'[u] \in Executing /\ Own(u)' = q) <=> (pc[u] \in Executing /\ Own(u) = q),
         \A u \in Threads : pc[u] \in Executing /\ Own(u) = q => holds'[u] = holds[u],
         \A p \in Progs : (p \in made' /\ owner'[p] = q /\ holds'[p] # None)
                           <=> (p \in made /\ owner[p] = q /\ holds[p] # None),
         \A p \in Progs : p \in made /\ owner[p] = q /\ holds[p] # None => holds'[p] = holds[p],
         holds'[q] = holds[q], q \in made' <=> q \in made
  PROVE  Untouched(q)
BY DEF Untouched, Carriers

\* A step of a goroutine touches no Repl but its own.
LEMMA StepTouchesOwn ==
  ASSUME IInv, NEW t \in Threads, pc[t] # "idle", Step(t) \/ PutLock(t),
         NEW q \in Repls, Own(t) # q
  PROVE  Untouched(q)
<1> USE DEF IInv, TypeOK
<1>0. /\ q \in Places /\ q \notin Threads /\ q # None /\ q \notin Progs /\ t \in Places
      /\ \A p \in Progs : p \in Places /\ p # q /\ p \notin Threads
  BY ConstantsAssumption DEF Objs, Places
<1>1. [LoadNext]_vars
  BY DEF LoadNext, Next
<1>2. obj[t] \in Places /\ obj[t] # t /\ obj[t] # q /\ (obj[t] \in Progs => owner[obj[t]] # q)
  <2>1. obj[t] \in Places /\ obj[t] # t
    BY InsideCall
  <2> QED
    BY <2>1, ConstantsAssumption DEF Own, OwnerOf
<1>3. ASSUME NEW u \in Threads
      PROVE  (pc'[u] \in Executing /\ Own(u)' = q) <=> (pc[u] \in Executing /\ Own(u) = q)
  <2>1. CASE u = t
    <3>1. pc'[t] \in Executing => Own(t)' = Own(t)
      BY <1>1, CallStays, StepLeavesCalled DEF Executing
    <3> QED
      BY <2>1, <3>1
  <2>2. CASE u # t
    <3>1. pc'[u] = pc[u] /\ obj'[u] = obj[u]
      BY <2>2, OthersStay
    <3>2. pc[u] \in Executing => Own(u)' = Own(u)
      BY <1>1, <3>1, CallStays DEF Executing
    <3> QED
      BY <3>1, <3>2
  <2> QED
    BY <2>1, <2>2
<1>4. ASSUME NEW u \in Threads, Own(u) = q PROVE holds'[u] = holds[u]
  BY <1>4, OthersKeep
\* The Snapshots: those that change were not, and are not, of this Repl.
<1> DEFINE Same ==
             /\ holds'[q] = holds[q] /\ (q \in made' <=> q \in made)
             /\ \A p \in Progs : (p \in made' /\ owner'[p] = q /\ holds'[p] # None)
                                  <=> (p \in made /\ owner[p] = q /\ holds[p] # None)
             /\ \A p \in Progs : p \in made /\ owner[p] = q /\ holds[p] # None
                                  => holds'[p] = holds[p]
<1>5. Same
  <2> USE <1>0
  <2>1. CASE UNCHANGED <<made, owner>> /\ (UNCHANGED holds \/ Free(t))
    BY <2>1 DEF Free
  <2>2. CASE Take(t)
    BY <1>2, <2>2 DEF Take, Move
  <2>3. CASE Swap(t)
    <3>1. Own(t) \in Places /\ Own(t) \notin Progs
      BY <2>3, ConstantsAssumption DEF Swap, Bookkeeping, Owned, Objs, Places
    <3> QED
      BY <2>3, <3>1 DEF Swap
  <2>4. ASSUME NEW p \in Progs, holds[p] = None, owner' = [owner EXCEPT ![p] = None] \/
                                                 owner' = [owner EXCEPT ![p] = Own(t)],
               made' = made \cup {p}, \A x \in Places : x # p /\ x # t => holds'[x] = holds[x]
        PROVE  Same
    BY <2>4
  <2>5. CASE EndStart(t)
    BY <2>1, <2>4, <2>5 DEF EndStart, Fresh, Allocate
  <2>6. ASSUME NEW p \in Progs, Publish(t, p) PROVE Same
    BY <2>4, <2>6 DEF Publish, Fresh, Move
  <2> QED
    BY <2>1, <2>2, <2>3, <2>5, <2>6
    DEF Step, PutLock, Borrow, BorrowNil, ReadInFlight, EndDump, TakeNil, MarshalFails, Execute,
        OptionsFail, ExecuteFails, Recover, CallbackPanics, ProgressInvalid, Consume, CloseOld
<1> QED
  BY <1>3, <1>4, <1>5, UntouchedParts

\* A goroutine that is not about an execution touches none either.
LEMMA IdleTouchesNone ==
  ASSUME IInv, NEW t \in Threads, Step(t) \/ PutLock(t), pc[t] # "idle",
         pc[t] \notin Executing, pc'[t] \notin Executing, UNCHANGED <<made, owner>>,
         \A x \in Places : x # t => holds'[x] = holds[x],
         NEW q \in Repls
  PROVE  Untouched(q)
<1>0. /\ q \in Places /\ q \notin Threads
      /\ \A p \in Progs : p \in Places /\ p \notin Threads
      /\ \A u \in Threads : u \in Places
  BY ConstantsAssumption DEF Objs, Places
<1>1. ASSUME NEW u \in Threads
      PROVE  (pc'[u] \in Executing /\ Own(u)' = q) <=> (pc[u] \in Executing /\ Own(u) = q)
  <2>1. CASE u = t
    BY <2>1
  <2>2. CASE u # t
    <3>1. pc'[u] = pc[u] /\ obj'[u] = obj[u]
      BY <2>2, OthersStay
    <3>2. [LoadNext]_vars
      BY DEF LoadNext, Next
    <3>3. pc[u] \in Executing => Own(u)' = Own(u)
      BY <3>1, <3>2, CallStays DEF Executing
    <3> QED
      BY <3>1, <3>3
  <2> QED
    BY <2>1, <2>2
<1>2. ASSUME NEW u \in Threads, pc[u] \in Executing PROVE holds'[u] = holds[u]
  BY <1>0, <1>2
<1> QED
  BY <1>0, <1>1, <1>2, UntouchedParts

\* Nor do the calls that begin, or are refused at once.
LEMMA BeginTouchesNone ==
  ASSUME IInv, NEW t \in Threads, NEW o \in Objs,
         NEW m \in {"dump", "start", "feed", "resume", "abandon"},
         Canceled(t, o) \/ Call(t, m, o) \/ Busy(t, m, o), NEW q \in Repls
  PROVE  Untouched(q)
<1>0. UNCHANGED <<made, owner, holds>>
  BY DEF Canceled, Call, Busy
<1>1. ASSUME NEW u \in Threads
      PROVE  (pc'[u] \in Executing /\ Own(u)' = q) <=> (pc[u] \in Executing /\ Own(u) = q)
  BY <1>0 DEF Canceled, Call, Busy, Executing, Goto, Own, OwnerOf, IInv, TypeOK
<1> QED
  BY <1>0, <1>1, UntouchedParts

\* An object that comes or goes touches no Repl but itself and its owner.
LEMMA ObjectTouchesOwn ==
  ASSUME IInv, NEW q \in Repls,
         \/ \E o \in Repls \cup Runners : o # q /\ Construct(o)
         \/ \E p \in Progs : LoadSnapshot(p) \/ (DropSnapshot(p) /\ owner[p] # q)
         \/ \E p \in Progs, r \in Repls : r # q /\ LoadReplSnapshot(p, r)
         \/ UNCHANGED vars
  PROVE  Untouched(q)
<1> USE DEF IInv, TypeOK, Allocate, Free
<1>0. /\ q \in Places /\ q \notin Threads /\ q # None
      /\ \A p \in Progs : p \in Places /\ p # q /\ p \notin Threads /\ p \notin Repls
      /\ \A r \in Repls \cup Runners : r \in Places /\ r \notin Progs
  BY ConstantsAssumption DEF Objs, Places
<1>1. ASSUME NEW u \in Threads
      PROVE  (pc'[u] \in Executing /\ Own(u)' = q) <=> (pc[u] \in Executing /\ Own(u) = q)
  <2>1. pc'[u] = pc[u] /\ obj'[u] = obj[u] /\ [LoadNext]_vars
    BY AllStay DEF LoadNext, Next, Caller
  <2> QED
    BY <2>1, CallStays DEF Executing
<1>2. \A u \in Threads : holds'[u] = holds[u]
  BY AllKeep
<1> DEFINE Same ==
             /\ holds'[q] = holds[q] /\ (q \in made' <=> q \in made)
             /\ \A p \in Progs : (p \in made' /\ owner'[p] = q /\ holds'[p] # None)
                                  <=> (p \in made /\ owner[p] = q /\ holds[p] # None)
             /\ \A p \in Progs : p \in made /\ owner[p] = q /\ holds[p] # None
                                  => holds'[p] = holds[p]
<1>3. ASSUME NEW o \in Repls \cup Runners, o # q, Construct(o) PROVE Same
  BY <1>0, <1>3 DEF Construct
<1>4. ASSUME NEW p \in Progs, LoadSnapshot(p) \/ (DropSnapshot(p) /\ owner[p] # q) PROVE Same
  BY <1>0, <1>4 DEF LoadSnapshot, DropSnapshot
<1>5. ASSUME NEW p \in Progs, NEW r \in Repls, r # q, LoadReplSnapshot(p, r) PROVE Same
  <2>1. \A x \in Places : x # p /\ x # r => holds'[x] = holds[x]
    BY <1>5 DEF LoadReplSnapshot
  <2>2. p \notin made /\ made' = made \cup {p, r} /\ owner' = [owner EXCEPT ![p] = r]
    BY <1>5 DEF LoadReplSnapshot
  <2> QED
    BY <1>0, <1>5, <2>1, <2>2
<1>6. ASSUME UNCHANGED vars PROVE Same
  BY <1>6 DEF vars
<1>7. Same
  BY <1>3, <1>4, <1>5, <1>6
<1> QED
  BY <1>1, <1>2, <1>7, UntouchedParts

-----------------------------------------------------------------------------
(* A REPL outlives everything but the rare failures.                       *)

LEMMA InHandInit == Init => InHand
BY DEF Init, InHand, Executing

LEMMA InHandStep == IInv /\ InHand /\ [LoadNext]_vars => InHand'
<1> SUFFICES ASSUME IInv, InHand, [LoadNext]_vars, NEW u \in Threads
             PROVE  /\ pc'[u] \in {"exec", "recover"} => holds'[u] # None
                    /\ pc'[u] = "consume" /\ res'[u] \notin {"lost", "rejected"} => holds'[u] # None
                    /\ Faults = {} /\ pc'[u] \in Executing => holds'[u] # None
  BY DEF InHand
<1> DEFINE Has == /\ pc'[u] \in {"exec", "recover"} => holds'[u] # None
                  /\ pc'[u] = "consume" /\ res'[u] \notin {"lost", "rejected"} => holds'[u] # None
                  /\ Faults = {} /\ pc'[u] \in Executing => holds'[u] # None
<1>0. /\ pc[u] \in {"exec", "recover"} => holds[u] # None
      /\ pc[u] = "consume" /\ res[u] \notin {"lost", "rejected"} => holds[u] # None
      /\ Faults = {} /\ pc[u] \in Executing => holds[u] # None
      /\ u \in Places
  BY DEF InHand, Places
<1> USE DEF IInv, TypeOK, Goto, Return, Continue, Settle
<1>1. ASSUME pc'[u] = pc[u], res'[u] = res[u], holds'[u] = holds[u] PROVE Has
  BY <1>0, <1>1
<1>2. ASSUME NEW t \in Threads, u # t, Step(t) \/ PutLock(t) \/
             \E o \in Objs, m \in {"dump", "start", "feed", "resume", "abandon"} :
                Canceled(t, o) \/ Call(t, m, o) \/ Busy(t, m, o)
      PROVE  Has
  BY <1>1, <1>2, OthersStay, OthersKeep
<1>3. CASE Quiet(u)
  BY <1>0, <1>3 DEF Quiet, Borrow, Borrowing, BorrowNil, ReadInFlight, EndDump, TakeNil, MarshalFails,
     Execute, PutLock, Executing
<1>4. CASE EndStart(u) \/ OptionsFail(u) \/ CallbackPanics(u) \/ CloseOld(u) \/ Swap(u)
           \/ \E p \in Progs : Publish(u, p)
  BY <1>4 DEF EndStart, OptionsFail, CallbackPanics, CloseOld, Swap, Publish, Executing
<1>5. CASE Take(u)
  <2>1. obj[u] \in Places /\ obj[u] # u
    BY <1>5, InsideCall DEF Take, Taking
  <2> QED
    BY <1>0, <1>5, <2>1 DEF Take, Move
<1>6. CASE ExecuteFails(u) \/ ProgressInvalid(u)
  BY <1>6 DEF ExecuteFails, ProgressInvalid
<1>7. CASE Recover(u)
  BY <1>0, <1>7 DEF Recover, Executing
<1>8. CASE Consume(u)
  BY <1>0, <1>8 DEF Consume, Executing
<1>9. ASSUME NEW o \in Objs, NEW m \in {"dump", "start", "feed", "resume", "abandon"},
             Canceled(u, o) \/ Call(u, m, o) \/ Busy(u, m, o)
      PROVE  Has
  BY <1>0, <1>1, <1>9 DEF Canceled, Call, Busy, Executing
<1> QED
  BY <1>1, <1>2, <1>3, <1>4, <1>5, <1>6, <1>7, <1>8, <1>9, AllStay, AllKeep
  DEF LoadNext, Next, Caller, Step, Quiet

\* What a goroutine does for r leaves r its interpreter, or hands it on.
LEMMA OwnStepKeeps ==
  ASSUME IInv, InHand, Faults = {}, NEW t \in Threads, Step(t) \/ PutLock(t), pc[t] # "idle",
         NEW r \in Repls, Own(t) = r, holds[r] # None \/ Carriers(r) # {}
  PROVE  holds'[r] # None \/ Carriers(r)' # {}
<1> USE DEF IInv, TypeOK, Goto, Return, Continue, Settle
<1>0. r \in Places /\ r # t /\ r # None /\ t \in Places /\ r \notin Progs
  BY ConstantsAssumption DEF Objs, Places
<1>1. CASE pc'[t] \in Executing
  <2>1. [LoadNext]_vars
    BY DEF LoadNext, Next
  <2>2. Own(t)' = r
    BY <1>1, <2>1, CallStays, StepLeavesCalled DEF Executing
  <2> QED
    BY <1>1, <2>2 DEF Carriers
<1>2. CASE pc'[t] \notin Executing /\ pc[t] \notin Executing
  <2>1. EndStart(t) => obj[t] \in Runners
    BY ConstantsAssumption DEF EndStart, Bookkeeping, Called, Methods, Objs
  <2>2. ~EndStart(t)
    BY <1>0, <2>1, ConstantsAssumption DEF Own, OwnerOf
  <2>3. UNCHANGED <<made, owner>> /\ \A x \in Places : x # t => holds'[x] = holds[x]
    BY <1>2, <2>2 DEF Step, PutLock, Borrow, Borrowing, BorrowNil, ReadInFlight, EndDump, TakeNil,
       Take, Taking, MarshalFails, Execute, OptionsFail, ExecuteFails, Recover, CallbackPanics, Publish,
       ProgressInvalid, Consume, Swap, CloseOld, Free, Executing
  <2> QED
    BY <1>2, <2>3, IdleTouchesNone DEF Untouched
<1>3. CASE Swap(t)
  <2>1. holds[t] # None
    BY <1>3 DEF Swap, InHand, Executing
  <2> QED
    BY <1>0, <1>3, <2>1 DEF Swap
<1>4. ASSUME NEW p \in Progs, Publish(t, p) PROVE p \in Carriers(r)'
  <2>1. holds[t] # None /\ p \in Places /\ p # t
    BY <1>4, ConstantsAssumption DEF Publish, InHand, Objs, Places
  <2> QED
    BY <1>0, <1>4, <2>1 DEF Publish, Move, Carriers
<1>5. pc'[t] \in Executing \/ pc[t] \notin Executing \/ Swap(t) \/ \E p \in Progs : Publish(t, p)
  BY <1>0 DEF Step, PutLock, Borrow, Borrowing, BorrowNil, ReadInFlight, EndDump, EndStart, TakeNil,
     Take, Taking, MarshalFails, Execute, OptionsFail, ExecuteFails, Recover, CallbackPanics,
     ProgressInvalid, Consume, CloseOld, Executing
<1> QED
  BY <1>1, <1>2, <1>3, <1>4, <1>5

LEMMA SurvivesStep ==
  ASSUME Faults = {}, IInv, InHand, SessionSurvives, [LoadNext]_vars
  PROVE  SessionSurvives'
<1> SUFFICES ASSUME NEW r \in Repls, r \in made'
             PROVE  holds'[r] # None \/ Carriers(r)' # {}
  BY DEF SessionSurvives
<1>1. ASSUME Untouched(r) PROVE holds'[r] # None \/ Carriers(r)' # {}
  BY <1>1 DEF Untouched, SessionSurvives
<1>2. CASE Construct(r) \/ \E p \in Progs : LoadReplSnapshot(p, r)
  BY <1>2, ConstantsAssumption
  DEF Construct, LoadReplSnapshot, Allocate, IInv, TypeOK, Objs, Places
<1>3. ASSUME NEW t \in Threads, Step(t) \/ PutLock(t) PROVE holds'[r] # None \/ Carriers(r)' # {}
  <2>1. pc[t] # "idle"
    BY <1>3 DEF Step, PutLock, Borrow, Borrowing, BorrowNil, ReadInFlight, EndDump, EndStart, TakeNil,
       Take, Taking, MarshalFails, Execute, OptionsFail, ExecuteFails, Recover, CallbackPanics,
       Publish, ProgressInvalid, Consume, Swap, CloseOld
  <2>2. CASE Own(t) # r
    BY <1>1, <1>3, <2>1, <2>2, StepTouchesOwn
  <2>3. CASE Own(t) = r
    <3>1. r \in made
      BY <2>1, <2>3, InsideCall, ConstantsAssumption DEF Objs, Places
    <3>2. holds[r] # None \/ Carriers(r) # {}
      BY <3>1 DEF SessionSurvives
    <3> QED
      BY <1>3, <2>1, <2>3, <3>2, OwnStepKeeps
  <2> QED
    BY <2>2, <2>3
<1>4. \A p \in Progs : ~DropSnapshot(p)
  BY DEF DropSnapshot
<1> QED
  BY <1>1, <1>2, <1>3, <1>4, ObjectTouchesOwn, BeginTouchesNone DEF LoadNext, Next, Caller

\* Python errors, cancelled contexts, concurrent calls, stale Snapshots and
\* loaded sessions never cost a REPL its interpreter: only the rare failures do.
THEOREM SessionsSurvive ==
  ASSUME Faults = {}
  PROVE  LoadSpec => []SessionSurvives
<1>1. Init => SessionSurvives
  BY DEF Init, SessionSurvives
<1>2. IInv /\ InHand /\ SessionSurvives /\ [LoadNext]_vars => SessionSurvives'
  BY SurvivesStep
<1> QED
  BY <1>1, <1>2, InHandInit, InHandStep, Inductive, PTL DEF LoadSpec

-----------------------------------------------------------------------------
(* The handle protocol implements ReplContract: a step changes the status  *)
(* and the session of one Repl at most, in one of the ways the contract    *)
(* has.                                                                    *)

\* What the contract sees of r in each of the three places its session can be.
View(r) ==
  /\ holds[r] # None => status[r] = "ready" /\ session[r] = holds[r]
  /\ \A x \in Carriers(r) : /\ status[r] = IF x \in Progs THEN "paused" ELSE "running"
                            /\ session[r] = holds[x]
  /\ holds[r] = None /\ Carriers(r) = {} =>
        /\ status[r] = IF r \in made THEN "gone" ELSE "absent"
        /\ session[r] = None

LEMMA Views == IInv /\ OneExecution => \A r \in Repls : View(r)
<1> SUFFICES ASSUME IInv, OneExecution, NEW r \in Repls PROVE View(r)
  OBVIOUS
<1>0. r \in Objs /\ Single(r) /\ (r \notin made => holds[r] = None /\ Carriers(r) = {})
  BY NoCarriers DEF OneExecution, Single, IInv, Bookkeeping, Unmade, Objs
<1>1. CASE holds[r] # None
  <2>1. Carriers(r) = {} /\ Place(r) = r /\ r \in made
    BY <1>0, <1>1 DEF Single, Place
  <2> QED
    BY <1>1, <2>1 DEF View, status, session
<1>2. ASSUME NEW x \in Carriers(r) PROVE View(r)
  <2>1. Carriers(r) = {x} /\ holds[r] = None /\ r \in made
    BY <1>0, <1>2 DEF Single
  <2>2. Place(r) = x
    BY <2>1 DEF Place
  <2> QED
    BY <2>1, <2>2 DEF View, status, session
<1>3. CASE holds[r] = None /\ Carriers(r) = {}
  BY <1>3 DEF View, status, session, Place
<1> QED
  BY <1>1, <1>2, <1>3

\* Before and after a step.
Seen == \A r \in Repls : View(r)

\* What is untouched looks the same.
LEMMA UntouchedLooksSame ==
  ASSUME Seen, Seen', NEW q \in Repls, Untouched(q)
  PROVE  status[q]' = status[q] /\ session[q]' = session[q]
<1>1. View(q) /\ View(q)'
  BY DEF Seen
<1>2. CASE holds[q] # None
  BY <1>1, <1>2 DEF View, Untouched
<1>3. ASSUME NEW x \in Carriers(q) PROVE status[q]' = status[q] /\ session[q]' = session[q]
  BY <1>1, <1>3 DEF View, Untouched
<1>4. CASE holds[q] = None /\ Carriers(q) = {}
  BY <1>1, <1>4 DEF View, Untouched
<1> QED
  BY <1>2, <1>3, <1>4

\* One Repl changes, the others do not: what that is in terms of the contract.
LEMMA OneChanges ==
  ASSUME NEW r \in Repls, NEW from, NEW to, NEW s,
         \A q \in Repls : q # r => status[q]' = status[q] /\ session[q]' = session[q],
         status[r] = from, status[r]' = to, session[r]' = s
  PROVE  /\ Contract!Become(r, from, to)
         /\ session' = [session EXCEPT ![r] = s]
         /\ s = session[r] => Contract!Keep
<1>1. status' = [q \in Repls |-> status[q]'] /\ session' = [q \in Repls |-> session[q]']
  BY DEF status, session
<1>2. status = [q \in Repls |-> status[q]] /\ session = [q \in Repls |-> session[q]]
  BY DEF status, session
<1>3. status' = [status EXCEPT ![r] = to]
  BY <1>1, <1>2
<1>4. session' = [session EXCEPT ![r] = s]
  BY <1>1, <1>2
<1>5. s = session[r] => session' = session
  BY <1>1, <1>2
<1> QED
  BY <1>3, <1>4, <1>5 DEF Contract!Become, Contract!Keep

LEMMA NoneChanges ==
  ASSUME \A q \in Repls : status[q]' = status[q] /\ session[q]' = session[q]
  PROVE  UNCHANGED Contract!vars
<1>1. status' = [q \in Repls |-> status[q]'] /\ session' = [q \in Repls |-> session[q]']
  BY DEF status, session
<1>2. status = [q \in Repls |-> status[q]] /\ session = [q \in Repls |-> session[q]]
  BY DEF status, session
<1> QED
  BY <1>1, <1>2 DEF Contract!vars

\* When the goroutine that carries the session of r stops, nobody carries it.
LEMMA CarrierLeaves ==
  ASSUME IInv, NEW r \in Repls, Single(r), NEW t \in Threads, Step(t), t \in Carriers(r),
         pc'[t] \notin Executing, UNCHANGED <<made, owner>>,
         \A p \in Progs : holds'[p] = holds[p]
  PROVE  Carriers(r)' = {}
<1>1. Carriers(r) = {t} /\ [Next]_vars /\ \A p \in Progs : p # t
  BY ConstantsAssumption DEF Single, Next, Objs
<1>2. ASSUME NEW u \in Threads, u \in Carriers(r)' PROVE FALSE
  <2>1. u # t
    BY <1>1, <1>2 DEF Carriers
  <2>2. pc'[u] = pc[u] /\ obj'[u] = obj[u]
    BY <2>1, OthersStay
  <2> QED
    BY <1>1, <1>2, <2>1, <2>2, GoroutineCarried
<1>3. ASSUME NEW p \in Progs, p \in Carriers(r)' PROVE FALSE
  <2>1. p \in made
    BY <1>3, ConstantsAssumption DEF Carriers, Objs
  <2> QED
    BY <1>1, <1>3, <2>1, SnapshotCarried
<1>4. Carriers(r)' \subseteq Threads \cup Progs
  BY DEF Carriers
<1> QED
  BY <1>2, <1>3, <1>4

\* A Repl is made: a session that no other one has.
LEMMA CreateStep ==
  ASSUME IInv, OneExecution, Seen, Seen', NEW r \in Repls, Construct(r)
  PROVE  Contract!Create(r)
<1> USE DEF IInv, TypeOK
<1>0. r \in Places /\ None \notin Natives
  BY ConstantsAssumption DEF Objs, Places
<1>1. PICK s \in Natives : Allocate(r, s)
  BY DEF Construct
<1>2. r \notin made /\ Carriers(r) = {} /\ holds[r] = None
  BY NoCarriers DEF Construct, Bookkeeping, Unmade, Objs
<1>3. status[r] = "absent" /\ holds'[r] = s /\ s # None
  BY <1>0, <1>1, <1>2 DEF Seen, View, Allocate
<1>4. status[r]' = "ready" /\ session[r]' = s
  BY <1>3 DEF Seen, View
<1>5. \A q \in Repls : q # r => status[q]' = status[q] /\ session[q]' = session[q]
  BY ObjectTouchesOwn, UntouchedLooksSame
<1>6. ASSUME NEW q \in Repls PROVE session[q] # s
  <2>1. q \in Places /\ Carriers(q) \subseteq Places
    BY DEF Carriers, Objs, Places
  <2>2. session[q] \in {holds[x] : x \in Places} \cup {None}
    BY <1>6, <2>1 DEF Seen, View
  <2> QED
    BY <1>0, <1>1, <1>3, <2>2 DEF Allocate, SoleOwner
<1>7. Contract!Become(r, "absent", "ready") /\ session' = [session EXCEPT ![r] = s]
  BY <1>3, <1>4, <1>5, OneChanges
<1> QED
  BY <1>6, <1>7 DEF Contract!Create

\* A paused Snapshot is dropped with the session it holds.
LEMMA DropStep ==
  ASSUME IInv, OneExecution, Seen, Seen', NEW p \in Progs, DropSnapshot(p), NEW r \in Repls,
         owner[p] = r
  PROVE  Contract!Vanish(r)
<1> USE DEF IInv, TypeOK
<1>0. /\ r \in Places /\ r # None /\ r # p /\ p \in Places
      /\ \A q \in Progs : q \in Places /\ q \notin Threads
  BY ConstantsAssumption DEF Objs, Places
<1>1. p \in Carriers(r) /\ Single(r)
  BY DEF DropSnapshot, Carriers, OneExecution, Single
<1>2. Carriers(r) = {p} /\ holds[r] = None /\ status[r] = "paused"
  BY <1>1 DEF Single, Seen, View
<1>3. Carriers(r)' = {}
  <2>1. ASSUME NEW u \in Threads, u \in Carriers(r)' PROVE FALSE
    <3>1. [Next]_vars /\ pc'[u] = pc[u] /\ obj'[u] = obj[u]
      BY DEF Next, Caller, DropSnapshot, locals
    <3> QED
      BY <1>0, <1>2, <2>1, <3>1, GoroutineCarried
  <2>2. ASSUME NEW q \in Progs, q \in Carriers(r)' PROVE FALSE
    BY <1>0, <1>2, <2>2 DEF Carriers, DropSnapshot, Free
  <2>3. Carriers(r)' \subseteq Threads \cup Progs
    BY DEF Carriers
  <2> QED
    BY <2>1, <2>2, <2>3
<1>4. holds'[r] = None /\ r \in made'
  <2>1. r \in made
    BY <1>0 DEF Bookkeeping, OwnersMade
  <2> QED
    BY <1>0, <1>2, <2>1 DEF DropSnapshot, Free
<1>5. status[r]' = "gone" /\ session[r]' = None
  BY <1>3, <1>4 DEF Seen, View
<1>6. \A q \in Repls : q # r => status[q]' = status[q] /\ session[q]' = session[q]
  BY ObjectTouchesOwn, UntouchedLooksSame
<1> QED
  BY <1>2, <1>5, <1>6, OneChanges DEF Contract!Vanish, DropSnapshot

\* take: a feed begins, or a paused execution goes on.
LEMMA TakeStep ==
  ASSUME IInv, Seen, Seen', NEW t \in Threads, Take(t), NEW r \in Repls, Own(t) = r
  PROVE  Contract!Feed(r) \/ Contract!Resume(r)
<1> USE DEF IInv, TypeOK
<1>0. /\ pc[t] # "idle" /\ t \notin Progs /\ t \in Places /\ r # None
      /\ obj[t] \in Objs /\ obj[t] \in Places /\ obj[t] # t /\ obj[t] \in made
  BY InsideCall, ConstantsAssumption DEF Take, Taking, Bookkeeping, Called, Objs, Places
<1>1. obj[t] = r \/ (obj[t] \in Progs /\ owner[obj[t]] = r)
  BY <1>0 DEF Own, OwnerOf
<1>2. pc'[t] \in Executing /\ holds'[t] = holds[obj[t]] /\ holds[obj[t]] # None
  BY <1>0 DEF Take, Move, Goto, Executing
<1>3. t \in Carriers(r)'
  <2>1. obj'[t] = obj[t] /\ [LoadNext]_vars
    BY DEF Take, LoadNext, Next, Step
  <2> QED
    BY <1>0, <1>2, <2>1, CallStays DEF Carriers
<1>4. status[r]' = "running" /\ session[r]' = holds[obj[t]]
  BY <1>0, <1>2, <1>3 DEF Seen, View
<1>5. \A q \in Repls : q # r => status[q]' = status[q] /\ session[q]' = session[q]
  BY <1>0, StepTouchesOwn, UntouchedLooksSame DEF Step
<1>6. CASE obj[t] = r
  <2>1. status[r] = "ready" /\ session[r] = holds[r]
    BY <1>2, <1>6 DEF Seen, View
  <2> QED
    BY <1>4, <1>5, <1>6, <2>1, OneChanges DEF Contract!Feed
<1>7. CASE obj[t] \in Progs /\ owner[obj[t]] = r
  <2>1. obj[t] \in Carriers(r)
    BY <1>0, <1>2, <1>7 DEF Carriers
  <2>2. status[r] = "paused" /\ session[r] = holds[obj[t]]
    BY <1>7, <2>1 DEF Seen, View
  <2> QED
    BY <1>4, <1>5, <2>2, OneChanges DEF Contract!Resume
<1> QED
  BY <1>1, <1>6, <1>7

\* While a goroutine executes, the session stays or is lost for good.
LEMMA ExecutingStep ==
  ASSUME IInv, Seen, Seen', NEW t \in Threads, Step(t) \/ PutLock(t), NEW r \in Repls, Own(t) = r,
         pc[t] \in Executing, pc'[t] \in Executing
  PROVE  Contract!LoseSession(r) \/ UNCHANGED Contract!vars
<1> USE DEF IInv, TypeOK
<1>0. pc[t] # "idle" /\ t \notin Progs /\ t \in Places /\ r # None
  BY InsideCall, ConstantsAssumption DEF Executing, Objs, Places
<1>1. t \in Carriers(r) /\ t \in Carriers(r)'
  <2>1. [LoadNext]_vars
    BY DEF LoadNext, Next
  <2>2. Own(t)' = r
    BY <1>0, <2>1, CallStays, StepLeavesCalled DEF Executing
  <2> QED
    BY <2>2 DEF Carriers
<1>2. /\ status[r] = "running" /\ session[r] = holds[t]
      /\ status[r]' = "running" /\ session[r]' = holds'[t]
  BY <1>0, <1>1 DEF Seen, View
<1>3. \A q \in Repls : q # r => status[q]' = status[q] /\ session[q]' = session[q]
  BY <1>0, StepTouchesOwn, UntouchedLooksSame
<1>4. UNCHANGED holds \/ (Faults # {} /\ holds'[t] = None)
  BY <1>0 DEF Step, PutLock, Borrow, Borrowing, BorrowNil, ReadInFlight, EndDump, EndStart, TakeNil,
     Take, Taking, MarshalFails, Execute, OptionsFail, ExecuteFails, Recover, CallbackPanics, Publish,
     ProgressInvalid, Consume, Swap, CloseOld, Free, Return, Continue, Goto, Executing
<1>5. CASE holds'[t] = holds[t]
  BY <1>2, <1>3, <1>5, NoneChanges
<1>6. CASE Faults # {} /\ holds'[t] = None /\ holds[t] # None
  <2>1. Contract!Become(r, "running", "running") /\ session' = [session EXCEPT ![r] = None]
    BY <1>2, <1>3, <1>6, OneChanges
  <2>2. UNCHANGED status
    BY <2>1 DEF Contract!Become, status
  <2> QED
    BY <1>2, <1>6, <2>1, <2>2 DEF Contract!LoseSession
<1> QED
  BY <1>4, <1>5, <1>6

\* An execution ends: its session is home, in a Snapshot, or lost for good.
LEMMA EndingStep ==
  ASSUME IInv, InHand, OneExecution, Seen, Seen', NEW t \in Threads, Step(t), NEW r \in Repls,
         Own(t) = r, pc[t] \in Executing, pc'[t] \notin Executing
  PROVE  Contract!Pause(r) \/ Contract!Finish(r) \/ Contract!Vanish(r)
<1> USE DEF IInv, TypeOK
<1>0. /\ pc[t] # "idle" /\ t \notin Progs /\ t \in Places /\ r # None /\ r \in made
      /\ r \in Places /\ r # t /\ \A p \in Progs : p \in Places /\ p # t /\ p # r
  BY InsideCall, ConstantsAssumption DEF Executing, Objs, Places
<1>1. t \in Carriers(r) /\ Single(r) /\ holds[r] = None
  BY DEF Carriers, OneExecution, Single
<1>2. status[r] = "running" /\ session[r] = holds[t]
  BY <1>0, <1>1 DEF Seen, View
<1>3. \A q \in Repls : q # r => status[q]' = status[q] /\ session[q]' = session[q]
  BY <1>0, StepTouchesOwn, UntouchedLooksSame
<1>4. ASSUME Faults # {}, UNCHANGED <<made, owner>>, \A p \in Progs : holds'[p] = holds[p],
             holds'[r] = None
      PROVE  Contract!Vanish(r)
  <2>1. Carriers(r)' = {}
    BY <1>1, <1>4, CarrierLeaves
  <2>2. status[r]' = "gone" /\ session[r]' = None
    BY <1>0, <1>4, <2>1 DEF Seen, View
  <2> QED
    BY <1>2, <1>3, <1>4, <2>2, OneChanges DEF Contract!Vanish
<1>5. CASE OptionsFail(t) \/ CallbackPanics(t)
  BY <1>0, <1>1, <1>4, <1>5 DEF OptionsFail, CallbackPanics, Free
<1>6. ASSUME NEW p \in Progs, Publish(t, p) PROVE Contract!Pause(r)
  <2>1. holds[t] # None /\ holds'[p] = holds[t] /\ owner'[p] = r /\ p \in made'
    BY <1>0, <1>6 DEF Publish, Move, InHand
  <2>2. p \in Carriers(r)'
    BY <2>1 DEF Carriers
  <2>3. status[r]' = "paused" /\ session[r]' = holds[t]
    BY <2>1, <2>2 DEF Seen, View
  <2> QED
    BY <1>2, <1>3, <2>1, <2>3, OneChanges DEF Contract!Pause
<1>7. CASE Swap(t) /\ holds[t] # None
  <2>1. holds'[r] = holds[t]
    BY <1>0, <1>7 DEF Swap
  <2>2. status[r]' = "ready" /\ session[r]' = holds[t]
    BY <1>7, <2>1 DEF Seen, View
  <2> QED
    BY <1>2, <1>3, <1>7, <2>2, OneChanges DEF Contract!Finish
<1>8. CASE Swap(t) /\ holds[t] = None
  <2>1. Faults # {}
    BY <1>8 DEF InHand
  <2> QED
    BY <1>0, <1>4, <1>8, <2>1 DEF Swap
<1> QED
  BY <1>0, <1>5, <1>6, <1>7, <1>8
  DEF Step, Borrow, Borrowing, BorrowNil, ReadInFlight, EndDump, EndStart, TakeNil, Take, Taking,
      MarshalFails, Execute, ExecuteFails, Recover, ProgressInvalid, Consume, CloseOld, Settle,
      Continue, Goto, Executing

\* The steps of a goroutine.
LEMMA GoroutineStep ==
  ASSUME IInv, InHand, OneExecution, Seen, Seen', NEW t \in Threads, Step(t) \/ PutLock(t)
  PROVE  [Contract!Next]_(Contract!vars)
<1> USE DEF IInv, TypeOK
<1>0. pc[t] # "idle"
  BY DEF Step, PutLock, Borrow, Borrowing, BorrowNil, ReadInFlight, EndDump, EndStart, TakeNil,
     Take, Taking, MarshalFails, Execute, OptionsFail, ExecuteFails, Recover, CallbackPanics,
     Publish, ProgressInvalid, Consume, Swap, CloseOld
<1>1. CASE \A r \in Repls : Own(t) # r
  BY <1>0, <1>1, StepTouchesOwn, UntouchedLooksSame, NoneChanges
<1>2. ASSUME NEW r \in Repls, Own(t) = r PROVE [Contract!Next]_(Contract!vars)
  <2>1. CASE Take(t)
    BY <1>2, <2>1, TakeStep DEF Contract!Next
  <2>2. CASE pc[t] \in Executing /\ pc'[t] \in Executing
    BY <1>2, <2>2, ExecutingStep DEF Contract!Next
  <2>3. CASE pc[t] \in Executing /\ pc'[t] \notin Executing
    <3>1. Step(t)
      BY <2>3 DEF PutLock, Goto, Executing
    <3> QED
      BY <1>2, <2>3, <3>1, EndingStep DEF Contract!Next
  <2>4. CASE pc[t] \notin Executing /\ ~Take(t)
    <3>1. ~EndStart(t)
      <4>1. EndStart(t) => obj[t] \in Runners
        BY ConstantsAssumption DEF EndStart, Bookkeeping, Called, Methods, Objs
      <4> QED
        BY <1>2, <4>1, ConstantsAssumption DEF Own, OwnerOf, Objs, Places
    <3>2. /\ UNCHANGED <<made, owner>> /\ \A x \in Places : x # t => holds'[x] = holds[x]
          /\ pc'[t] \notin Executing
      BY <2>4, <3>1 DEF Step, PutLock, Borrow, Borrowing, BorrowNil, ReadInFlight, EndDump, TakeNil,
         MarshalFails, Execute, OptionsFail, ExecuteFails, Recover, CallbackPanics, Publish,
         ProgressInvalid, Consume, Swap, CloseOld, Free, Return, Goto, Executing
    <3> QED
      BY <1>0, <2>4, <3>2, IdleTouchesNone, UntouchedLooksSame, NoneChanges
  <2> QED
    BY <2>1, <2>2, <2>3, <2>4
<1> QED
  BY <1>1, <1>2

LEMMA ContractStep ==
  ASSUME IInv, InHand, OneExecution, Seen, Seen', [Next]_vars
  PROVE  [Contract!Next]_(Contract!vars)
<1>1. ASSUME \A q \in Repls : Untouched(q) PROVE [Contract!Next]_(Contract!vars)
  BY <1>1, UntouchedLooksSame, NoneChanges
<1>2. CASE UNCHANGED vars
  BY <1>1, <1>2, ObjectTouchesOwn
<1>3. ASSUME NEW o \in Repls \cup Runners, Construct(o) PROVE [Contract!Next]_(Contract!vars)
  <2>1. CASE o \in Repls
    BY <1>3, <2>1, CreateStep DEF Contract!Next
  <2>2. CASE o \notin Repls
    BY <1>1, <1>3, <2>2, ObjectTouchesOwn
  <2> QED
    BY <2>1, <2>2
<1>4. ASSUME NEW p \in Progs, LoadSnapshot(p) PROVE [Contract!Next]_(Contract!vars)
  BY <1>1, <1>4, ObjectTouchesOwn
<1>5. ASSUME NEW p \in Progs, DropSnapshot(p) PROVE [Contract!Next]_(Contract!vars)
  <2>1. CASE owner[p] \in Repls
    BY <1>5, <2>1, DropStep DEF Contract!Next
  <2>2. CASE owner[p] \notin Repls
    BY <1>1, <1>5, <2>2, ObjectTouchesOwn
  <2> QED
    BY <2>1, <2>2
<1>6. ASSUME NEW t \in Threads, NEW o \in Objs,
             NEW m \in {"dump", "start", "feed", "resume", "abandon"},
             Canceled(t, o) \/ Call(t, m, o) \/ Busy(t, m, o)
      PROVE  [Contract!Next]_(Contract!vars)
  BY <1>1, <1>6, BeginTouchesNone
<1>7. ASSUME NEW t \in Threads, Step(t) \/ PutLock(t) PROVE [Contract!Next]_(Contract!vars)
  BY <1>7, GoroutineStep
<1> QED
  BY <1>2, <1>3, <1>4, <1>5, <1>6, <1>7 DEF Next, Caller

LEMMA ContractInit == Init => Contract!Init
<1> SUFFICES ASSUME Init PROVE Contract!Init
  OBVIOUS
<1>1. ASSUME NEW r \in Repls PROVE status[r] = "absent" /\ session[r] = None
  <2>1. Carriers(r) = {} /\ r \in Places
    BY DEF Init, Carriers, Executing, Objs, Places
  <2> QED
    BY <2>1 DEF Init, status, session, Place
<1> QED
  BY <1>1 DEF Contract!Init, status, session

\* Whatever goroutines do with Repls and Snapshots, each Repl has one session,
\* which comes back from every execution and is never another one's; what is
\* gone stays gone, and only a rare failure makes it so.
THEOREM ContractImplemented == Spec => ImplementsContract
<1>1. IInv /\ OneExecution => Seen
  BY Views DEF Seen
<1>2. IInv /\ InHand /\ [Next]_vars => InHand'
  BY InHandStep DEF LoadNext
<1>3. IInv /\ InHand /\ OneExecution /\ Seen /\ Seen' /\ [Next]_vars
        => [Contract!Next]_(Contract!vars)
  BY ContractStep
<1>4. Spec => []IInv
  BY Inductive, SpecIsLoadSpec, PTL
<1> QED
  BY <1>1, <1>2, <1>3, <1>4, ContractInit, InHandInit, SingleExecution, PTL
  DEF Spec, ImplementsContract, Contract!Spec
=============================================================================
