------------------------------- MODULE Handles -------------------------------
(***************************************************************************)
(* Who owns which native value: the handle protocol of runner.go, with the *)
(* FFI calls of crates/monty-go-ffi/src/lib.rs it makes.                   *)
(*                                                                         *)
(* A Repl, a Snapshot (any of its three kinds) and a Runner each have a Go *)
(* state {mu, handle}; handle points to a native value that Rust allocated *)
(* (an interpreter session, or a compiled program).  A call moves a value  *)
(* from a Go state into the hands of the calling goroutine, through Rust,  *)
(* and into another Go state.  Steps are cut at the mutex operations and   *)
(* at the FFI calls, so that goroutines interleave as the code allows.     *)
(*                                                                         *)
(* An interpreter keeps its identity when Rust moves it from a MontyGoRepl *)
(* to a MontyGoProgress and back: Natives are the interpreters (and        *)
(* programs), and an emptied Rust box (inner = None) is not modelled.      *)
(***************************************************************************)
EXTENDS Naturals, FiniteSets

CONSTANTS Threads,  \* goroutines that call the API
          Repls,    \* *Repl objects (replState)
          Progs,    \* paused Snapshot objects (progressState)
          Runners,  \* *Runner objects (runnerState)
          Natives,  \* values Rust can allocate; a freed one may be reused
          None,     \* nil
          Faults,   \* the rare failures that may happen, a subset of FaultKinds
          Reserve   \* bound: how many Snapshots ownerless runs leave free, so that
                    \* a finite Progs never keeps a call from returning

\* "panic"    Rust panics or cannot encode its answer: an error without a REPL
\* "reject"   Rust cannot decode the resume payload (an unknown exception type)
\* "decode"   Go cannot decode the progress payload
\* "encode"   Go cannot encode the options of a feed
\* "callback" the caller's print callback panics, and the caller recovers
\* "drop"     the caller drops a Snapshot without resuming or cancelling it
FaultKinds == {"panic", "reject", "decode", "encode", "callback", "drop"}

Objs   == Repls \cup Progs \cup Runners
Places == Objs \cup Threads

ASSUME ConstantsAssumption ==
  /\ Repls \cap Progs = {} /\ Repls \cap Runners = {} /\ Progs \cap Runners = {}
  /\ Threads \cap Objs = {}
  /\ None \notin Places \cup Natives
  /\ Faults \subseteq FaultKinds
  /\ Reserve \in Nat

VARIABLES
  made,      \* the objects that exist
  mu,        \* the goroutine that holds each object's mutex, or None
  holds,     \* the native value each object's handle, or each goroutine, has
  live,      \* the native values allocated and not freed
  inFlight,  \* replState.inFlight
  owner,     \* progressState.owner
  pc, op, obj,  \* where each goroutine is, in which method, of which object
  res        \* what Rust, and in the end the method, answered

locals == <<pc, op, obj, res>>
vars   == <<made, mu, holds, live, inFlight, owner, pc, op, obj, res>>

Methods(o) == CASE o \in Repls   -> {"dump", "feed"}
                [] o \in Progs   -> {"dump", "resume", "abandon"}
                [] o \in Runners -> {"dump", "start"}

OwnerOf(o) == IF o \in Repls THEN o ELSE IF o \in Progs THEN owner[o] ELSE None

\* The REPL that gets the interpreter back when t's call ends.
Own(t) == OwnerOf(obj[t])

Goto(t, label)  == pc' = [pc EXCEPT ![t] = label]
Unlock(o)       == mu' = [mu EXCEPT ![o] = None]
Move(x, y)      == holds' = [holds EXCEPT ![y] = holds[x], ![x] = None]
\* handle.Close(), or the finalizer of a handle nothing refers to any more.
Free(x)         == /\ holds' = [holds EXCEPT ![x] = None]
                   /\ live'  = live \ {holds[x]}
Allocate(x, s)  == /\ s \in Natives \ live
                   /\ holds' = [holds EXCEPT ![x] = s]
                   /\ live'  = live \cup {s}

Return(t, r) == /\ Goto(t, "idle")
                /\ op'  = [op  EXCEPT ![t] = "none"]
                /\ obj' = [obj EXCEPT ![t] = None]
                /\ res' = [res EXCEPT ![t] = r]

Continue(t, label, r) == /\ Goto(t, label)
                         /\ res' = [res EXCEPT ![t] = r]
                         /\ UNCHANGED <<op, obj>>

Taking(t)       == pc[t] = "locked" /\ op[t] \in {"feed", "resume", "abandon"}
MarkInFlight(o) == inFlight' = [r \in Repls |-> inFlight[r] \/ r = o]

\* An owner is cleared or restored (put); without one the answer is final.
Settle(t, r) == IF Own(t) = None THEN Return(t, r) ELSE Continue(t, "put", r)

Referenced(p) == \E t \in Threads : obj[t] = p

\* A new Snapshot is an object that was never made, or one that is spent and
\* that no other goroutine still uses: its memory is garbage.
Fresh(t, p) == /\ p \in Progs /\ holds[p] = None
               /\ \A u \in Threads \ {t} : obj[u] # p

Room == Cardinality({p \in Progs : holds[p] = None /\ ~Referenced(p)}) > Reserve

Init == /\ made = {}
        /\ mu = [o \in Objs |-> None]
        /\ holds = [x \in Places |-> None]
        /\ live = {}
        /\ inFlight = [r \in Repls |-> FALSE]
        /\ owner = [p \in Progs |-> None]
        /\ pc  = [t \in Threads |-> "idle"]
        /\ op  = [t \in Threads |-> "none"]
        /\ obj = [t \in Threads |-> None]
        /\ res = [t \in Threads |-> "none"]

-----------------------------------------------------------------------------
(* Faulty variants of actions below: what a slip in the code would do.  No *)
(* specification uses them; each shows that some property would notice.    *)

NilAnswerIgnoringFlight(o) == "closed"

CallWithoutLock(t, m, o) ==
              /\ pc[t] = "idle" /\ o \in made /\ m \in Methods(o)
              /\ mu' = [mu EXCEPT ![o] = t]
              /\ Goto(t, "locked")
              /\ op'  = [op  EXCEPT ![t] = m]
              /\ obj' = [obj EXCEPT ![t] = o]
              /\ res' = [res EXCEPT ![t] = "none"]
              /\ UNCHANGED <<made, holds, live, inFlight, owner>>

TakeKeepingHandle(t) ==
           /\ Taking(t) /\ holds[obj[t]] # None
           /\ holds' = [holds EXCEPT ![t] = holds[obj[t]]]
           /\ MarkInFlight(obj[t])
           /\ Unlock(obj[t])
           /\ Goto(t, IF op[t] = "abandon" THEN "recover" ELSE "exec")
           /\ UNCHANGED <<made, live, owner, op, obj, res>>

TakeUnmarked(t) ==
           /\ Taking(t) /\ holds[obj[t]] # None
           /\ Move(obj[t], t)
           /\ Unlock(obj[t])
           /\ Goto(t, IF op[t] = "abandon" THEN "recover" ELSE "exec")
           /\ UNCHANGED <<made, live, inFlight, owner, op, obj, res>>

TakeHoldingLock(t) ==
           /\ Taking(t) /\ holds[obj[t]] # None
           /\ Move(obj[t], t)
           /\ MarkInFlight(obj[t])
           /\ Goto(t, IF op[t] = "abandon" THEN "recover" ELSE "exec")
           /\ UNCHANGED <<made, mu, live, owner, op, obj, res>>

PublishToSnapshot(t, p) ==
                 /\ pc[t] = "consume" /\ res[t] = "paused"
                 /\ Fresh(t, p)
                 /\ Move(t, p)
                 /\ owner' = [owner EXCEPT ![p] = obj[t]]
                 /\ made'  = made \cup {p}
                 /\ Return(t, "paused")
                 /\ UNCHANGED <<mu, live, inFlight>>

ConsumeDroppingRepl(t) ==
              /\ pc[t] = "consume" /\ res[t] # "paused"
              /\ IF Own(t) = None \/ res[t] = "error" THEN Free(t) ELSE UNCHANGED <<holds, live>>
              /\ Settle(t, res[t])
              /\ UNCHANGED <<made, mu, inFlight, owner>>

-----------------------------------------------------------------------------
(* Objects come and go.  A constructor that fails publishes nothing.       *)

\* New, LoadRunner and NewRepl.
Construct(o) == /\ o \in (Repls \cup Runners) \ made
                /\ \E s \in Natives : Allocate(o, s)
                /\ made' = made \cup {o}
                /\ UNCHANGED <<mu, inFlight, owner, locals>>

\* A paused run comes out of its bytes with no owner.
LoadSnapshot(p) == /\ p \in Progs /\ holds[p] = None /\ ~Referenced(p) /\ Room
                   /\ \E s \in Natives : Allocate(p, s)
                   /\ made'  = made \cup {p}
                   /\ owner' = [owner EXCEPT ![p] = None]
                   /\ UNCHANGED <<mu, inFlight, locals>>

\* The bytes are loaded twice: the first copy is the paused snippet, the
\* second gives up its interpreter to a Repl that is usable at once and that
\* also owns the snippet.
LoadReplSnapshot(p, r) ==
  /\ p \in Progs \ made /\ r \in Repls \ made
  /\ \E s, b \in Natives \ live :
       /\ s # b
       /\ holds' = [holds EXCEPT ![p] = s, ![r] = b]
       /\ live'  = live \cup {s, b}
  /\ made'  = made \cup {p, r}
  /\ owner' = [owner EXCEPT ![p] = r]
  /\ UNCHANGED <<mu, inFlight, locals>>

\* The caller forgets a Snapshot that still has its handle, whose finalizer
\* frees it: nothing tells the owner.
DropSnapshot(p) == /\ "drop" \in Faults
                   /\ p \in Progs \cap made /\ holds[p] # None /\ ~Referenced(p)
                   /\ Free(p)
                   /\ made'  = made \ {p}
                   /\ owner' = [owner EXCEPT ![p] = None]
                   /\ UNCHANGED <<mu, inFlight, locals>>

-----------------------------------------------------------------------------
(* A method begins with ctx.Err() and TryLock.  A resume whose context is  *)
(* cancelled is an "abandon": it only gives the interpreter back.          *)

Canceled(t, o) == /\ pc[t] = "idle" /\ o \in made \cap (Repls \cup Runners)
                  /\ res' = [res EXCEPT ![t] = "canceled"]
                  /\ UNCHANGED <<made, mu, holds, live, inFlight, owner, pc, op, obj>>

Call(t, m, o) == /\ pc[t] = "idle" /\ o \in made /\ m \in Methods(o)
                 /\ mu[o] = None
                 /\ mu' = [mu EXCEPT ![o] = t]
                 /\ Goto(t, "locked")
                 /\ op'  = [op  EXCEPT ![t] = m]
                 /\ obj' = [obj EXCEPT ![t] = o]
                 /\ res' = [res EXCEPT ![t] = "none"]
                 /\ UNCHANGED <<made, holds, live, inFlight, owner>>

Busy(t, m, o) == /\ pc[t] = "idle" /\ o \in made /\ m \in Methods(o)
                 /\ mu[o] # None
                 /\ res' = [res EXCEPT ![t] = "concurrent"]
                 /\ UNCHANGED <<made, mu, holds, live, inFlight, owner, pc, op, obj>>

\* What takeForExecution and take answer when the handle is gone.
NilAnswer(o) == IF o \in Repls /\ inFlight[o] THEN "concurrent" ELSE "closed"

-----------------------------------------------------------------------------
(* borrow: the mutex is held while Rust uses the handle.                   *)

Borrowing(t) == pc[t] = "locked" /\ op[t] \in {"dump", "start"}

Borrow(t) == /\ Borrowing(t) /\ holds[obj[t]] # None
             /\ Goto(t, "using")
             /\ UNCHANGED <<made, mu, holds, live, inFlight, owner, op, obj, res>>

\* replState.borrow unlocks first and reads inFlight afterwards.
BorrowNil(t) == /\ Borrowing(t) /\ holds[obj[t]] = None
                /\ Unlock(obj[t])
                /\ IF obj[t] \in Repls
                   THEN Goto(t, "reading") /\ UNCHANGED <<op, obj, res>>
                   ELSE Return(t, "closed")
                /\ UNCHANGED <<made, holds, live, inFlight, owner>>

ReadInFlight(t) == /\ pc[t] = "reading"
                   /\ Return(t, NilAnswer(obj[t]))
                   /\ UNCHANGED <<made, mu, holds, live, inFlight, owner>>

\* Dump and TypeCheck leave the handle where it is.
EndDump(t) == /\ pc[t] = "using" /\ op[t] = "dump"
              /\ Unlock(obj[t])
              /\ Return(t, "ok")
              /\ UNCHANGED <<made, holds, live, inFlight, owner>>

\* Runner.start: a run that stops at a call becomes a Snapshot without owner.
EndStart(t) == /\ pc[t] = "using" /\ op[t] = "start"
               /\ Unlock(obj[t])
               /\ \/ \E p \in Progs, s \in Natives :
                       /\ Fresh(t, p) /\ Room
                       /\ Allocate(p, s)
                       /\ made'  = made \cup {p}
                       /\ owner' = [owner EXCEPT ![p] = None]
                       /\ Return(t, "paused")
                  \/ /\ \E r \in {"complete", "error"} : Return(t, r)
                     /\ UNCHANGED <<made, holds, live, owner>>
               /\ UNCHANGED inFlight

-----------------------------------------------------------------------------
(* take, takeForExecution: the handle leaves the Go state, so that no one  *)
(* else can use it once the mutex is free again.                           *)

Take(t) == /\ Taking(t) /\ holds[obj[t]] # None
           /\ Move(obj[t], t)
           /\ MarkInFlight(obj[t])
           /\ Unlock(obj[t])
           /\ Goto(t, IF op[t] = "abandon" THEN "recover" ELSE "exec")
           /\ UNCHANGED <<made, live, owner, op, obj, res>>

TakeNil(t) == /\ Taking(t) /\ holds[obj[t]] = None
              /\ Unlock(obj[t])
              /\ Return(t, NilAnswer(obj[t]))
              /\ UNCHANGED <<made, holds, live, inFlight, owner>>

-----------------------------------------------------------------------------
(* Rust runs.  What it answers is the choice of the program it runs.       *)

\* newWireFeedOptions fails: feedStart returns without a word to the Repl.
OptionsFail(t) == /\ "encode" \in Faults /\ pc[t] = "exec" /\ op[t] = "feed"
                  /\ Free(t)
                  /\ Return(t, "error")
                  /\ UNCHANGED <<made, mu, inFlight, owner>>

\* marshalWire fails: feedStart puts the handle back.
MarshalFails(t) == /\ "encode" \in Faults /\ pc[t] = "exec" /\ op[t] = "feed"
                   /\ Continue(t, "put", "error")
                   /\ UNCHANGED <<made, mu, holds, live, inFlight, owner>>

\* feed_start_internal, resume_*_internal: the interpreter stops at a call,
\* ends, or raises; in each case it comes back.
Execute(t) == /\ pc[t] = "exec"
              /\ \E r \in {"paused", "complete", "error"} : Continue(t, "consume", r)
              /\ UNCHANGED <<made, mu, holds, live, inFlight, owner>>

\* An error without a REPL.  A rejected payload leaves the interpreter in the
\* Rust handle that resume* closes; a panic drops it there and then.
ExecuteFails(t) == /\ pc[t] = "exec"
                   /\ \/ "panic" \in Faults /\ Continue(t, "consume", "lost")
                      \/ /\ "reject" \in Faults /\ op[t] = "resume"
                         /\ Continue(t, "consume", "rejected")
                   /\ Free(t)
                   /\ UNCHANGED <<made, mu, inFlight, owner>>

\* restoreOwner: monty_go_progress_take_repl, for a Snapshot with an owner.
Recover(t) == /\ pc[t] = "recover"
              /\ IF Own(t) = None
                 THEN Free(t) /\ Return(t, "canceled")
                 ELSE \/ Continue(t, "put", "canceled") /\ UNCHANGED <<holds, live>>
                      \/ "panic" \in Faults /\ Free(t) /\ Continue(t, "put", "lost")
              /\ UNCHANGED <<made, mu, inFlight, owner>>

-----------------------------------------------------------------------------
(* consumeOpResult and progressFromResult.                                 *)

\* The print callback runs before anything else is done with the answer.
CallbackPanics(t) == /\ "callback" \in Faults /\ pc[t] = "consume"
                     /\ holds[t] # None
                     /\ Free(t)
                     /\ Return(t, "panic")
                     /\ UNCHANGED <<made, mu, inFlight, owner>>

\* A paused program becomes a new Snapshot with the owner of the old one.
Publish(t, p) == /\ pc[t] = "consume" /\ res[t] = "paused"
                 /\ Fresh(t, p)
                 /\ Move(t, p)
                 /\ owner' = [owner EXCEPT ![p] = Own(t)]
                 /\ made'  = made \cup {p}
                 /\ Return(t, "paused")
                 /\ UNCHANGED <<mu, live, inFlight>>

\* Go cannot read the payload, or TakeRepl fails for a program that ended.
ProgressInvalid(t) ==
  /\ pc[t] = "consume"
  /\ \/ "decode" \in Faults /\ res[t] \in {"paused", "complete"}
     \/ "panic" \in Faults /\ res[t] = "complete" /\ Own(t) # None
  /\ Free(t)
  /\ Settle(t, "lost")
  /\ UNCHANGED <<made, mu, inFlight, owner>>

\* The interpreter of a program that ended or raised goes back to its owner;
\* without an owner it is closed.
Consume(t) == /\ pc[t] = "consume" /\ res[t] # "paused"
              /\ IF Own(t) = None THEN Free(t) ELSE UNCHANGED <<holds, live>>
              /\ Settle(t, res[t])
              /\ UNCHANGED <<made, mu, inFlight, owner>>

-----------------------------------------------------------------------------
(* replState.restore (the goroutine has an interpreter) and clear (it has  *)
(* none): a blocking Lock, a swap, and the old handle closed after Unlock. *)

PutLock(t) == /\ pc[t] = "put" /\ mu[Own(t)] = None
              /\ mu' = [mu EXCEPT ![Own(t)] = t]
              /\ Goto(t, "swap")
              /\ UNCHANGED <<made, holds, live, inFlight, owner, op, obj, res>>

Swap(t) == /\ pc[t] = "swap"
           /\ holds' = [holds EXCEPT ![Own(t)] = holds[t], ![t] = holds[Own(t)]]
           /\ inFlight' = [inFlight EXCEPT ![Own(t)] = FALSE]
           /\ Unlock(Own(t))
           /\ IF holds[Own(t)] = None THEN Return(t, res[t]) ELSE Continue(t, "close", res[t])
           /\ UNCHANGED <<made, live, owner>>

CloseOld(t) == /\ pc[t] = "close"
               /\ Free(t)
               /\ Return(t, res[t])
               /\ UNCHANGED <<made, mu, inFlight, owner>>

-----------------------------------------------------------------------------
\* What a goroutine inside a call does on its own.
Step(t) == \/ Borrow(t) \/ BorrowNil(t) \/ ReadInFlight(t) \/ EndDump(t) \/ EndStart(t)
           \/ Take(t) \/ TakeNil(t) \/ OptionsFail(t) \/ MarshalFails(t)
           \/ Execute(t) \/ ExecuteFails(t) \/ Recover(t)
           \/ CallbackPanics(t) \/ (\E p \in Progs : Publish(t, p))
           \/ ProgressInvalid(t) \/ Consume(t)
           \/ Swap(t) \/ CloseOld(t)

\* What the caller of the API chooses to do.
Caller == \/ \E o \in Repls \cup Runners : Construct(o)
          \/ \E p \in Progs : LoadSnapshot(p) \/ DropSnapshot(p)
          \/ \E t \in Threads, o \in Objs :
               \/ Canceled(t, o)
               \/ \E m \in {"dump", "start", "feed", "resume", "abandon"} :
                    Call(t, m, o) \/ Busy(t, m, o)

Next == \/ Caller
        \/ \E t \in Threads : Step(t) \/ PutLock(t)

LoadNext == Next \/ \E p \in Progs, r \in Repls : LoadReplSnapshot(p, r)

\* A goroutine inside a call is scheduled; a goroutine blocked in Mutex.Lock
\* gets the mutex in the end, since a starving sync.Mutex refuses TryLock.
Fairness == \A t \in Threads : WF_vars(Step(t)) /\ SF_vars(PutLock(t))

Spec     == Init /\ [][Next]_vars
LoadSpec == Init /\ [][LoadNext]_vars
FairSpec == Spec /\ Fairness

-----------------------------------------------------------------------------
Labels  == {"idle", "locked", "using", "reading", "exec", "recover", "consume",
            "put", "swap", "close"}
Results == {"none", "ok", "paused", "complete", "error", "lost", "rejected",
            "canceled", "closed", "concurrent", "panic"}

\* The shape of the state: in particular, a Snapshot's owner is a Repl.
TypeOK == /\ made \subseteq Objs
          /\ mu \in [Objs -> Threads \cup {None}]
          /\ holds \in [Places -> Natives \cup {None}]
          /\ live \subseteq Natives
          /\ inFlight \in [Repls -> BOOLEAN]
          /\ owner \in [Progs -> Repls \cup {None}]
          /\ pc \in [Threads -> Labels]
          /\ op \in [Threads -> {"none", "dump", "start", "feed", "resume", "abandon"}]
          /\ obj \in [Threads -> Objs \cup {None}]
          /\ res \in [Threads -> Results]

\* Every native value is reachable from exactly one place as long as it is
\* allocated, and a place never refers to a freed one: no interpreter is run
\* from two handles, freed twice, used after its Close, or forgotten.
SoleOwner == /\ \A x, y \in Places : holds[x] # None /\ holds[x] = holds[y] => x = y
             /\ live = {holds[x] : x \in Places} \ {None}

\* While Rust reads a borrowed handle for Dump, TypeCheck or Start, the handle
\* stays open and in its place, whatever other goroutines do.
BorrowedStaysOpen ==
  [][\A t \in Threads : pc[t] = "using" /\ pc'[t] = "using" =>
        /\ holds'[obj[t]] = holds[obj[t]]
        /\ holds'[obj[t]] \in live']_vars

Executing == {"exec", "recover", "consume", "put", "swap"}

\* The goroutines and the paused Snapshots that will give r its interpreter.
Carriers(r) == {t \in Threads : pc[t] \in Executing /\ Own(t) = r}
               \cup {p \in Progs \cap made : owner[p] = r /\ holds[p] # None}

\* At most one execution of a REPL is outstanding, and while there is one the
\* Repl says so and has no interpreter to lend: a second feed, a Dump or the
\* end of an older execution cannot slip in.
OneExecution == \A r \in Repls :
  /\ \A x, y \in Carriers(r) : x = y
  /\ Carriers(r) # {} => inFlight[r] /\ holds[r] = None

\* A Repl without an interpreter that is not in flight has lost it for good.
Lost(r) == holds[r] = None /\ ~inFlight[r]

\* Python errors, cancelled contexts, concurrent calls and stale Snapshots
\* never cost a REPL its interpreter or leave it in flight with nobody to end
\* the flight (stated of the runs in which no rare failure happens).
SessionSurvives == \A r \in Repls \cap made : holds[r] # None \/ Carriers(r) # {}

Returning(t) == pc[t] # "idle" /\ pc'[t] = "idle"

\* The session of r is nowhere: the Repl has no interpreter, and there is no
\* execution and no paused Snapshot that will give it one.
Gone(r) == holds[r] = None /\ Carriers(r) = {}

\* A feed answers ErrClosed only of a REPL whose session is gone: not of one
\* that another goroutine executes, is about to restore, or left in a Snapshot.
FeedClosedIsTruthful ==
  [][\A t \in Threads :
        Returning(t) /\ op[t] = "feed" /\ res'[t] = "closed" => Gone(obj[t])]_vars

\* So should every method: "ErrClosed reports that a handle-backed object no
\* longer owns a native handle" (runner.go).  Repl.Dump does not, see README.
ClosedIsTruthful ==
  [][\A t \in Threads :
        Returning(t) /\ obj[t] \in Repls /\ res'[t] = "closed" => Lost(obj[t])]_vars

\* While a goroutine executes a snippet it took from a Repl, that Repl is in
\* flight and empty.  LoadReplSnapshot breaks this, see README.
FeedHoldsRepl == \A t \in Threads :
  pc[t] \in Executing /\ op[t] = "feed" => inFlight[obj[t]] /\ holds[obj[t]] = None

\* No call waits for ever, the blocking Lock of restore and clear included.
CallsReturn == \A t \in Threads : pc[t] # "idle" ~> pc[t] = "idle"

-----------------------------------------------------------------------------
(* What a Repl promises, whatever the goroutines do: see ReplContract.     *)

Place(r)   == IF holds[r] # None \/ Carriers(r) = {} THEN r
              ELSE CHOOSE x \in Carriers(r) : TRUE
session    == [r \in Repls |-> holds[Place(r)]]
status     == [r \in Repls |-> IF r \notin made THEN "absent"
                               ELSE IF holds[r] # None THEN "ready"
                               ELSE IF Carriers(r) = {} THEN "gone"
                               ELSE IF Place(r) \in Progs THEN "paused"
                               ELSE "running"]

Contract == INSTANCE ReplContract WITH Lossy <- Faults # {}
ImplementsContract == Contract!Spec
=============================================================================
