------------------------------- MODULE Dispatch -------------------------------
(***************************************************************************)
(* The host callback loop of dispatch.go: one Runner.Run or Repl.FeedRun   *)
(* from the first pause of its program to its return.  dispatchLoop, the   *)
(* goroutines that wait for promised answers, the host that answers them   *)
(* and whoever cancels the context take steps of their own.                *)
(*                                                                         *)
(* The program itself is Rust's: it may stop at any call it has not made   *)
(* yet, at a name lookup, or to wait for some of the answers promised to   *)
(* it, and it may end, raise or fail.  What a host answers may be a value  *)
(* or an exception that Rust cannot decode ("bad"): then the resume is     *)
(* refused, and the session is lost.  Only the context, the snapshots and  *)
(* the session are shared with Handles, which has their locks.             *)
(***************************************************************************)
EXTENDS Naturals, FiniteSets

CONSTANT Calls   \* call IDs, each used by one call

VARIABLES
  pc,       \* where dispatchLoop is
  at,       \* the progress value: its kind and the calls it is about
  held,     \* whether that progress still has its handle
  reply,    \* the answers of the next, or the current, resume
  waiters,  \* the calls that have an entry in the waiters map
  waiting,  \* the goroutines of this wait, by call
  outcomes, \* the outcomes in this wait's channel
  host,     \* what the waiter in the map for each call answers, once it does
  said,     \* what was said of each call: promises and answers, or that it is absent
  future,   \* what the program has of each call
  canceled, \* ctx.Err() # nil
  spans,    \* the telemetry spans begun and not ended
  home,     \* whether the session is away from its Repl, back, or lost
  ret       \* what the method returned

wait == <<waiting, outcomes>>
vars == <<pc, at, held, reply, waiters, waiting, outcomes, host, said, future, canceled,
          spans, home, ret>>

Answers == {"return", "raise"}
Final   == Answers \cup {"bad"}        \* what a host says last of a call
None    == "none"
Quiet   == [c \in Calls |-> None]      \* no answers

Open == {c \in Calls : future[c] = "open"}

\* The method returns; closed says whether ErrClosed is joined to the error.
Returned(kind, closed) == /\ pc'  = "returned"
                          /\ ret' = [kind |-> kind, closed |-> closed]

\* A telemetry handler may panic, and then there is no span.
Begin(s) == spans' \in {spans, spans \cup {s}}
End(S)   == spans' = spans \ S

\* restoreProgressOwner: the handle gives up the session; without it, take
\* answers ErrClosed, and that is joined to the error.
GiveBack(kind) == /\ home' = (IF held THEN "back" ELSE home)
                  /\ held' = FALSE
                  /\ Returned(kind, ~held)

\* resumeCall and resumeFutures look at the context again.
Resume(answers) == IF canceled
                   THEN GiveBack("canceled") /\ UNCHANGED reply
                   ELSE /\ pc' = "rust" /\ held' = FALSE /\ reply' = answers
                        /\ UNCHANGED <<home, ret>>

Init == /\ pc = "rust"
        /\ at = [kind |-> "start", calls |-> {}]
        /\ held = FALSE
        /\ reply = Quiet
        /\ waiters = {}
        /\ waiting = {} /\ outcomes = {}
        /\ host = Quiet
        /\ said = [c \in Calls |-> {}]
        /\ future = [c \in Calls |-> "new"]
        /\ canceled = FALSE
        /\ spans \in {{}, {"execution"}}
        /\ home = "away"
        /\ ret = [kind |-> None, closed |-> FALSE]

-----------------------------------------------------------------------------
(* Faulty variants of actions below, that no specification uses: slips in  *)
(* the code that some property would notice.                               *)

\* resumeFutures without its look at the context.
DeliverUnchecked == /\ pc = "gather" /\ outcomes = {}
                    /\ waiting' = {}
                    /\ pc' = "rust" /\ held' = FALSE
                    /\ End({"wait"})
                    /\ UNCHANGED <<at, reply, waiters, outcomes, host, said, future, canceled, home, ret>>

\* Goroutines that capture callID of the loop that starts them: each files its
\* outcome under the call of the last iteration.
WaiterCapturing(c) == /\ c \in waiting /\ pc \in {"waiting", "gather"} /\ host[c] # None
                      /\ LET last == CHOOSE d \in at.calls \cap waiters : TRUE
                         IN  outcomes' = outcomes \cup {[call |-> last, result |-> host[c]]}
                      /\ waiting'  = waiting \ {c}
                      /\ UNCHANGED <<pc, at, held, reply, waiters, host, said, future, canceled,
                                     spans, home, ret>>

\* A wait that returns without restoreProgressOwner, without the end of its
\* span, or only when there is an outcome.
WaitAbandoned == /\ pc = "waiting" /\ canceled
                 /\ Returned("canceled", FALSE) /\ End({"wait", "execution"})
                 /\ UNCHANGED <<at, held, home, reply, waiters, wait, host, said, future, canceled>>

WaitSpanOpen == /\ pc = "waiting" /\ canceled
                /\ GiveBack("canceled") /\ End({"execution"})
                /\ UNCHANGED <<at, reply, waiters, wait, host, said, future, canceled>>

WaitUninterrupted == /\ pc = "waiting" /\ canceled /\ outcomes # {}
                     /\ GiveBack("canceled") /\ End({"wait", "execution"})
                     /\ UNCHANGED <<at, reply, waiters, wait, host, said, future, canceled>>

\* A wait for one of the waiters instead of all.
WaitForOne == /\ pc = "loop" /\ ~canceled /\ at.kind = "future"
              /\ at.calls \cap waiters # {}
              /\ pc' = "waiting" /\ Begin("wait")
              /\ waiting'  = {CHOOSE c \in at.calls \cap waiters : TRUE}
              /\ outcomes' = {}
              /\ UNCHANGED <<at, held, reply, waiters, host, said, future, canceled, home, ret>>

\* A promised answer nobody remembers.
ResumeForgetting == /\ pc = "resume"
                    /\ Resume(reply)
                    /\ End(IF canceled THEN {"execution"} ELSE {})
                    /\ UNCHANGED <<at, waiters, wait, host, said, future, canceled>>

-----------------------------------------------------------------------------
(* Rust runs the program with the answers it was given.                    *)

Answered == [c \in Calls |-> CASE reply[c] = None      -> future[c]
                               [] reply[c] = "pending" -> "open"
                               [] reply[c] = "nil"     -> "open"
                               [] OTHER                -> reply[c]]

\* After resumeFutures: an answered call leaves the waiters map, a call whose
\* answer is another promise has the new waiter there.
SettleWaiters ==
  IF at.kind = "future"
  THEN /\ waiters' = {c \in waiters : reply[c] \in {None, "pending"}}
       /\ host'    = [c \in Calls |-> IF reply[c] = "pending" THEN None ELSE host[c]]
  ELSE UNCHANGED <<waiters, host>>

\* Where a program may stop, given what it has of its calls.
Stops(f) == [kind : {"snapshot"}, calls : {{c} : c \in {d \in Calls : f[d] = "new"}}]
            \cup [kind : {"lookup", "complete"}, calls : {{}}]
            \cup [kind : {"future"}, calls : (SUBSET {c \in Calls : f[c] = "open"}) \ {{}}]

\* decode_call_result refuses one of the answers.
Refused == \E c \in Calls : reply[c] = "bad"

Execute == /\ pc = "rust" /\ ~Refused
           /\ \E stop \in Stops(Answered) :
                /\ at' = stop
                /\ held' = (stop.kind # "complete")
                /\ home' = (IF stop.kind = "complete" THEN "back" ELSE home)
                /\ future' = [c \in Calls |-> IF stop.kind = "snapshot" /\ c \in stop.calls
                                              THEN "asked" ELSE Answered[c]]
           /\ SettleWaiters
           /\ pc' = "loop"
           /\ reply' = Quiet
           /\ UNCHANGED <<wait, said, canceled, spans, ret>>

\* The program raises: consumeOpResult has given the session back when
\* dispatchLoop sees the error.  Of a name lookup it restores the owner again.
Raise == /\ pc = "rust" /\ ~Refused
         /\ home' = "back"
         /\ future' = Answered
         /\ Returned("error", at.kind = "lookup")
         /\ End({"execution"})
         /\ UNCHANGED <<at, held, reply, waiters, wait, host, said, canceled>>

\* The call comes back without a REPL: Rust refuses an answer of the host, or
\* it panics, or what it returns is no progress.  consumeOpResult clears the
\* owner, and the handle that was taken for the call is gone.
Fail == /\ pc = "rust"
        /\ home' = "lost"
        /\ Returned(IF Refused THEN "refused" ELSE "failed", at.kind = "lookup")
        /\ End({"execution"})
        /\ UNCHANGED <<at, held, reply, waiters, wait, host, said, future, canceled>>

-----------------------------------------------------------------------------
(* dispatchLoop                                                            *)

Canceled == /\ pc = "loop" /\ canceled
            /\ IF at.kind = "complete"
               THEN Returned("canceled", FALSE) /\ UNCHANGED <<held, home>>
               ELSE GiveBack("canceled")
            /\ End({"execution"})
            /\ UNCHANGED <<at, reply, waiters, wait, host, said, future, canceled>>

Complete == /\ pc = "loop" /\ ~canceled /\ at.kind = "complete"
            /\ Returned("value", FALSE)
            /\ End({"execution"})
            /\ UNCHANGED <<at, held, reply, waiters, wait, host, said, future, canceled, home>>

\* dispatchSnapshot: a function or OS handler is called, if there is one.
Dispatch == /\ pc = "loop" /\ ~canceled /\ at.kind = "snapshot"
            /\ \/ /\ pc' = "callback" /\ Begin("callback")
                  /\ UNCHANGED <<reply, said>>
               \/ /\ pc' = "resume"
                  /\ reply' = [c \in Calls |-> IF c \in at.calls THEN "raise" ELSE None]
                  /\ said' = [c \in Calls |-> IF c \in at.calls THEN {"absent"} ELSE said[c]]
                  /\ UNCHANGED spans
            /\ UNCHANGED <<at, held, waiters, wait, host, future, canceled, home, ret>>

\* The handler answers; normalizeCallbackResult refuses a Pending(nil).
Callback == /\ pc = "callback"
            /\ \/ /\ \E a \in Final \cup {"pending"} :
                       /\ reply' = [c \in Calls |-> IF c \in at.calls THEN a ELSE None]
                       /\ said'  = [c \in Calls |-> said[c] \cup
                                        IF c \in at.calls THEN {a} ELSE {}]
                  /\ pc' = "resume" /\ End({"callback"})
                  /\ UNCHANGED <<held, home, ret>>
               \/ /\ GiveBack("error") /\ End({"callback", "execution"})
                  /\ UNCHANGED <<reply, said>>
            /\ UNCHANGED <<at, waiters, wait, host, future, canceled>>

ResumeCall == /\ pc = "resume"
              /\ waiters' = waiters \cup {c \in at.calls : reply[c] = "pending"}
              /\ Resume(reply)
              /\ End(IF canceled THEN {"execution"} ELSE {})
              /\ UNCHANGED <<at, wait, host, said, future, canceled>>

\* dispatchNameLookup: on a cancelled context resumeLookup gives the session
\* back, and dispatchLoop then tries to do it again.
NameLookup == /\ pc = "loop" /\ ~canceled /\ at.kind = "lookup"
              /\ pc' = "lookup"
              /\ UNCHANGED <<at, held, reply, waiters, wait, host, said, future, canceled, spans,
                             home, ret>>

ResumeLookup == /\ pc = "lookup"
                /\ IF canceled
                   THEN /\ held' = FALSE /\ home' = "back"
                        /\ Returned("canceled", TRUE) /\ End({"execution"})
                        /\ UNCHANGED reply
                   ELSE Resume(Quiet) /\ UNCHANGED spans
                /\ UNCHANGED <<at, waiters, wait, host, said, future, canceled>>

-----------------------------------------------------------------------------
(* waitForFutureResults                                                    *)

NoWaiters == /\ pc = "loop" /\ ~canceled /\ at.kind = "future"
             /\ at.calls \cap waiters = {}
             /\ GiveBack("no waiters") /\ End({"execution"})
             /\ UNCHANGED <<at, reply, waiters, wait, host, said, future, canceled>>

\* One goroutine for each pending call that has a waiter, on a new channel.
\* The goroutines of earlier waits may still run: their channels are garbage.
Wait == /\ pc = "loop" /\ ~canceled /\ at.kind = "future"
        /\ at.calls \cap waiters # {}
        /\ pc' = "waiting" /\ Begin("wait")
        /\ waiting'  = at.calls \cap waiters
        /\ outcomes' = {}
        /\ UNCHANGED <<at, held, reply, waiters, host, said, future, canceled, home, ret>>

\* A waiter returns when the host has answered, or because of the context:
\* what it answers then (a zero Result) is not the host's answer.  When the
\* wait is over nobody reads the channel: it is not modelled further.
WaiterReturns(c) == /\ c \in waiting /\ pc \in {"waiting", "gather"}
                    /\ \/ /\ host[c] # None
                          /\ outcomes' = outcomes \cup {[call |-> c, result |-> host[c]]}
                       \/ /\ canceled
                          /\ outcomes' = outcomes \cup {[call |-> c, result |-> "void"]}
                    /\ waiting'  = waiting \ {c}
                    /\ UNCHANGED <<pc, at, held, reply, waiters, host, said, future, canceled, spans,
                                   home, ret>>

\* The select of the first outcome and, in gather, the drain of the others.
Receive(o) == /\ pc \in {"waiting", "gather"} /\ o \in outcomes
              /\ outcomes' = outcomes \ {o}
              /\ reply' = [reply EXCEPT ![o.call] = o.result]
              /\ pc' = "gather"
              /\ UNCHANGED <<at, held, waiters, waiting, host, said, future, canceled, spans, home, ret>>

WaitCanceled == /\ pc = "waiting" /\ canceled
                /\ GiveBack("canceled") /\ End({"wait", "execution"})
                /\ UNCHANGED <<at, reply, waiters, wait, host, said, future, canceled>>

\* The channel is empty: what came is delivered, the other outcomes are lost,
\* and their waiters are waited for again.
Deliver == /\ pc = "gather" /\ outcomes = {}
           /\ waiting' = {}
           /\ Resume(reply)
           /\ End({"wait"} \cup IF canceled THEN {"execution"} ELSE {})
           /\ UNCHANGED <<at, waiters, outcomes, host, said, future, canceled>>

-----------------------------------------------------------------------------
(* The host.                                                               *)

HostAnswers(c) == /\ c \in waiters /\ host[c] = None
                  /\ \E a \in Final \cup {"pending", "nil"} :
                       /\ host' = [host EXCEPT ![c] = a]
                       /\ said' = [said EXCEPT ![c] = @ \cup {a}]
                  /\ UNCHANGED <<pc, at, held, reply, waiters, wait, future, canceled, spans,
                                 home, ret>>

Cancel == /\ ~canceled /\ pc # "returned"
          /\ canceled' = TRUE
          /\ UNCHANGED <<pc, at, held, reply, waiters, wait, host, said, future, spans, home, ret>>
-----------------------------------------------------------------------------
\* What dispatchLoop does, with Rust and the handlers it calls.
Loop == \/ Execute \/ Raise \/ Fail \/ Canceled \/ Complete \/ Dispatch \/ Callback \/ ResumeCall
        \/ NameLookup \/ ResumeLookup \/ NoWaiters \/ Wait \/ WaitCanceled \/ Deliver
        \/ \E o \in outcomes : Receive(o)

Next == \/ Loop \/ Cancel
        \/ \E c \in Calls : WaiterReturns(c) \/ HostAnswers(c)

\* Rust and the handlers return, and so does a waiter whose host has answered.
Fairness == /\ WF_vars(Loop)
            /\ \A c \in Calls : SF_vars(host[c] # None /\ WaiterReturns(c))

Spec     == Init /\ [][Next]_vars
FairSpec == Spec /\ Fairness

-----------------------------------------------------------------------------
Replies == [Calls -> Final \cup {None, "pending", "nil", "void"}]
Returns == [kind : {None, "value", "error", "canceled", "no waiters", "refused", "failed"},
            closed : BOOLEAN]

\* The shape of the state; in particular, a program never gets a zero Result,
\* nor an answer that Rust could not decode.
TypeOK == /\ pc \in {"rust", "loop", "callback", "resume", "lookup", "waiting", "gather", "returned"}
          /\ at \in [kind : {"start", "snapshot", "lookup", "future", "complete"},
                     calls : SUBSET Calls]
          /\ held \in BOOLEAN /\ canceled \in BOOLEAN
          /\ home \in {"away", "back", "lost"}
          /\ reply \in Replies
          /\ host \in [Calls -> Final \cup {None, "pending", "nil"}]
          /\ said \in [Calls -> SUBSET (Final \cup {"pending", "nil", "absent"})]
          /\ waiters \subseteq Calls /\ waiting \subseteq Calls
          /\ outcomes \subseteq [call : Calls, result : Final \cup {"pending", "nil", "void"}]
          /\ future \in [Calls -> Answers \cup {"new", "asked", "open"}]
          /\ spans \subseteq {"execution", "callback", "wait"}
          /\ ret \in Returns

\* Every way out of the loop gives the session back, whatever the program, the
\* host and the canceler did: it is lost only if Rust itself failed, or if the
\* host said what Rust cannot decode.  The loop never gives the session back,
\* or loses it, while the program still needs it.
SessionComesBack == /\ pc = "returned" => home # "away"
                    /\ home = "lost" => \/ ret.kind = "failed"
                                        \/ /\ ret.kind = "refused"
                                           /\ \E c \in Calls : "bad" \in said[c]
                    /\ home # "away" => ~held /\ (pc = "returned" \/ at.kind = "complete")

\* No span outlives the work it measures, on any way out.
SpansEnd == /\ "callback" \in spans => pc = "callback"
            /\ "wait" \in spans => pc \in {"waiting", "gather"}
            /\ pc = "returned" => spans = {}

\* What was promised to the program has a waiter, unless the last one promised
\* a nil waiter: only then is a program told that nobody will answer.
PromisesAreKept == /\ pc = "loop" => \A c \in Open \ waiters : host[c] = "nil"
                   /\ ret.kind = "no waiters" => \E c \in at.calls : host[c] = "nil"

\* Cancelling the context ends the run, even if no waiter ever answers.
CancelReturns == canceled ~> pc = "returned"

\* A program that waits for a call again and again gets the answer the host has
\* given, although a wait keeps only the outcomes that are there when the first
\* one comes, and other waiters may go on promising for ever.
AnswersArrive == \A c \in Calls :
  []<>(pc = "waiting" /\ c \in at.calls /\ host[c] \in Answers)
     => <>(future[c] \in Answers \/ pc = "returned")

\* "ErrClosed reports that a handle-backed object no longer owns a native
\* handle" (runner.go), and what FeedRun is called on is the Repl.
ErrClosedMeansClosed == pc = "returned" /\ ret.closed => home # "back"

\* The loop implements what is promised about host calls.
Contract == INSTANCE HostCalls WITH over <- pc = "returned"
ImplementsHostCalls == Contract!Spec
=============================================================================
