---------------------------- MODULE DispatchProofs ----------------------------
(***************************************************************************)
(* Proofs about Dispatch, for any number of calls: the session comes back  *)
(* on every way out of the loop but those on which Rust keeps it, no       *)
(* telemetry span is left open, promises keep their waiters, and the loop  *)
(* implements HostCalls.                                                   *)
(***************************************************************************)
EXTENDS Dispatch, TLAPS

(***************************************************************************)
(* The inductive invariant: what each place of the loop says of the        *)
(* progress value, of the handle and of the answers under way.             *)
(***************************************************************************)

\* Which progress the loop is about at each place, and the calls it names.
Place == /\ pc \in {"callback", "resume"} => at.kind = "snapshot"
         /\ pc = "lookup" => at.kind = "lookup"
         /\ pc \in {"waiting", "gather"} => at.kind = "future"
         /\ pc = "rust" => at.kind # "complete"
         /\ at.kind \in {"start", "lookup", "complete"} => at.calls = {}
         /\ at.kind = "snapshot" => \E c \in Calls : at.calls = {c}

\* The session is with the handle, with Rust or with its Repl, and nothing is
\* returned before the end.
Hands == /\ pc = "rust" => ~held /\ home = "away"
         /\ pc \in {"callback", "resume", "lookup", "waiting", "gather"} => held
         /\ pc = "loop" => IF at.kind = "complete" THEN home = "back" ELSE held
         /\ pc # "returned" => ret.kind = None

\* What the program has of the calls the progress names.
Named == pc # "returned" =>
           /\ at.kind = "snapshot" => \A c \in at.calls : future[c] = "asked"
           /\ at.kind = "future" => at.calls # {} /\ at.calls \subseteq Open

\* A goroutine, an outcome and an answer of a wait are about a call that the
\* wait names and that has a waiter; a zero Result needs a cancelled context.
Outcomes == pc \in {"waiting", "gather"} =>
              /\ waiting \subseteq at.calls \cap waiters
              /\ \A o \in outcomes : /\ o.call \in at.calls \cap waiters
                                     /\ o.result \in {host[o.call], "void"}
                                     /\ o.result = "void" => canceled

Replied == /\ pc \in {"loop", "callback", "lookup", "waiting"} => reply = Quiet
           /\ pc = "resume" => \A c \in Calls : reply[c] # None =>
                c \in at.calls /\ reply[c] \in Final \cup {"pending"}
           /\ pc = "gather" => \A c \in Calls : reply[c] # None =>
                /\ c \in at.calls \cap waiters
                /\ reply[c] \in {host[c], "void"}
                /\ reply[c] = "void" => canceled
           /\ pc = "rust" => \A c \in Calls : reply[c] # None =>
                /\ c \in at.calls
                /\ reply[c] \in Final \cup {"pending", "nil"}
                /\ reply[c] = "pending" => c \in waiters
                /\ reply[c] = "nil" => host[c] = "nil"
                /\ at.kind = "future" => reply[c] = host[c]

\* What was promised has a waiter, or the last waiter promised a nil one.
Kept == pc # "returned" => \A c \in Open \ waiters : host[c] = "nil"

\* Nothing is said of a call before the program makes it, nor of the call in
\* hand before its handler is called.
Unspoken == \A c \in Calls :
  /\ future[c] = "new" => said[c] = {} /\ host[c] = None /\ c \notin waiters
  /\ pc \in {"loop", "callback"} /\ at.kind = "snapshot" /\ c \in at.calls => said[c] = {}
  /\ pc \in {"loop", "callback", "resume"} /\ at.kind = "snapshot" /\ c \in at.calls =>
       host[c] = None /\ c \notin waiters

\* A waiter whose host has not answered is of a call without its answer.
Listening == \A c \in Calls :
  /\ c \in waiters /\ host[c] = None =>
       future[c] \in {"asked", "open"} /\ said[c] \subseteq {"pending", "nil"}
  /\ host[c] \in {"pending", "nil"} => said[c] \subseteq {"pending", "nil"}
  /\ host[c] # None => host[c] \in said[c]

\* What is on its way to the program was said of that very call.
Truthful == pc \in {"resume", "rust"} => \A c \in Calls : reply[c] # None =>
  /\ reply[c] \in said[c] \/ (reply[c] = "raise" /\ "absent" \in said[c])
  /\ at.kind = "snapshot" /\ reply[c] = "pending" /\ pc = "resume" => said[c] = {"pending"}
  /\ at.kind = "snapshot" /\ reply[c] \in Final => c \notin waiters
  /\ at.kind = "snapshot" => reply[c] # "nil"

IInv == /\ TypeOK /\ SessionComesBack /\ SpansEnd /\ PromisesAreKept
        /\ Place /\ Hands /\ Named /\ Outcomes /\ Replied /\ Kept
        /\ Unspoken /\ Listening /\ Truthful

-----------------------------------------------------------------------------
(* Facts about one step that the lemmas below share.                       *)

\* Wherever the loop gives the session back, it has it.
LEMMA GivesBack ==
  ASSUME NEW k, TypeOK, held, GiveBack(k)
  PROVE  /\ home' = "back" /\ held' = FALSE /\ pc' = "returned"
         /\ ret' = [kind |-> k, closed |-> FALSE]
<1>1. (~held) = FALSE
  OBVIOUS
<1> QED
  BY <1>1 DEF GiveBack, Returned

\* What a method returns has the shape of an answer.
LEMMA ReturnsType ==
  ASSUME NEW k \in {None, "value", "error", "canceled", "no waiters", "refused", "failed"},
         NEW b \in BOOLEAN
  PROVE  [kind |-> k, closed |-> b] \in Returns
BY DEF Returns

\* A resume either runs the program or, on a cancelled context, gives back.
LEMMA Resumes ==
  ASSUME NEW answers, TypeOK, held, Resume(answers)
  PROVE  \/ /\ canceled /\ home' = "back" /\ held' = FALSE /\ pc' = "returned"
            /\ ret' = [kind |-> "canceled", closed |-> FALSE] /\ reply' = reply
         \/ /\ ~canceled /\ home' = home /\ held' = FALSE /\ pc' = "rust"
            /\ ret' = ret /\ reply' = answers
BY GivesBack DEF Resume

\* A program gets only answers and promises.
LEMMA AnsweredType ==
  ASSUME IInv, pc = "rust", ~Refused
  PROVE  Answered \in [Calls -> Answers \cup {"new", "asked", "open"}]
BY DEF IInv, TypeOK, Replied, Refused, Answered, Replies, Final, Answers, None

\* Where a program stops, it has what the stop says of its calls.
LEMMA StopShape ==
  ASSUME NEW f, NEW stop \in Stops(f)
  PROVE  /\ stop.kind \in {"snapshot", "lookup", "future", "complete"}
         /\ stop.calls \subseteq Calls
         /\ stop.kind \in {"lookup", "complete"} => stop.calls = {}
         /\ stop.kind = "snapshot" => \E c \in Calls : stop.calls = {c} /\ f[c] = "new"
         /\ stop.kind = "future" =>
              stop.calls # {} /\ \A c \in stop.calls : f[c] = "open"
<1>1. CASE stop \in [kind : {"snapshot"}, calls : {{c} : c \in {d \in Calls : f[d] = "new"}}]
  BY <1>1
<1>2. CASE stop \in [kind : {"lookup", "complete"}, calls : {{}}]
  BY <1>2
<1>3. CASE stop \in [kind : {"future"}, calls : (SUBSET {c \in Calls : f[c] = "open"}) \ {{}}]
  BY <1>3
<1> QED
  BY <1>1, <1>2, <1>3 DEF Stops

-----------------------------------------------------------------------------
(* Every step keeps the shape of the state.                                *)

LEMMA TypeStep == IInv /\ [Next]_vars => TypeOK'
<1> SUFFICES ASSUME IInv, [Next]_vars PROVE TypeOK'
  OBVIOUS
<1> USE DEF IInv, TypeOK, Begin, End, wait, None
<1>1. CASE Canceled \/ Complete \/ NoWaiters \/ WaitCanceled
  <2>1. CASE Complete \/ (Canceled /\ at.kind = "complete")
    BY <1>1, <2>1, ReturnsType DEF Canceled, Complete, Returned, NoWaiters, WaitCanceled
  <2>2. CASE NoWaiters \/ WaitCanceled \/ (Canceled /\ at.kind # "complete")
    BY <2>2, GivesBack, ReturnsType DEF Canceled, NoWaiters, WaitCanceled, Hands, Place
  <2> QED
    BY <1>1, <2>1, <2>2
<1>2. CASE ResumeCall \/ ResumeLookup \/ Deliver
  <2>1. CASE ResumeCall \/ Deliver
    BY <2>1, Resumes, ReturnsType DEF ResumeCall, Deliver, Hands
  <2>2. CASE ResumeLookup /\ canceled
    BY <2>2, ReturnsType DEF ResumeLookup, Returned
  <2>3. CASE ResumeLookup /\ ~canceled
    <3>1. Quiet \in Replies
      BY DEF Quiet, Replies
    <3> QED
      BY <2>3, <3>1, Resumes DEF ResumeLookup, Hands
  <2> QED
    BY <1>2, <2>1, <2>2, <2>3
<1>3. CASE Execute
  <2>1. PICK stop \in Stops(Answered) :
             /\ at' = stop
             /\ held' = (stop.kind # "complete")
             /\ home' = IF stop.kind = "complete" THEN "back" ELSE home
             /\ future' = [c \in Calls |-> IF stop.kind = "snapshot" /\ c \in stop.calls
                                           THEN "asked" ELSE Answered[c]]
    BY <1>3 DEF Execute
  <2>2. at' \in [kind : {"start", "snapshot", "lookup", "future", "complete"},
                 calls : SUBSET Calls]
    BY <2>1 DEF Stops
  <2>3. future' \in [Calls -> Answers \cup {"new", "asked", "open"}]
    BY <1>3, <2>1, AnsweredType DEF Execute
  <2>4. held' \in BOOLEAN /\ home' \in {"away", "back", "lost"}
    BY <2>1
  <2>5. waiters' \subseteq Calls /\ host' \in [Calls -> Final \cup {None, "pending", "nil"}]
    BY <1>3 DEF Execute, SettleWaiters
  <2>6. reply' \in Replies
    BY <1>3 DEF Execute, Quiet, Replies
  <2> QED
    BY <1>3, <2>2, <2>3, <2>4, <2>5, <2>6 DEF Execute
<1>4. CASE Raise \/ Fail
  <2>1. CASE Raise
    BY <2>1, AnsweredType, ReturnsType DEF Raise, Returned
  <2>2. CASE Fail
    <3>1. ret' \in Returns
      BY <2>2, ReturnsType DEF Fail, Returned
    <3> QED
      BY <2>2, <3>1 DEF Fail, Returned
  <2> QED
    BY <1>4, <2>1, <2>2
<1>5. CASE Dispatch \/ NameLookup
  <2>1. reply' \in Replies
    BY <1>5 DEF Dispatch, NameLookup, Replies, Final, Answers
  <2>2. said' \in [Calls -> SUBSET (Final \cup {"pending", "nil", "absent"})]
    BY <1>5 DEF Dispatch, NameLookup
  <2> QED
    BY <1>5, <2>1, <2>2 DEF Dispatch, NameLookup
<1>6. CASE Callback
  <2>1. CASE GiveBack("error")
    BY <1>6, <2>1, GivesBack, ReturnsType DEF Callback, Hands
  <2>2. CASE pc' = "resume"
    <3>1. PICK a \in Final \cup {"pending"} :
               /\ reply' = [c \in Calls |-> IF c \in at.calls THEN a ELSE None]
               /\ said'  = [c \in Calls |-> said[c] \cup IF c \in at.calls THEN {a} ELSE {}]
      BY <1>6, <2>2 DEF Callback, GiveBack, Returned
    <3>2. reply' \in Replies
      BY <3>1 DEF Replies
    <3>3. said' \in [Calls -> SUBSET (Final \cup {"pending", "nil", "absent"})]
      BY <3>1
    <3> QED
      BY <1>6, <2>2, <3>2, <3>3 DEF Callback, GiveBack, Returned
  <2> QED
    BY <1>6, <2>1, <2>2 DEF Callback
<1>7. CASE Wait
  BY <1>7 DEF Wait
<1>8. ASSUME NEW c \in Calls, WaiterReturns(c) PROVE TypeOK'
  <2>1. host[c] \in Final \cup {"pending", "nil", "void"} \/ host[c] = None
    OBVIOUS
  <2>2. outcomes' \subseteq [call : Calls, result : Final \cup {"pending", "nil", "void"}]
    BY <1>8, <2>1 DEF WaiterReturns
  <2> QED
    BY <1>8, <2>2 DEF WaiterReturns
<1>9. ASSUME NEW o \in outcomes, Receive(o) PROVE TypeOK'
  BY <1>9 DEF Receive, Replies
<1>10. ASSUME NEW c \in Calls, HostAnswers(c) PROVE TypeOK'
  <2>1. said' \in [Calls -> SUBSET (Final \cup {"pending", "nil", "absent"})]
    BY <1>10 DEF HostAnswers
  <2> QED
    BY <1>10, <2>1 DEF HostAnswers
<1>11. CASE Cancel
  BY <1>11 DEF Cancel
<1>12. CASE UNCHANGED vars
  BY <1>12 DEF vars
<1> QED
  BY <1>1, <1>2, <1>3, <1>4, <1>5, <1>6, <1>7, <1>8, <1>9, <1>10, <1>11, <1>12 DEF Next, Loop

-----------------------------------------------------------------------------
(* Every step keeps what each place of the loop says of the state.         *)

LEMMA PlaceStep == IInv /\ [Next]_vars => Place'
<1> SUFFICES ASSUME IInv, [Next]_vars PROVE Place'
  OBVIOUS
<1> USE DEF IInv, TypeOK, wait, Place, Hands, Stops
<1>1. CASE Complete \/ (Canceled /\ at.kind = "complete")
  BY <1>1 DEF Complete, Canceled, Returned
<1>2. CASE NoWaiters \/ WaitCanceled \/ (Canceled /\ at.kind # "complete")
  BY <1>2, GivesBack DEF NoWaiters, WaitCanceled, Canceled
<1>3. CASE ResumeCall \/ Deliver \/ (ResumeLookup /\ ~canceled)
  BY <1>3, Resumes DEF ResumeCall, Deliver, ResumeLookup
<1>4. CASE ResumeLookup /\ canceled
  BY <1>4 DEF ResumeLookup, Returned
<1>5. CASE Execute
  BY <1>5 DEF Execute
<1>6. CASE Raise \/ Fail
  BY <1>6 DEF Raise, Fail, Returned
<1>7. CASE Dispatch \/ NameLookup
  BY <1>7 DEF Dispatch, NameLookup
<1>8. CASE Callback /\ GiveBack("error")
  BY <1>8, GivesBack DEF Callback
<1>9. CASE Callback /\ pc' = "resume"
  BY <1>9 DEF Callback, GiveBack, Returned
<1>10. CASE Wait
  BY <1>10 DEF Wait
<1>11. ASSUME NEW c \in Calls, WaiterReturns(c) PROVE Place'
  BY <1>11 DEF WaiterReturns
<1>12. ASSUME NEW o \in outcomes, Receive(o) PROVE Place'
  BY <1>12 DEF Receive
<1>13. ASSUME NEW c \in Calls, HostAnswers(c) PROVE Place'
  BY <1>13 DEF HostAnswers
<1>14. CASE Cancel \/ UNCHANGED vars
  BY <1>14 DEF Cancel, vars
<1> QED
  BY <1>1, <1>2, <1>3, <1>4, <1>5, <1>6, <1>7, <1>8, <1>9, <1>10, <1>11, <1>12, <1>13, <1>14 DEF Next, Loop, Callback

LEMMA HandsStep == IInv /\ [Next]_vars => Hands'
<1> SUFFICES ASSUME IInv, [Next]_vars PROVE Hands'
  OBVIOUS
<1> USE DEF IInv, TypeOK, wait, Place, Hands, SessionComesBack, Stops, None
<1>1. CASE Complete \/ (Canceled /\ at.kind = "complete")
  BY <1>1 DEF Complete, Canceled, Returned
<1>2. CASE NoWaiters \/ WaitCanceled \/ (Canceled /\ at.kind # "complete")
  BY <1>2, GivesBack DEF NoWaiters, WaitCanceled, Canceled
<1>3. CASE ResumeCall \/ Deliver \/ (ResumeLookup /\ ~canceled)
  BY <1>3, Resumes DEF ResumeCall, Deliver, ResumeLookup
<1>4. CASE ResumeLookup /\ canceled
  BY <1>4 DEF ResumeLookup, Returned
<1>5. CASE Execute
  BY <1>5 DEF Execute
<1>6. CASE Raise \/ Fail
  BY <1>6 DEF Raise, Fail, Returned
<1>7. CASE Dispatch \/ NameLookup
  BY <1>7 DEF Dispatch, NameLookup
<1>8. CASE Callback /\ GiveBack("error")
  BY <1>8, GivesBack DEF Callback
<1>9. CASE Callback /\ pc' = "resume"
  BY <1>9 DEF Callback, GiveBack, Returned
<1>10. CASE Wait
  BY <1>10 DEF Wait
<1>11. ASSUME NEW c \in Calls, WaiterReturns(c) PROVE Hands'
  BY <1>11 DEF WaiterReturns
<1>12. ASSUME NEW o \in outcomes, Receive(o) PROVE Hands'
  BY <1>12 DEF Receive
<1>13. ASSUME NEW c \in Calls, HostAnswers(c) PROVE Hands'
  BY <1>13 DEF HostAnswers
<1>14. CASE Cancel \/ UNCHANGED vars
  BY <1>14 DEF Cancel, vars
<1> QED
  BY <1>1, <1>2, <1>3, <1>4, <1>5, <1>6, <1>7, <1>8, <1>9, <1>10, <1>11, <1>12, <1>13, <1>14 DEF Next, Loop, Callback

\* The ways out of the loop give the session back.
LEMMA SessionComesBackStep == IInv /\ [Next]_vars => SessionComesBack'
<1> SUFFICES ASSUME IInv, [Next]_vars PROVE SessionComesBack'
  OBVIOUS
<1> USE DEF IInv, TypeOK, wait, Place, Hands, SessionComesBack
<1>1. CASE Complete \/ (Canceled /\ at.kind = "complete")
  BY <1>1 DEF Complete, Canceled, Returned
<1>2. CASE NoWaiters \/ WaitCanceled \/ (Canceled /\ at.kind # "complete")
  BY <1>2, GivesBack DEF NoWaiters, WaitCanceled, Canceled
<1>3. CASE ResumeCall \/ Deliver \/ (ResumeLookup /\ ~canceled)
  BY <1>3, Resumes DEF ResumeCall, Deliver, ResumeLookup
<1>4. CASE ResumeLookup /\ canceled
  BY <1>4 DEF ResumeLookup, Returned
<1>5. CASE Execute
  BY <1>5 DEF Execute
<1>6. CASE Raise
  BY <1>6 DEF Raise, Returned
<1>15. CASE Fail
  <2>1. Refused => \E c \in Calls : "bad" \in said[c]
    BY <1>15 DEF Fail, Refused, Truthful, None
  <2>2. /\ pc' = "returned" /\ home' = "lost" /\ held' = held /\ said' = said
        /\ ret'.kind = IF Refused THEN "refused" ELSE "failed"
    BY <1>15 DEF Fail, Returned
  <2> QED
    BY <1>15, <2>1, <2>2 DEF Fail
<1>7. CASE Dispatch \/ NameLookup
  BY <1>7 DEF Dispatch, NameLookup
<1>8. CASE Callback /\ GiveBack("error")
  BY <1>8, GivesBack DEF Callback
<1>9. CASE Callback /\ pc' = "resume"
  BY <1>9 DEF Callback, GiveBack, Returned
<1>10. CASE Wait
  BY <1>10 DEF Wait
<1>11. ASSUME NEW c \in Calls, WaiterReturns(c) PROVE SessionComesBack'
  BY <1>11 DEF WaiterReturns
<1>12. ASSUME NEW o \in outcomes, Receive(o) PROVE SessionComesBack'
  BY <1>12 DEF Receive
<1>13. ASSUME NEW c \in Calls, HostAnswers(c) PROVE SessionComesBack'
  BY <1>13 DEF HostAnswers
<1>14. CASE Cancel \/ UNCHANGED vars
  BY <1>14 DEF Cancel, vars
<1> QED
  BY <1>1, <1>2, <1>3, <1>4, <1>5, <1>6, <1>7, <1>8, <1>9, <1>10, <1>11, <1>12, <1>13, <1>14, <1>15 DEF Next, Loop, Callback

\* A set without any of the three spans is empty.
LEMMA NoSpans ==
  ASSUME NEW S \in SUBSET {"execution", "callback", "wait"},
         "execution" \notin S, "callback" \notin S, "wait" \notin S
  PROVE  S = {}
OBVIOUS

LEMMA SpansEndStep == IInv /\ [Next]_vars => SpansEnd'
<1> SUFFICES ASSUME IInv, [Next]_vars PROVE SpansEnd'
  OBVIOUS
<1> USE DEF IInv, TypeOK, Begin, End, wait, Place, Hands, SpansEnd
<1>1. CASE Complete \/ (Canceled /\ at.kind = "complete")
  BY <1>1, NoSpans DEF Complete, Canceled, Returned
<1>2. CASE NoWaiters \/ WaitCanceled \/ (Canceled /\ at.kind # "complete")
  BY <1>2, NoSpans, GivesBack DEF NoWaiters, WaitCanceled, Canceled
<1>3. CASE ResumeCall \/ Deliver \/ (ResumeLookup /\ ~canceled)
  <2>1. CASE ResumeCall
    <3>1. CASE canceled
      <4>1. spans' = spans \ {"execution"} /\ spans' = {}
        BY <2>1, <3>1, NoSpans DEF ResumeCall
      <4> QED
        BY <4>1
    <3>2. CASE ~canceled
      <4>1. pc' = "rust" /\ spans' = spans
        BY <2>1, <3>2, Resumes DEF ResumeCall
      <4> QED
        BY <2>1, <4>1 DEF ResumeCall
    <3> QED
      BY <3>1, <3>2
  <2>2. CASE Deliver
    <3>1. CASE canceled
      <4>1. spans' = spans \ {"wait", "execution"} /\ spans' = {}
        BY <2>2, <3>1, NoSpans DEF Deliver
      <4> QED
        BY <4>1
    <3>2. CASE ~canceled
      <4>1. pc' = "rust" /\ spans' = spans \ {"wait"}
        BY <2>2, <3>2, Resumes DEF Deliver
      <4> QED
        BY <2>2, <4>1 DEF Deliver
    <3> QED
      BY <3>1, <3>2
  <2>3. CASE ResumeLookup /\ ~canceled
    BY <2>3, NoSpans, Resumes DEF ResumeLookup
  <2> QED
    BY <1>3, <2>1, <2>2, <2>3
<1>4. CASE ResumeLookup /\ canceled
  BY <1>4, NoSpans DEF ResumeLookup, Returned
<1>5. CASE Execute
  BY <1>5 DEF Execute
<1>6. CASE Raise \/ Fail
  BY <1>6, NoSpans DEF Raise, Fail, Returned
<1>7. CASE Dispatch \/ NameLookup
  BY <1>7 DEF Dispatch, NameLookup
<1>8. CASE Callback /\ GiveBack("error")
  BY <1>8, NoSpans, GivesBack DEF Callback
<1>9. CASE Callback /\ pc' = "resume"
  BY <1>9 DEF Callback, GiveBack, Returned
<1>10. CASE Wait
  BY <1>10 DEF Wait
<1>11. ASSUME NEW c \in Calls, WaiterReturns(c) PROVE SpansEnd'
  BY <1>11 DEF WaiterReturns
<1>12. ASSUME NEW o \in outcomes, Receive(o) PROVE SpansEnd'
  BY <1>12 DEF Receive
<1>13. ASSUME NEW c \in Calls, HostAnswers(c) PROVE SpansEnd'
  BY <1>13 DEF HostAnswers
<1>14. CASE Cancel \/ UNCHANGED vars
  BY <1>14 DEF Cancel, vars
<1> QED
  BY <1>1, <1>2, <1>3, <1>4, <1>5, <1>6, <1>7, <1>8, <1>9, <1>10, <1>11, <1>12, <1>13, <1>14 DEF Next, Loop, Callback

-----------------------------------------------------------------------------
(* Every step keeps what is said of calls, outcomes and answers.           *)

LEMMA NamedStep == IInv /\ [Next]_vars => Named'
<1> SUFFICES ASSUME IInv, [Next]_vars PROVE Named'
  OBVIOUS
<1> USE DEF IInv, TypeOK, wait, Place, Hands, Named, Open
<1>1. CASE Complete \/ (Canceled /\ at.kind = "complete")
  BY <1>1 DEF Complete, Canceled, Returned
<1>2. CASE NoWaiters \/ WaitCanceled \/ (Canceled /\ at.kind # "complete")
  BY <1>2, GivesBack DEF NoWaiters, WaitCanceled, Canceled
<1>3. CASE ResumeCall \/ Deliver \/ (ResumeLookup /\ ~canceled)
  BY <1>3, Resumes DEF ResumeCall, Deliver, ResumeLookup
<1>4. CASE ResumeLookup /\ canceled
  BY <1>4 DEF ResumeLookup, Returned
<1>5. CASE Execute
  <2>1. PICK stop \in Stops(Answered) :
             /\ at' = stop
             /\ future' = [c \in Calls |-> IF stop.kind = "snapshot" /\ c \in stop.calls
                                           THEN "asked" ELSE Answered[c]]
    BY <1>5 DEF Execute
  <2> QED
    BY <1>5, <2>1, StopShape DEF Execute
<1>6. CASE Raise \/ Fail
  BY <1>6 DEF Raise, Fail, Returned
<1>7. CASE Dispatch \/ NameLookup
  BY <1>7 DEF Dispatch, NameLookup
<1>8. CASE Callback /\ GiveBack("error")
  BY <1>8, GivesBack DEF Callback
<1>9. CASE Callback /\ pc' = "resume"
  BY <1>9 DEF Callback, GiveBack, Returned
<1>10. CASE Wait
  BY <1>10 DEF Wait
<1>11. ASSUME NEW c \in Calls, WaiterReturns(c) PROVE Named'
  BY <1>11 DEF WaiterReturns
<1>12. ASSUME NEW o \in outcomes, Receive(o) PROVE Named'
  BY <1>12 DEF Receive
<1>13. ASSUME NEW c \in Calls, HostAnswers(c) PROVE Named'
  BY <1>13 DEF HostAnswers
<1>14. CASE Cancel \/ UNCHANGED vars
  BY <1>14 DEF Cancel, vars
<1> QED
  BY <1>1, <1>2, <1>3, <1>4, <1>5, <1>6, <1>7, <1>8, <1>9, <1>10, <1>11, <1>12, <1>13, <1>14 DEF Next, Loop, Callback

LEMMA OutcomesStep == IInv /\ [Next]_vars => Outcomes'
<1> SUFFICES ASSUME IInv, [Next]_vars PROVE Outcomes'
  OBVIOUS
<1> USE DEF IInv, TypeOK, wait, Place, Hands, Outcomes
<1>1. CASE Complete \/ (Canceled /\ at.kind = "complete")
  BY <1>1 DEF Complete, Canceled, Returned
<1>2. CASE NoWaiters \/ WaitCanceled \/ (Canceled /\ at.kind # "complete")
  BY <1>2, GivesBack DEF NoWaiters, WaitCanceled, Canceled
<1>3. CASE ResumeCall \/ Deliver \/ (ResumeLookup /\ ~canceled)
  BY <1>3, Resumes DEF ResumeCall, Deliver, ResumeLookup
<1>4. CASE ResumeLookup /\ canceled
  BY <1>4 DEF ResumeLookup, Returned
<1>5. CASE Execute
  BY <1>5 DEF Execute
<1>6. CASE Raise \/ Fail
  BY <1>6 DEF Raise, Fail, Returned
<1>7. CASE Dispatch \/ NameLookup
  BY <1>7 DEF Dispatch, NameLookup
<1>8. CASE Callback /\ GiveBack("error")
  BY <1>8, GivesBack DEF Callback
<1>9. CASE Callback /\ pc' = "resume"
  BY <1>9 DEF Callback, GiveBack, Returned
<1>10. CASE Wait
  BY <1>10 DEF Wait
<1>11. ASSUME NEW c \in Calls, WaiterReturns(c) PROVE Outcomes'
  <2>1. PICK r : /\ outcomes' = outcomes \cup {[call |-> c, result |-> r]}
                 /\ r \in {host[c], "void"} /\ (r = "void" => canceled)
    BY <1>11 DEF WaiterReturns, None, Final, Answers
  <2>2. c \in at.calls \cap waiters
    BY <1>11 DEF WaiterReturns
  <2> QED
    BY <1>11, <2>1, <2>2 DEF WaiterReturns
<1>12. ASSUME NEW o \in outcomes, Receive(o) PROVE Outcomes'
  BY <1>12 DEF Receive
<1>13. ASSUME NEW c \in Calls, HostAnswers(c) PROVE Outcomes'
  <2>1. \A o \in outcomes : o.call \in Calls /\ o.result # None
    BY DEF None, Final, Answers
  <2>2. \A d \in Calls : host[d] # None => host'[d] = host[d]
    BY <1>13 DEF HostAnswers
  <2> QED
    BY <1>13, <2>1, <2>2 DEF HostAnswers
<1>14. CASE Cancel \/ UNCHANGED vars
  BY <1>14 DEF Cancel, vars
<1> QED
  BY <1>1, <1>2, <1>3, <1>4, <1>5, <1>6, <1>7, <1>8, <1>9, <1>10, <1>11, <1>12, <1>13, <1>14 DEF Next, Loop, Callback

LEMMA RepliedStep == IInv /\ [Next]_vars => Replied'
<1> SUFFICES ASSUME IInv, [Next]_vars PROVE Replied'
  OBVIOUS
<1> USE DEF IInv, TypeOK, wait, Quiet, Place, Hands, Replied, Outcomes, Open
<1>1. CASE Complete \/ (Canceled /\ at.kind = "complete")
  BY <1>1 DEF Complete, Canceled, Returned
<1>2. CASE NoWaiters \/ WaitCanceled \/ (Canceled /\ at.kind # "complete")
  BY <1>2, GivesBack DEF NoWaiters, WaitCanceled, Canceled
<1>3. CASE ResumeCall \/ Deliver \/ (ResumeLookup /\ ~canceled)
  <2>1. CASE ResumeCall
    BY <2>1, Resumes DEF ResumeCall, None, Final, Answers
  <2>2. CASE Deliver
    <3>1. \A c \in Calls : reply[c] # None /\ ~canceled =>
            /\ c \in at.calls \cap waiters /\ reply[c] = host[c]
            /\ reply[c] \in Final \cup {"pending", "nil"}
      BY <2>2 DEF Deliver, Final, Answers, None
    <3>2. /\ pc' = "returned" \/ (pc' = "rust" /\ ~canceled /\ reply' = reply)
          /\ UNCHANGED <<at, waiters, host>>
      BY <2>2, Resumes DEF Deliver
    <3> QED
      BY <3>1, <3>2
  <2>3. CASE ResumeLookup /\ ~canceled
    <3>1. Resume(Quiet) /\ held
      BY <2>3 DEF ResumeLookup
    <3>2. pc' = "rust" /\ reply' = Quiet
      BY <2>3, <3>1, Resumes
    <3> QED
      BY <3>2
  <2> QED
    BY <1>3, <2>1, <2>2, <2>3
<1>4. CASE ResumeLookup /\ canceled
  BY <1>4 DEF ResumeLookup, Returned
<1>5. CASE Execute
  BY <1>5 DEF Execute
<1>6. CASE Raise \/ Fail
  BY <1>6 DEF Raise, Fail, Returned
<1>7. CASE Dispatch \/ NameLookup
  BY <1>7 DEF Dispatch, NameLookup, None, Final, Answers
<1>8. CASE Callback /\ GiveBack("error")
  BY <1>8, GivesBack DEF Callback
<1>9. CASE Callback /\ pc' = "resume"
  BY <1>9 DEF Callback, GiveBack, Returned
<1>10. CASE Wait
  BY <1>10 DEF Wait
<1>11. ASSUME NEW c \in Calls, WaiterReturns(c) PROVE Replied'
  BY <1>11 DEF WaiterReturns
<1>12. ASSUME NEW o \in outcomes, Receive(o) PROVE Replied'
  BY <1>12 DEF Receive
<1>13. ASSUME NEW c \in Calls, HostAnswers(c) PROVE Replied'
  BY <1>13 DEF HostAnswers
<1>14. CASE Cancel \/ UNCHANGED vars
  BY <1>14 DEF Cancel, vars
<1> QED
  BY <1>1, <1>2, <1>3, <1>4, <1>5, <1>6, <1>7, <1>8, <1>9, <1>10, <1>11, <1>12, <1>13, <1>14 DEF Next, Loop, Callback

\* A promise loses its waiter only with an answer or a nil promise.
LEMMA KeptStep == IInv /\ [Next]_vars => Kept'
<1> SUFFICES ASSUME IInv, [Next]_vars PROVE Kept'
  OBVIOUS
<1> USE DEF IInv, TypeOK, wait, Place, Hands, Replied, Named, Kept, Open, Answered, SettleWaiters
<1>1. CASE Complete \/ (Canceled /\ at.kind = "complete")
  BY <1>1 DEF Complete, Canceled, Returned
<1>2. CASE NoWaiters \/ WaitCanceled \/ (Canceled /\ at.kind # "complete")
  BY <1>2, GivesBack DEF NoWaiters, WaitCanceled, Canceled
<1>3. CASE ResumeCall \/ Deliver \/ (ResumeLookup /\ ~canceled)
  BY <1>3, Resumes DEF ResumeCall, Deliver, ResumeLookup
<1>4. CASE ResumeLookup /\ canceled
  BY <1>4 DEF ResumeLookup, Returned
<1>5. CASE Execute
  <2> SUFFICES ASSUME NEW c \in Calls, future'[c] = "open", c \notin waiters'
               PROVE  host'[c] = "nil"
    BY DEF Kept, Open
  <2>1. Answered[c] = "open" /\ c \in Calls
    BY <1>5 DEF Execute
  <2>2. CASE reply[c] = None
    <3>1. future[c] = "open" /\ c \notin waiters
      BY <1>5, <2>1, <2>2 DEF Execute, Answered, SettleWaiters, None
    <3>2. host'[c] = host[c]
      BY <1>5, <2>2 DEF Execute, SettleWaiters, None
    <3> QED
      BY <1>5, <3>1, <3>2 DEF Execute
  <2>3. CASE reply[c] = "pending"
    BY <1>5, <2>3 DEF Execute, SettleWaiters, None
  <2>4. CASE reply[c] = "nil"
    BY <1>5, <2>4 DEF Execute, SettleWaiters, None
  <2>5. reply[c] \in Answers => Answered[c] # "open"
    BY DEF Answered, Answers, None
  <2> QED
    <3>1. reply[c] \in Answers \cup {None, "pending", "nil"}
      BY <1>5 DEF Execute, Refused, Final, Replies
    <3> QED
      BY <2>1, <2>2, <2>3, <2>4, <2>5, <3>1
<1>6. CASE Raise \/ Fail
  BY <1>6 DEF Raise, Fail, Returned
<1>7. CASE Dispatch \/ NameLookup
  BY <1>7 DEF Dispatch, NameLookup
<1>8. CASE Callback /\ GiveBack("error")
  BY <1>8, GivesBack DEF Callback
<1>9. CASE Callback /\ pc' = "resume"
  BY <1>9 DEF Callback, GiveBack, Returned
<1>10. CASE Wait
  BY <1>10 DEF Wait
<1>11. ASSUME NEW c \in Calls, WaiterReturns(c) PROVE Kept'
  BY <1>11 DEF WaiterReturns
<1>12. ASSUME NEW o \in outcomes, Receive(o) PROVE Kept'
  BY <1>12 DEF Receive
<1>13. ASSUME NEW c \in Calls, HostAnswers(c) PROVE Kept'
  BY <1>13 DEF HostAnswers
<1>14. CASE Cancel \/ UNCHANGED vars
  BY <1>14 DEF Cancel, vars
<1> QED
  BY <1>1, <1>2, <1>3, <1>4, <1>5, <1>6, <1>7, <1>8, <1>9, <1>10, <1>11, <1>12, <1>13, <1>14 DEF Next, Loop, Callback

LEMMA PromisesAreKeptStep == IInv /\ [Next]_vars => PromisesAreKept'
<1> SUFFICES ASSUME IInv, [Next]_vars PROVE PromisesAreKept'
  OBVIOUS
<1>1. pc' = "loop" => \A c \in Open' \ waiters' : host'[c] = "nil"
  BY KeptStep DEF Kept
<1>2. SUFFICES ASSUME ret'.kind = "no waiters"
               PROVE  \E c \in at'.calls : host'[c] = "nil"
  BY <1>1 DEF PromisesAreKept
<1>3. pc' = "returned"
  BY <1>2, HandsStep DEF Hands, None
<1>4. CASE pc = "returned"
  <2>1. UNCHANGED vars \/ \E c \in Calls : HostAnswers(c)
    BY <1>4 DEF Next, Loop, Cancel, WaiterReturns, Execute, Raise, Fail, Canceled, Complete, Dispatch,
                Callback, ResumeCall, NameLookup, ResumeLookup, NoWaiters, Wait, WaitCanceled,
                Deliver, Receive
  <2>2. \A c \in Calls : host[c] = "nil" => host'[c] = "nil"
    BY <2>1 DEF IInv, TypeOK, HostAnswers, vars, None
  <2>3. at' = at /\ ret' = ret /\ at.calls \subseteq Calls
    BY <2>1 DEF HostAnswers, vars, IInv, TypeOK
  <2> QED
    BY <1>2, <2>2, <2>3 DEF IInv, PromisesAreKept
<1>5. CASE NoWaiters
  BY <1>5 DEF IInv, NoWaiters, Named, Kept, Open
<1>6. CASE pc # "returned" /\ ~NoWaiters
  <2>1. \E k \in {"value", "error", "canceled", "refused", "failed"}, b \in BOOLEAN : ret' = [kind |-> k, closed |-> b]
    <3>1. CASE Complete \/ Raise \/ Fail \/ (Canceled /\ at.kind = "complete") \/ (ResumeLookup /\ canceled)
      BY <3>1 DEF Complete, Raise, Fail, Canceled, ResumeLookup, Returned, IInv, TypeOK
    <3>2. CASE WaitCanceled \/ (Canceled /\ at.kind # "complete") \/ Callback
      BY <1>3, <3>2, GivesBack DEF WaitCanceled, Canceled, Callback, IInv, Hands
    <3>3. CASE ResumeCall \/ Deliver \/ (ResumeLookup /\ ~canceled)
      BY <1>3, <3>3, Resumes DEF ResumeCall, Deliver, ResumeLookup, IInv, Hands
    <3> QED
      BY <1>3, <1>6, <3>1, <3>2, <3>3
      DEF Next, Loop, Execute, Dispatch, NameLookup, Wait, Cancel, WaiterReturns, Receive,
          HostAnswers, vars
  <2>2. PICK k \in {"value", "error", "canceled", "refused", "failed"}, b \in BOOLEAN :
             ret' = [kind |-> k, closed |-> b]
    BY <2>1
  <2>3. ret'.kind = k
    BY <2>2
  <2> QED
    BY <1>2, <2>3
<1> QED
  BY <1>4, <1>5, <1>6

-----------------------------------------------------------------------------
(* Every step keeps what the answers under way have to do with what was    *)
(* said.                                                                   *)

\* The steps that say nothing and ask nothing: the loop's own.
Silent == UNCHANGED <<said, host, future, waiters>>

LEMMA LoopIsSilent ==
  ASSUME IInv,
         \/ Canceled \/ Complete \/ NameLookup \/ ResumeLookup \/ NoWaiters \/ Wait
         \/ WaitCanceled \/ Deliver \/ Cancel \/ Fail \/ UNCHANGED vars
         \/ \E o \in outcomes : Receive(o)
         \/ \E c \in Calls : WaiterReturns(c)
  PROVE  Silent
BY DEF Silent, Canceled, Complete, NameLookup, ResumeLookup, NoWaiters, Wait, WaitCanceled, Deliver,
       Cancel, Fail, vars, Receive, WaiterReturns

\* Where those steps lead: never to a call that is yet to be dispatched.
LEMMA LoopMovesOn ==
  ASSUME IInv,
         \/ Canceled \/ Complete \/ NameLookup \/ ResumeLookup \/ NoWaiters \/ Wait
         \/ WaitCanceled \/ Deliver \/ Cancel \/ Fail \/ UNCHANGED vars
         \/ \E o \in outcomes : Receive(o)
         \/ \E c \in Calls : WaiterReturns(c)
  PROVE  at' = at /\ (pc' \in {"loop", "callback", "resume"} => pc' = pc)
<1> USE DEF IInv, Hands, Place
<1>1. CASE ResumeLookup \/ Deliver
  BY <1>1, Resumes DEF ResumeLookup, Deliver, Returned
<1>2. CASE Canceled \/ Complete \/ NoWaiters \/ WaitCanceled \/ Fail
  BY <1>2 DEF Canceled, Complete, NoWaiters, WaitCanceled, Fail, GiveBack, Returned
<1>3. CASE NameLookup \/ Wait \/ Cancel \/ UNCHANGED vars
  BY <1>3 DEF NameLookup, Wait, Cancel, vars
<1>4. CASE \/ \E o \in outcomes : Receive(o)
           \/ \E c \in Calls : WaiterReturns(c)
  BY <1>4 DEF Receive, WaiterReturns
<1> QED
  BY <1>1, <1>2, <1>3, <1>4

LEMMA UnspokenStep == IInv /\ [Next]_vars => Unspoken'
<1> SUFFICES ASSUME IInv, [Next]_vars PROVE Unspoken'
  OBVIOUS
<1> USE DEF IInv, TypeOK, wait, Unspoken
<1>1. CASE Execute
  <2>1. PICK stop \in Stops(Answered) :
             /\ at' = stop
             /\ future' = [c \in Calls |-> IF stop.kind = "snapshot" /\ c \in stop.calls
                                           THEN "asked" ELSE Answered[c]]
    BY <1>1 DEF Execute
  <2> SUFFICES ASSUME NEW c \in Calls, \/ future'[c] = "new"
                                       \/ stop.kind = "snapshot" /\ c \in stop.calls
               PROVE  said[c] = {} /\ host'[c] = None /\ c \notin waiters'
    BY <1>1, <2>1 DEF Execute
  <2>2. Answered[c] = "new"
    BY <2>1, StopShape
  <2>3. reply[c] = None /\ future[c] = "new"
    BY <1>1, <2>2 DEF Execute, Answered, Replies, Refused, Final, Answers, None
  <2> QED
    BY <1>1, <2>3 DEF Execute, SettleWaiters, None
<1>2. CASE Raise
  <2>1. \A c \in Calls : future'[c] = "new" => future[c] = "new"
    BY <1>2 DEF Raise, Answered, Replies, Refused, Final, Answers, None
  <2> QED
    BY <1>2, <2>1 DEF Raise, Returned
<1>3. CASE Dispatch
  <2>1. at.calls \cap {c \in Calls : future[c] = "new"} = {}
    BY <1>3 DEF Dispatch, Named
  <2> QED
    BY <1>3, <2>1 DEF Dispatch
<1>4. CASE Callback
  <2>1. \A c \in Calls : future[c] = "new" => c \notin at.calls
    BY <1>4 DEF Callback, Named, Place
  <2>2. ASSUME NEW c \in Calls, c \notin at.calls PROVE said'[c] = said[c]
    <3>1. \/ said' = said
          \/ \E a : said' = [d \in Calls |-> said[d] \cup IF d \in at.calls THEN {a} ELSE {}]
      BY <1>4 DEF Callback
    <3>2. CASE \E a : said' = [d \in Calls |-> said[d] \cup IF d \in at.calls THEN {a} ELSE {}]
      <4>1. said'[c] = said[c] \cup {}
        BY <2>2, <3>2
      <4> QED
        BY <4>1
    <3> QED
      BY <3>1, <3>2
  <2>3. pc' \in {"resume", "returned"}
    BY <1>4 DEF Callback, GiveBack, Returned
  <2> QED
    BY <1>4, <2>1, <2>2, <2>3 DEF Callback
<1>5. CASE ResumeCall
  <2>1. \A c \in Calls : future[c] = "new" => c \notin at.calls
    BY <1>5 DEF ResumeCall, Named, Place
  <2>2. pc' \in {"rust", "returned"}
    BY <1>5, Resumes DEF ResumeCall, Hands
  <2> QED
    BY <1>5, <2>1, <2>2 DEF ResumeCall
<1>6. ASSUME NEW d \in Calls, HostAnswers(d) PROVE Unspoken'
  <2>1. future[d] # "new" /\ (pc \in {"loop", "callback", "resume"} /\ at.kind = "snapshot"
                                => d \notin at.calls)
    BY <1>6 DEF HostAnswers
  <2> QED
    BY <1>6, <2>1 DEF HostAnswers
<1>7. CASE Silent /\ at' = at /\ (pc' \in {"loop", "callback", "resume"} => pc' = pc)
  BY <1>7 DEF Silent
<1> QED
  BY <1>1, <1>2, <1>3, <1>4, <1>5, <1>6, <1>7, LoopIsSilent, LoopMovesOn DEF Next, Loop

LEMMA ListeningStep == IInv /\ [Next]_vars => Listening'
<1> SUFFICES ASSUME IInv, [Next]_vars, NEW c \in Calls
             PROVE  /\ c \in waiters' /\ host'[c] = None =>
                         future'[c] \in {"asked", "open"} /\ said'[c] \subseteq {"pending", "nil"}
                    /\ host'[c] \in {"pending", "nil"} => said'[c] \subseteq {"pending", "nil"}
                    /\ host'[c] # None => host'[c] \in said'[c]
  BY DEF Listening
<1> USE DEF IInv, TypeOK, wait, Listening
<1>0. /\ c \in waiters /\ host[c] = None =>
           future[c] \in {"asked", "open"} /\ said[c] \subseteq {"pending", "nil"}
      /\ host[c] \in {"pending", "nil"} => said[c] \subseteq {"pending", "nil"}
      /\ host[c] # None => host[c] \in said[c]
  OBVIOUS
<1>1. CASE Execute
  <2>1. reply[c] \in Answers \cup {None, "pending", "nil"} /\ said' = said
    BY <1>1 DEF Execute, Refused, Replied, Final
  <2>2. host'[c] \in {host[c], None} /\ (c \in waiters' => c \in waiters)
    BY <1>1 DEF Execute, SettleWaiters
  <2>3. ASSUME c \in waiters', host'[c] = None
        PROVE  future'[c] \in {"asked", "open"} /\ said[c] \subseteq {"pending", "nil"}
    <3>1. PICK stop \in Stops(Answered) :
               future' = [d \in Calls |-> IF stop.kind = "snapshot" /\ d \in stop.calls
                                             THEN "asked" ELSE Answered[d]]
      BY <1>1 DEF Execute
    <3>2. future'[c] \in {"asked", Answered[c]}
      BY <3>1
    <3>3. CASE reply[c] = None
      <4>1. host[c] = None /\ Answered[c] = future[c]
        BY <1>1, <2>3, <3>3 DEF Execute, SettleWaiters, Answered, None
      <4> QED
        BY <2>2, <2>3, <3>2, <4>1
    <3>4. CASE reply[c] \in {"pending", "nil"}
      <4>1. Answered[c] = "open"
        BY <3>4 DEF Answered, None
      <4>2. at.kind = "future" => host[c] = reply[c]
        BY <1>1, <3>4 DEF Execute, Replied, None
      <4>3. at.kind # "future" => host[c] = None
        BY <1>1, <2>3 DEF Execute, SettleWaiters
      <4> QED
        BY <2>2, <2>3, <3>2, <3>4, <4>1, <4>2, <4>3
    <3>5. CASE reply[c] \in Answers
      <4>1. at.kind \in {"snapshot", "future"}
        BY <1>1, <3>5 DEF Execute, Replied, Place, None, Answers
      <4>2. at.kind = "future" => c \notin waiters'
        BY <1>1, <3>5 DEF Execute, SettleWaiters, None, Answers
      <4>3. at.kind = "snapshot" => c \notin waiters
        BY <1>1, <3>5 DEF Execute, Truthful, None, Answers, Final
      <4> QED
        BY <2>2, <2>3, <4>1, <4>2, <4>3
    <3> QED
      BY <2>1, <3>3, <3>4, <3>5
  <2> QED
    BY <1>0, <2>1, <2>2, <2>3 DEF None
<1>2. CASE Raise
  <2>1. reply[c] \in Answers \cup {None, "pending", "nil"}
        /\ UNCHANGED <<said, host, waiters>>
    BY <1>2 DEF Raise, Refused, Replies, Final, Replied
  <2>2. ASSUME c \in waiters, host[c] = None PROVE future'[c] \in {"asked", "open"}
    <3>1. reply[c] \in Answers => at.kind = "snapshot" \/ host[c] = reply[c]
      BY <1>2 DEF Raise, Replied, Place, None, Answers
    <3>2. reply[c] \notin Answers
      BY <1>2, <2>2, <3>1 DEF Raise, Truthful, Final, Answers, None
    <3> QED
      BY <1>2, <2>1, <2>2, <3>2 DEF Raise, Answered, None
  <2> QED
    BY <2>1, <2>2
<1>3. CASE Dispatch
  <2>1. c \in at.calls => host[c] = None /\ c \notin waiters
    BY <1>3 DEF Dispatch, Unspoken
  <2>2. c \notin at.calls => said'[c] = said[c]
    BY <1>3 DEF Dispatch
  <2>3. UNCHANGED <<host, waiters, future>>
    BY <1>3 DEF Dispatch
  <2> QED
    BY <1>0, <2>1, <2>2, <2>3 DEF None
<1>4. CASE Callback
  <2>1. c \in at.calls => host[c] = None /\ c \notin waiters
    BY <1>4 DEF Callback, Unspoken, Place
  <2>2. ASSUME c \notin at.calls PROVE said'[c] = said[c]
    <3>1. \/ said' = said
          \/ \E a : said' = [d \in Calls |-> said[d] \cup IF d \in at.calls THEN {a} ELSE {}]
      BY <1>4 DEF Callback
    <3>2. CASE \E a : said' = [d \in Calls |-> said[d] \cup IF d \in at.calls THEN {a} ELSE {}]
      <4>1. said'[c] = said[c] \cup {}
        BY <2>2, <3>2
      <4> QED
        BY <4>1
    <3> QED
      BY <3>1, <3>2
  <2>3. UNCHANGED <<host, waiters, future>>
    BY <1>4 DEF Callback
  <2> QED
    BY <1>0, <2>1, <2>2, <2>3 DEF None
<1>5. CASE ResumeCall
  <2>1. c \in at.calls => future[c] = "asked"
    BY <1>5 DEF ResumeCall, Named, Place
  <2>2. reply[c] = "pending" => said[c] = {"pending"}
    BY <1>5 DEF ResumeCall, Truthful, Place, None
  <2> QED
    BY <1>5, <2>1, <2>2 DEF ResumeCall
<1>6. ASSUME NEW d \in Calls, HostAnswers(d)
      PROVE  /\ c \in waiters' /\ host'[c] = None =>
                  future'[c] \in {"asked", "open"} /\ said'[c] \subseteq {"pending", "nil"}
             /\ host'[c] \in {"pending", "nil"} => said'[c] \subseteq {"pending", "nil"}
             /\ host'[c] # None => host'[c] \in said'[c]
  BY <1>6 DEF HostAnswers, Final, Answers, None
<1>7. CASE Silent
  BY <1>7 DEF Silent
<1> QED
  BY <1>1, <1>2, <1>3, <1>4, <1>5, <1>6, <1>7, LoopIsSilent DEF Next, Loop

LEMMA TruthfulStep == IInv /\ [Next]_vars => Truthful'
<1> SUFFICES ASSUME IInv, [Next]_vars, pc' \in {"resume", "rust"},
                    NEW c \in Calls, reply'[c] # None
             PROVE  /\ reply'[c] \in said'[c] \/ (reply'[c] = "raise" /\ "absent" \in said'[c])
                    /\ at'.kind = "snapshot" /\ reply'[c] = "pending" /\ pc' = "resume"
                         => said'[c] = {"pending"}
                    /\ at'.kind = "snapshot" /\ reply'[c] \in Final => c \notin waiters'
                    /\ at'.kind = "snapshot" => reply'[c] # "nil"
  BY DEF Truthful
<1> USE DEF IInv, TypeOK, wait, Truthful, Place, Hands
<1>1. CASE Dispatch
  BY <1>1 DEF Dispatch, Unspoken, None
<1>2. CASE Callback
  <2>1. PICK a \in Final \cup {"pending"} :
             /\ reply' = [d \in Calls |-> IF d \in at.calls THEN a ELSE None]
             /\ said'  = [d \in Calls |-> said[d] \cup IF d \in at.calls THEN {a} ELSE {}]
    BY <1>2 DEF Callback, GiveBack, Returned
  <2>2. c \in at.calls /\ reply'[c] = a /\ said'[c] = said[c] \cup {a} /\ a # "nil"
    BY <2>1 DEF Final, Answers
  <2>3. said[c] = {} /\ c \notin waiters
    BY <1>2, <2>2 DEF Callback, Unspoken
  <2> QED
    BY <1>2, <2>1, <2>2, <2>3 DEF Callback
<1>3. CASE ResumeCall
  <2>1. reply' = reply /\ at' = at /\ said' = said /\ pc' = "rust" /\ at.kind = "snapshot"
    BY <1>3, Resumes DEF ResumeCall
  <2>2. reply[c] \in Final => c \notin waiters'
    BY <1>3, <2>1 DEF ResumeCall, Final, Answers, None
  <2> QED
    BY <1>3, <2>1, <2>2 DEF ResumeCall
<1>4. CASE Deliver
  <2>1. reply' = reply /\ at' = at /\ said' = said /\ pc' = "rust" /\ at.kind = "future" /\ ~canceled
    BY <1>4, Resumes DEF Deliver
  <2>2. reply[c] = host[c]
    BY <1>4, <2>1 DEF Deliver, Replied
  <2> QED
    BY <2>1, <2>2 DEF Listening
<1>5. CASE ResumeLookup
  <2>1. ~canceled
    BY <1>5 DEF ResumeLookup, Returned
  <2>2. reply' = Quiet
    BY <1>5, <2>1, Resumes DEF ResumeLookup
  <2> QED
    BY <2>2 DEF Quiet
<1>6. ASSUME NEW d \in Calls, HostAnswers(d)
      PROVE  /\ reply'[c] \in said'[c] \/ (reply'[c] = "raise" /\ "absent" \in said'[c])
             /\ at'.kind = "snapshot" /\ reply'[c] = "pending" /\ pc' = "resume"
                  => said'[c] = {"pending"}
             /\ at'.kind = "snapshot" /\ reply'[c] \in Final => c \notin waiters'
             /\ at'.kind = "snapshot" => reply'[c] # "nil"
  <2>1. pc = "resume" => d \notin at.calls /\ c \in at.calls
    BY <1>6 DEF HostAnswers, Unspoken, Replied
  <2> QED
    BY <1>6, <2>1 DEF HostAnswers
<1>7. CASE Cancel \/ UNCHANGED vars
  BY <1>7 DEF Cancel, vars
<1>8. CASE \/ Execute \/ Raise \/ Fail \/ Canceled \/ Complete \/ NameLookup \/ NoWaiters
           \/ Wait \/ WaitCanceled \/ (\E o \in outcomes : Receive(o))
           \/ (\E d \in Calls : WaiterReturns(d))
  BY <1>8 DEF Execute, Raise, Fail, Canceled, Complete, NameLookup, NoWaiters, Wait, WaitCanceled,
              Receive, WaiterReturns, GiveBack, Returned
<1> QED
  BY <1>1, <1>2, <1>3, <1>4, <1>5, <1>6, <1>7, <1>8 DEF Next, Loop

-----------------------------------------------------------------------------
(* The theorems.                                                           *)

LEMMA InitIInv == Init => IInv
<1> SUFFICES ASSUME Init PROVE IInv
  OBVIOUS
<1>1. TypeOK
  BY DEF Init, TypeOK, Quiet, Replies, Returns, Answers, None
<1>2. SessionComesBack /\ SpansEnd /\ PromisesAreKept
  BY DEF Init, SessionComesBack, SpansEnd, PromisesAreKept, Open, None
<1>3. Place /\ Hands /\ Named /\ Outcomes /\ Replied /\ Kept
  BY DEF Init, Place, Hands, Named, Outcomes, Replied, Kept, Open, Quiet, None
<1>4. Unspoken /\ Listening /\ Truthful
  BY DEF Init, Unspoken, Listening, Truthful, Quiet, None
<1> QED
  BY <1>1, <1>2, <1>3, <1>4 DEF IInv

LEMMA StepIInv == IInv /\ [Next]_vars => IInv'
BY TypeStep, PlaceStep, HandsStep, SessionComesBackStep, SpansEndStep, NamedStep, OutcomesStep,
   RepliedStep, KeptStep, PromisesAreKeptStep, UnspokenStep, ListeningStep, TruthfulStep
DEF IInv

LEMMA Inductive == Spec => []IInv
BY InitIInv, StepIInv, PTL DEF Spec

\* The state keeps its shape; in particular, a program never gets the zero
\* Result of a waiter that returned only because the context ended.
THEOREM TypeCorrect == Spec => []TypeOK
<1>1. IInv => TypeOK
  BY DEF IInv
<1> QED
  BY <1>1, Inductive, PTL

\* Run and FeedRun return with the session back in its Repl, unless Rust failed
\* or refused what a host said; they never give it back, or lose it, while the
\* program still needs it.
THEOREM SessionIsReturned == Spec => []SessionComesBack
<1>1. IInv => SessionComesBack
  BY DEF IInv
<1> QED
  BY <1>1, Inductive, PTL

\* Every telemetry span is ended when the work it measures is over.
THEOREM SpansAreEnded == Spec => []SpansEnd
<1>1. IInv => SpansEnd
  BY DEF IInv
<1> QED
  BY <1>1, Inductive, PTL

\* A program is told that nobody will answer only when a waiter promised nil.
THEOREM PromisesHaveWaiters == Spec => []PromisesAreKept
<1>1. IInv => PromisesAreKept
  BY DEF IInv
<1> QED
  BY <1>1, Inductive, PTL

-----------------------------------------------------------------------------
(* The loop implements HostCalls.                                          *)

LEMMA ContractInit == Init => Contract!Init
BY DEF Init, Contract!Init

\* What the program is given of a call was said of it, by its host and last.
LEMMA AdvanceStep ==
  ASSUME IInv, pc = "rust", ~Refused,
         NEW f \in [Calls -> Answers \cup {"new", "asked", "open"}],
         \A c \in Calls : f[c] = Answered[c] \/ (f[c] = "asked" /\ Answered[c] = "new"),
         future' = f
  PROVE  Contract!Advance
<1>1. ASSUME NEW c \in Calls PROVE f[c] = future[c] \/ f[c] \in Contract!Later(c)
  <2>1. CASE reply[c] = None
    <3>1. Answered[c] = future[c]
      BY <2>1 DEF Answered, None
    <3> QED
      BY <3>1 DEF Contract!Later
  <2>2. CASE reply[c] # None
    <3>1. c \in at.calls /\ reply[c] \in Answers \cup {"pending", "nil"}
      BY <2>2 DEF IInv, Replied, Refused, Final
    <3>2. /\ at.kind \in {"snapshot", "future"}
          /\ at.kind = "snapshot" => future[c] = "asked"
          /\ at.kind = "future" => future[c] = "open" /\ reply[c] = host[c]
      BY <2>2, <3>1 DEF IInv, Named, Open, Place, TypeOK, Replied
    <3>3. reply[c] \in said[c] \/ (reply[c] = "raise" /\ "absent" \in said[c])
      BY <2>2 DEF IInv, Truthful
    <3>4. CASE reply[c] \in Answers
      <4>1. f[c] = reply[c]
        BY <2>2, <3>4 DEF Answered, Answers, None
      <4>2. f[c] \in Contract!Heard(c)
        BY <3>3, <3>4, <4>1 DEF Contract!Heard, Contract!Answers, Answers
      <4> QED
        BY <3>2, <4>2 DEF Contract!Later
    <3>5. CASE reply[c] \in {"pending", "nil"}
      <4>1. f[c] = "open"
        BY <2>2, <3>5 DEF Answered, None
      <4>2. at.kind = "snapshot" => reply[c] = "pending"
        BY <2>2, <3>5 DEF IInv, Truthful
      <4>3. CASE at.kind = "snapshot"
        BY <3>2, <3>3, <4>1, <4>2, <4>3 DEF Contract!Later
      <4> QED
        BY <3>2, <4>1, <4>3
    <3> QED
      BY <3>1, <3>4, <3>5
  <2> QED
    BY <2>1, <2>2
<1>2. future' \in [Calls -> {"new", "asked", "open"} \cup Contract!Answers]
  BY DEF Contract!Answers, Answers
<1> QED
  BY <1>1, <1>2 DEF Contract!Advance, IInv, Hands

\* A host is heard only of a call that waits for its answer.
LEMMA SpeakStep ==
  ASSUME IInv, NEW c \in Calls, NEW s \in Final \cup {"pending", "nil", "absent"},
         future[c] \in {"asked", "open"}, said[c] \subseteq {"pending", "nil"},
         s = "absent" => said[c] = {},
         said' = [said EXCEPT ![c] = @ \cup {s}], UNCHANGED <<future, home, pc>>
  PROVE  Contract!Next
<1>1. said[c] \cap Contract!Final = {}
  BY DEF Contract!Final, Contract!Answers
<1>2. Contract!Speak(c, s)
  BY <1>1 DEF Contract!Speak
<1>3. s \in Contract!Final \cup {"pending", "nil"}
  BY DEF Contract!Final, Contract!Answers, Final, Answers
<1> QED
  BY <1>2, <1>3 DEF Contract!Next

\* The call in hand is spoken of once, by its handler or for want of one.
LEMMA HandlerSpeaks ==
  ASSUME IInv, pc \in {"loop", "callback"}, at.kind = "snapshot",
         NEW s \in Final \cup {"pending", "absent"},
         \A c \in Calls : said'[c] = IF c \in at.calls THEN {s} ELSE said[c],
         said' \in [Calls -> SUBSET (Final \cup {"pending", "nil", "absent"})],
         UNCHANGED <<future, home>>, pc' # "returned"
  PROVE  Contract!Next
<1>1. PICK c \in Calls : at.calls = {c}
  BY DEF IInv, Place
<1>2. future[c] = "asked" /\ said[c] = {}
  BY <1>1 DEF IInv, Named, Unspoken
<1>3. said' = [said EXCEPT ![c] = @ \cup {s}]
  <2>1. \A d \in Calls : said'[d] = [said EXCEPT ![c] = @ \cup {s}][d]
    BY <1>1, <1>2 DEF IInv, TypeOK
  <2> QED
    BY <2>1 DEF IInv, TypeOK
<1>4. said[c] \cap Contract!Final = {} /\ s \in Contract!Final \cup {"pending", "nil"}
  BY <1>2 DEF Contract!Final, Contract!Answers, Final, Answers
<1>5. Contract!Speak(c, s)
  BY <1>2, <1>3, <1>4 DEF Contract!Speak
<1> QED
  BY <1>4, <1>5 DEF Contract!Next

\* The other steps leave the program and its host alone, and the session is
\* where it was, or comes back or is lost for good.
LEMMA OtherStep ==
  ASSUME IInv, [Next]_vars, pc # "returned", UNCHANGED <<future, said>>,
         home' = home \/ (home = "away" /\ home' \in {"back", "lost"}),
         pc' = "returned" => home' # "away"
  PROVE  Contract!Next
BY DEF Contract!Next, Contract!Run

LEMMA ContractStep == IInv /\ [Next]_vars => [Contract!Next]_(Contract!vars)
<1> SUFFICES ASSUME IInv, [Next]_vars PROVE [Contract!Next]_(Contract!vars)
  OBVIOUS
<1>0. pc' = "returned" => home' # "away"
  BY SessionComesBackStep DEF SessionComesBack
<1>1. CASE Execute
  <2>1. PICK stop \in Stops(Answered) :
             /\ home' = IF stop.kind = "complete" THEN "back" ELSE home
             /\ future' = [c \in Calls |-> IF stop.kind = "snapshot" /\ c \in stop.calls
                                            THEN "asked" ELSE Answered[c]]
    BY <1>1 DEF Execute
  <2>2. \A c \in Calls : stop.kind = "snapshot" /\ c \in stop.calls => Answered[c] = "new"
    BY <2>1 DEF Stops
  <2>3. Contract!Advance
    BY <1>1, <2>1, <2>2, AnsweredType, AdvanceStep, TypeStep DEF Execute, TypeOK
  <2>4. home = "away" /\ home' \in {"away", "back"} /\ said' = said
    BY <1>1, <2>1 DEF Execute, IInv, Hands
  <2>5. pc # "returned" /\ pc' # "returned"
    BY <1>1 DEF Execute
  <2> QED
    BY <2>3, <2>4, <2>5 DEF Contract!Next, Contract!Run
<1>2. CASE Raise
  <2>1. Contract!Advance
    BY <1>2, AnsweredType, AdvanceStep DEF Raise
  <2> QED
    BY <1>2, <2>1 DEF Raise, Returned, IInv, Hands, Contract!Next, Contract!Run
<1>3. CASE Dispatch
  <2>1. CASE UNCHANGED said
    BY <1>0, <1>3, <2>1, OtherStep DEF Dispatch
  <2>2. CASE pc' = "resume"
    BY <1>3, <2>2, HandlerSpeaks, TypeStep DEF Dispatch, IInv, TypeOK
  <2> QED
    BY <1>3, <2>1, <2>2 DEF Dispatch
<1>4. CASE Callback
  <2>1. CASE GiveBack("error") /\ UNCHANGED said
    BY <1>0, <1>4, <2>1, GivesBack, OtherStep DEF Callback, IInv, Hands, SessionComesBack, TypeOK
  <2>2. CASE pc' = "resume"
    <3>1. PICK a \in Final \cup {"pending"} :
               said' = [c \in Calls |-> said[c] \cup IF c \in at.calls THEN {a} ELSE {}]
      BY <1>4, <2>2 DEF Callback, GiveBack, Returned
    <3>2. at.kind = "snapshot" /\ \A c \in Calls : c \in at.calls => said[c] = {}
      BY <1>4 DEF Callback, IInv, Place, Unspoken
    <3>3. ASSUME NEW c \in Calls PROVE said'[c] = IF c \in at.calls THEN {a} ELSE said[c]
      <4>1. said'[c] = said[c] \cup IF c \in at.calls THEN {a} ELSE {}
        BY <3>1
      <4> QED
        BY <3>2, <4>1
    <3>4. UNCHANGED <<future, home>>
      BY <1>4, <2>2 DEF Callback, GiveBack, Returned
    <3> QED
      BY <1>4, <2>2, <3>2, <3>3, <3>4, HandlerSpeaks, TypeStep DEF Callback, IInv, TypeOK
  <2> QED
    BY <1>4, <2>1, <2>2 DEF Callback
<1>5. ASSUME NEW c \in Calls, HostAnswers(c) PROVE Contract!Next
  <2>1. PICK a \in Final \cup {"pending", "nil"} : said' = [said EXCEPT ![c] = @ \cup {a}]
    BY <1>5 DEF HostAnswers
  <2>2. future[c] \in {"asked", "open"} /\ said[c] \subseteq {"pending", "nil"} /\ a # "absent"
    BY <1>5 DEF HostAnswers, IInv, Listening, Final, Answers
  <2>3. UNCHANGED <<future, home, pc>>
    BY <1>5 DEF HostAnswers
  <2> QED
    BY <2>1, <2>2, <2>3, SpeakStep
<1>6. CASE /\ pc # "returned"
           /\ \/ Canceled \/ Complete \/ NameLookup \/ ResumeLookup \/ NoWaiters \/ Wait
              \/ WaitCanceled \/ Deliver \/ Cancel \/ Fail \/ UNCHANGED vars
              \/ \E o \in outcomes : Receive(o)
              \/ \E c \in Calls : WaiterReturns(c)
  <2>1. UNCHANGED <<future, said>>
    BY <1>6, LoopIsSilent DEF Silent
  <2>2. home' = home \/ (home = "away" /\ home' \in {"back", "lost"})
    <3>1. CASE ResumeLookup \/ Deliver
      BY <3>1, Resumes DEF ResumeLookup, Deliver, IInv, Hands, SessionComesBack, TypeOK
    <3>2. CASE NoWaiters \/ WaitCanceled \/ Canceled
      BY <3>2, GivesBack
      DEF NoWaiters, WaitCanceled, Canceled, IInv, Hands, Place, SessionComesBack, TypeOK
    <3>3. CASE Fail
      BY <3>3 DEF Fail, IInv, Hands
    <3>4. CASE \/ Complete \/ NameLookup \/ Wait \/ Cancel \/ UNCHANGED vars
               \/ \E o \in outcomes : Receive(o)
               \/ \E c \in Calls : WaiterReturns(c)
      BY <3>4 DEF Complete, NameLookup, Wait, Cancel, vars, Receive, WaiterReturns
    <3> QED
      BY <1>6, <3>1, <3>2, <3>3, <3>4
  <2> QED
    BY <1>0, <1>6, <2>1, <2>2, OtherStep
<1>7. CASE ResumeCall
  <2>1. UNCHANGED <<future, said>>
    BY <1>7 DEF ResumeCall
  <2>2. home' = home \/ (home = "away" /\ home' \in {"back", "lost"})
    BY <1>7, Resumes DEF ResumeCall, IInv, Hands, SessionComesBack, TypeOK
  <2> QED
    BY <1>0, <1>7, <2>1, <2>2, OtherStep DEF ResumeCall
<1>8. CASE pc = "returned" /\ ~\E c \in Calls : HostAnswers(c)
  <2>1. UNCHANGED <<said, future, home, pc>>
    BY <1>8 DEF Next, Loop, Canceled, Complete, Dispatch, Callback, ResumeCall, NameLookup,
                ResumeLookup, NoWaiters, Wait, WaitCanceled, Deliver, Receive, Cancel, Execute,
                Raise, Fail, WaiterReturns, vars
  <2> QED
    BY <2>1 DEF Contract!vars
<1> QED
  BY <1>1, <1>2, <1>3, <1>4, <1>5, <1>6, <1>7, <1>8 DEF Next, Loop

\* The callback loop implements what is promised about host calls: what a
\* program has of a call was said of that call, by its own host, and it gets it
\* once and only while it runs.
THEOREM HostCallsImplemented == Spec => ImplementsHostCalls
BY ContractInit, ContractStep, Inductive, PTL DEF Spec, ImplementsHostCalls, Contract!Spec
=============================================================================
