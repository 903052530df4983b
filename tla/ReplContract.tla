---------------------------- MODULE ReplContract ----------------------------
(***************************************************************************)
(* What a Repl promises its caller (runner.go): one interpreter session,   *)
(* which is the Repl's own, out on one execution, paused in one Snapshot,  *)
(* or gone.  Whatever comes back after an execution is the session that    *)
(* went out, and a session that is gone stays gone.                        *)
(***************************************************************************)
CONSTANTS Repls, Natives, None,
          Lossy    \* BOOLEAN: whether a failure may cost a Repl its session

VARIABLES status,   \* absent, ready, running, paused or gone
          session   \* the interpreter, None once it is lost

vars == <<status, session>>

Statuses == {"absent", "ready", "running", "paused", "gone"}

Init == /\ status  = [r \in Repls |-> "absent"]
        /\ session = [r \in Repls |-> None]

Become(r, from, to) == /\ status[r] = from
                       /\ status' = [status EXCEPT ![r] = to]

Keep == UNCHANGED session

\* Two Repls never share a session.
Create(r) == /\ Become(r, "absent", "ready")
             /\ \E s \in Natives \ {session[q] : q \in Repls} :
                  session' = [session EXCEPT ![r] = s]

Feed(r)   == Become(r, "ready", "running") /\ Keep
Pause(r)  == session[r] # None /\ Become(r, "running", "paused") /\ Keep
Resume(r) == Become(r, "paused", "running") /\ Keep
Finish(r) == session[r] # None /\ Become(r, "running", "ready") /\ Keep

\* Rust lost the session while it ran: the owner learns of it later.
LoseSession(r) == /\ Lossy
                  /\ status[r] = "running" /\ session[r] # None
                  /\ session' = [session EXCEPT ![r] = None]
                  /\ UNCHANGED status

\* The owner learns that its session is lost, or its Snapshot is dropped.
Vanish(r) == /\ Lossy
             /\ \E from \in {"running", "paused"} : Become(r, from, "gone")
             /\ session' = [session EXCEPT ![r] = None]

Next == \E r \in Repls : \/ Create(r) \/ Feed(r) \/ Pause(r) \/ Resume(r) \/ Finish(r)
                         \/ LoseSession(r) \/ Vanish(r)

Spec == Init /\ [][Next]_vars
=============================================================================
