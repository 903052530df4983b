------------------------------ MODULE HostCalls ------------------------------
(***************************************************************************)
(* What Run and FeedRun promise about the calls a program makes to its     *)
(* host (dispatch.go): each call is answered, or promised an answer that   *)
(* comes later; a program has of a call what that call's own host said,    *)
(* and has it once; once the session is back with its Repl, or lost, the   *)
(* program gets nothing more, and the method returns only then.            *)
(***************************************************************************)
CONSTANT Calls

VARIABLES said,     \* of each call: what its host said, or that it has none
          future,   \* of each call: new, asked, open (promised) or its answer
          home,     \* whether the session is away from its Repl, back, or lost
          over      \* whether the method has returned

vars == <<said, future, home, over>>

Answers == {"return", "raise"}
Final   == Answers \cup {"bad", "absent"}   \* what is said last of a call

Init == /\ said = [c \in Calls |-> {}]
        /\ future = [c \in Calls |-> "new"]
        /\ home = "away"
        /\ over = FALSE

\* A host is heard of a call the program has made and got no answer of.  It may
\* promise again and again, but it answers once; of a function that does not
\* exist, that is all there is to say.
Speak(c, s) == /\ future[c] \in {"asked", "open"}
               /\ said[c] \cap Final = {}
               /\ s = "absent" => said[c] = {}
               /\ said' = [said EXCEPT ![c] = @ \cup {s}]
               /\ UNCHANGED <<future, home, over>>

\* What the program may have of a call next, as far as its host has spoken; a
\* call of a function that does not exist raises.
Heard(c)  == (said[c] \cap Answers) \cup {a \in {"raise"} : "absent" \in said[c]}
Later(c)  == CASE future[c] = "new"   -> {"asked"}
               [] future[c] = "asked" -> Heard(c) \cup {o \in {"open"} : "pending" \in said[c]}
               [] future[c] = "open"  -> Heard(c)
               [] OTHER               -> {}

Advance == /\ home = "away"
           /\ future' \in [Calls -> {"new", "asked", "open"} \cup Answers]
           /\ \A c \in Calls : future'[c] = future[c] \/ future'[c] \in Later(c)

Run == /\ ~over
       /\ Advance \/ UNCHANGED future
       /\ home' = home \/ (home = "away" /\ home' \in {"back", "lost"})
       /\ over' \in {FALSE, home' # "away"}
       /\ UNCHANGED said

Next == Run \/ \E c \in Calls, s \in Final \cup {"pending", "nil"} : Speak(c, s)

Spec == Init /\ [][Next]_vars
=============================================================================
