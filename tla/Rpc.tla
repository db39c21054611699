-------------------------------- MODULE Rpc --------------------------------
(***************************************************************************)
(* What a client of the daemon relies on.  Its request is executed once or *)
(* not at all; an answer is the one the execution gave; and when it hears  *)
(* that the daemon is lost, the request will not be executed any more, so  *)
(* that it can be made again.  A request may outlive its client.           *)
(***************************************************************************)
CONSTANT Client

VARIABLES
    phase,   \* "idle", "asked", "running", "done" or "failed"
    dead,    \* the client was killed while its request was on the way
    said     \* the answer to its last request

vars == <<phase, dead, said>>

Move(c, from, to) ==
    /\ phase[c] = from
    /\ phase' = [phase EXCEPT ![c] = to]

Say(c, answer) == said' = [said EXCEPT ![c] = answer]

Ask(c) == Move(c, "idle", "asked") /\ Say(c, "none") /\ UNCHANGED dead
Refuse(c) == phase[c] = "idle" /\ Say(c, "no daemon") /\ UNCHANGED <<phase, dead>>

Begin(c) == Move(c, "asked", "running") /\ UNCHANGED <<dead, said>>
Finish(c) == (Move(c, "running", "done") \/ Move(c, "running", "failed")) /\ UNCHANGED <<dead, said>>

\* The client is told the outcome.
Tell(c) ==
    /\ ~dead[c]
    /\ \/ Move(c, "done", "idle") /\ Say(c, "ok")
       \/ Move(c, "failed", "idle") /\ Say(c, "error")
    /\ UNCHANGED dead

\* The client is told that the daemon is lost.
Lose(c) ==
    /\ ~dead[c] /\ phase[c] # "idle"
    /\ phase' = [phase EXCEPT ![c] = "idle"]
    /\ Say(c, "lost")
    /\ UNCHANGED dead

\* A client is killed; its request goes on, or is lost with its daemon.
Die(c) ==
    /\ phase[c] # "idle" /\ ~dead[c]
    /\ \/ dead' = [dead EXCEPT ![c] = TRUE] /\ UNCHANGED phase
       \/ phase' = [phase EXCEPT ![c] = "idle"] /\ UNCHANGED dead
    /\ UNCHANGED said

\* Requests of clients that were killed are forgotten.
Forget(C) ==
    /\ phase' = [c \in Client |-> IF c \in C THEN "idle" ELSE phase[c]]
    /\ dead' = [c \in Client |-> dead[c] /\ c \notin C]
    /\ UNCHANGED said

Init ==
    /\ phase = [c \in Client |-> "idle"]
    /\ dead = [c \in Client |-> FALSE]
    /\ said = [c \in Client |-> "none"]

Next ==
    \/ \E c \in Client :
          Ask(c) \/ Refuse(c) \/ Begin(c) \/ Finish(c) \/ Tell(c) \/ Lose(c) \/ Die(c)
    \/ \E C \in SUBSET {c \in Client : dead[c]} : Forget(C)

Spec == Init /\ [][Next]_vars
=============================================================================
