----------------------------- MODULE DaemonRpc -----------------------------
(***************************************************************************)
(* Requests to the daemon over its Unix socket.                            *)
(*                                                                         *)
(* A message is its length and then its body, in two writes and two reads. *)
(* The daemon accepts one connection, reads, executes, answers and closes  *)
(* it before it accepts the next one; it reads without a deadline.  At its *)
(* start it removes the socket file that is there, and on a signal the one *)
(* that is there then, while its main loop goes on until the process ends. *)
(***************************************************************************)
EXTENDS Naturals, Sequences

CONSTANTS
    Client,      \* commands and goroutines of the web server
    Daemon,      \* daemon processes
    MaxFaults,   \* bound: clients and daemons killed or signalled, clients that stall
    None

ASSUME RpcAssumption ==
    /\ None \notin Client /\ None \notin Daemon
    /\ MaxFaults \in Nat

VARIABLES
    path,        \* file system: the daemon that has bound the socket file
    up,          \* each daemon process: "down", "starting", "up" or "cleaned"
    backlog,     \* kernel: the connections each daemon has not accepted
    serves,      \* the client of the connection each daemon handles
    step,        \* and where it is in handleConnection
    at,          \* what each client does next
    peer,        \* the daemon each client is connected to
    wrote,       \* kernel: messages each client has written, 1: the length only
    answered,    \* kernel: messages the daemon has written to it
    fate,        \* history: what became of its request
    said,        \* the answer it was given
    stalled,     \* clients that do not go on
    overlapped,  \* history: a daemon was started while another one was running
    faults       \* history: injected failures

vars == <<path, up, backlog, serves, step, at, peer, wrote, answered, fate, said,
          stalled, overlapped, faults>>

daemonVars == <<up, backlog, serves, step>>
clientVars == <<at, peer, wrote, said, stalled>>

Running(d) == up[d] # "down"
Listening(d) == up[d] = "up"

-----------------------------------------------------------------------------
(* sendRequestToDaemon.                                                    *)

Goto(c, p) == at' = [at EXCEPT ![c] = p]

\* The operation returns: with the answer of the daemon, or with an error of its own.
Return(c, answer) ==
    /\ Goto(c, "idle")
    /\ said' = [said EXCEPT ![c] = answer]
    /\ peer' = [peer EXCEPT ![c] = None]

Dial(c) ==
    /\ at[c] = "idle"
    /\ IF path # None /\ up[path] \in {"up", "cleaned"}
       THEN /\ backlog' = [backlog EXCEPT ![path] = Append(@, c)]
            /\ peer' = [peer EXCEPT ![c] = path]
            /\ Goto(c, "length")
            /\ wrote' = [wrote EXCEPT ![c] = 0]
            /\ answered' = [answered EXCEPT ![c] = 0]
            /\ fate' = [fate EXCEPT ![c] = "asked"]
            /\ said' = [said EXCEPT ![c] = "none"]
       ELSE /\ said' = [said EXCEPT ![c] = "no daemon"]
            /\ UNCHANGED <<backlog, at, peer, wrote, answered, fate>>
    /\ UNCHANGED <<path, up, serves, step, stalled, overlapped, faults>>

Write(c) ==
    /\ at[c] \in {"length", "body"} /\ c \notin stalled
    /\ IF peer[c] = None THEN Return(c, "lost") /\ UNCHANGED wrote
       ELSE /\ wrote' = [wrote EXCEPT ![c] = @ + 1]
            /\ Goto(c, IF at[c] = "length" THEN "body" ELSE "answer")
            /\ UNCHANGED <<said, peer>>
    /\ UNCHANGED <<path, daemonVars, answered, fate, stalled, overlapped, faults>>

\* What the daemon has written can be read after it has closed the connection.
Receive(c) ==
    /\ at[c] = "answer" /\ c \notin stalled
    /\ \/ answered[c] = 2 /\ Return(c, IF fate[c] = "done" THEN "ok" ELSE "error")
       \/ answered[c] # 2 /\ peer[c] = None /\ Return(c, "lost")
    /\ UNCHANGED <<path, daemonVars, wrote, answered, fate, stalled, overlapped, faults>>

-----------------------------------------------------------------------------
(* Daemon.Run and handleConnection.                                        *)

\* New removes the socket file that is there, then prepares the table ...
Start(d) ==
    /\ up[d] = "down"
    /\ up' = [up EXCEPT ![d] = "starting"]
    /\ path' = None
    /\ overlapped' = (overlapped \/ \E e \in Daemon : Running(e))
    /\ UNCHANGED <<backlog, serves, step, clientVars, answered, fate, faults>>

\* ... and Run binds a new one, which must not be there by now.
Listen(d) ==
    /\ up[d] = "starting"
    /\ IF path = None THEN path' = d /\ up' = [up EXCEPT ![d] = "up"]
       ELSE up' = [up EXCEPT ![d] = "down"] /\ UNCHANGED path
    /\ UNCHANGED <<backlog, serves, step, clientVars, answered, fate, overlapped, faults>>

\* A mutant: a connection is accepted and stays in the backlog.
AcceptHead(d) ==
    /\ Running(d) /\ serves[d] = None /\ backlog[d] # <<>>
    /\ serves' = [serves EXCEPT ![d] = Head(backlog[d])]
    /\ step' = [step EXCEPT ![d] = "length"]
    /\ UNCHANGED <<path, up, backlog, clientVars, answered, fate, overlapped, faults>>

Accept(d) ==
    /\ Running(d) /\ serves[d] = None /\ backlog[d] # <<>>
    /\ serves' = [serves EXCEPT ![d] = Head(backlog[d])]
    /\ backlog' = [backlog EXCEPT ![d] = Tail(@)]
    /\ step' = [step EXCEPT ![d] = "length"]
    /\ UNCHANGED <<path, up, clientVars, answered, fate, overlapped, faults>>

\* conn.Close().  A client that was killed is none any more.
Close(d) ==
    LET c == serves[d] IN
    /\ serves' = [serves EXCEPT ![d] = None]
    /\ step' = [step EXCEPT ![d] = "accept"]
    /\ peer' = [peer EXCEPT ![c] = None]
    /\ at' = [at EXCEPT ![c] = IF @ = "dead" THEN "idle" ELSE @]
    /\ UNCHANGED <<up, backlog, wrote, said, stalled>>

Serving(d, s) == Running(d) /\ serves[d] # None /\ step[d] = s

Advance(d, s) ==
    /\ step' = [step EXCEPT ![d] = s]
    /\ UNCHANGED <<up, backlog, serves, clientVars>>

\* A mutant: the end of a connection is not noticed.
ReadOn(d) ==
    \E s \in {"length", "body"} :
        /\ Serving(d, s)
        /\ wrote[serves[d]] > (IF s = "length" THEN 0 ELSE 1)
        /\ Advance(d, IF s = "length" THEN "body" ELSE "execute")
        /\ UNCHANGED <<path, answered, fate, overlapped, faults>>

\* io.ReadFull of the length, then of the body: it waits, or the connection ends.
Read(d) ==
    \E s \in {"length", "body"} :
        LET c == serves[d]
            here == wrote[c] > (IF s = "length" THEN 0 ELSE 1) IN
        /\ Serving(d, s)
        /\ \/ here /\ Advance(d, IF s = "length" THEN "body" ELSE "execute")
           \/ ~here /\ at[c] = "dead" /\ Close(d)
        /\ UNCHANGED <<path, answered, fate, overlapped, faults>>

\* The handlers of the seven requests: modules QosRules and IfaceTc.
Execute(d) ==
    /\ Serving(d, "execute")
    /\ fate' = [fate EXCEPT ![serves[d]] = "running"]
    /\ Advance(d, "executing")
    /\ UNCHANGED <<path, answered, overlapped, faults>>

Executed(d) ==
    /\ Serving(d, "executing")
    /\ \E f \in {"done", "failed"} : fate' = [fate EXCEPT ![serves[d]] = f]
    /\ Advance(d, "answer")
    /\ UNCHANGED <<path, answered, overlapped, faults>>

\* A mutant: a failing write is tried again.
AnswerAgain(d) ==
    LET c == serves[d] IN
    /\ Serving(d, "answer")
    /\ IF at[c] = "dead" THEN Advance(d, "execute") /\ UNCHANGED answered
       ELSE /\ answered' = [answered EXCEPT ![c] = @ + 1]
            /\ IF answered[c] = 1 THEN Close(d) ELSE Advance(d, "answer")
    /\ UNCHANGED <<path, fate, overlapped, faults>>

\* sendSuccesMsg, sendErrMsg: two writes, which fail when nobody is there to read.
Answer(d) ==
    LET c == serves[d] IN
    /\ Serving(d, "answer")
    /\ IF at[c] = "dead" THEN Close(d) /\ UNCHANGED answered
       ELSE /\ answered' = [answered EXCEPT ![c] = @ + 1]
            /\ IF answered[c] = 1 THEN Close(d) ELSE Advance(d, "answer")
    /\ UNCHANGED <<path, fate, overlapped, faults>>

\* The process of a daemon ends, and with it all its connections.
Gone(d) ==
    LET lost == {c \in Client : peer[c] = d} IN
    /\ up' = [up EXCEPT ![d] = "down"]
    /\ backlog' = [backlog EXCEPT ![d] = <<>>]
    /\ serves' = [serves EXCEPT ![d] = None]
    /\ step' = [step EXCEPT ![d] = "accept"]
    /\ peer' = [c \in Client |-> IF c \in lost THEN None ELSE peer[c]]
    /\ at' = [c \in Client |-> IF c \in lost /\ at[c] = "dead" THEN "idle" ELSE at[c]]
    /\ UNCHANGED <<wrote, said, stalled, answered, fate, overlapped>>

\* A mutant: the daemon leaves its socket file.
CleanUpNot(d) ==
    /\ faults < MaxFaults
    /\ Listening(d)
    /\ up' = [up EXCEPT ![d] = "cleaned"]
    /\ faults' = faults + 1
    /\ UNCHANGED <<path, backlog, serves, step, clientVars, answered, fate, overlapped>>

\* A signal: the goroutine removes the socket file ...
CleanUp(d) ==
    /\ faults < MaxFaults
    /\ Listening(d)
    /\ path' = None
    /\ up' = [up EXCEPT ![d] = "cleaned"]
    /\ faults' = faults + 1
    /\ UNCHANGED <<backlog, serves, step, clientVars, answered, fate, overlapped>>

\* ... and ends the process, wherever the main loop is.
Exit(d) ==
    /\ up[d] = "cleaned"
    /\ Gone(d)
    /\ UNCHANGED <<path, faults>>

-----------------------------------------------------------------------------
(* Failures.                                                               *)

Kill(d) ==
    /\ faults < MaxFaults
    /\ Running(d)
    /\ Gone(d)
    /\ faults' = faults + 1
    /\ UNCHANGED path

\* A client is killed: what it has written can still be read.
Die(c) ==
    /\ faults < MaxFaults
    /\ at[c] \notin {"idle", "dead"}
    /\ IF peer[c] = None THEN Goto(c, "idle") ELSE Goto(c, "dead")
    /\ stalled' = stalled \ {c}
    /\ faults' = faults + 1
    /\ UNCHANGED <<path, daemonVars, peer, wrote, answered, fate, said, overlapped>>

\* A client is stopped between two of its steps, and goes on when it may.
Stall(c) ==
    /\ faults < MaxFaults
    /\ at[c] \notin {"idle", "dead"} /\ c \notin stalled
    /\ stalled' = stalled \cup {c}
    /\ faults' = faults + 1
    /\ UNCHANGED <<path, daemonVars, at, peer, wrote, answered, fate, said, overlapped>>

GoOn(c) ==
    /\ c \in stalled
    /\ stalled' = stalled \ {c}
    /\ UNCHANGED <<path, daemonVars, at, peer, wrote, answered, fate, said, overlapped, faults>>

Init ==
    /\ path = None
    /\ up = [d \in Daemon |-> "down"]
    /\ backlog = [d \in Daemon |-> <<>>]
    /\ serves = [d \in Daemon |-> None]
    /\ step = [d \in Daemon |-> "accept"]
    /\ at = [c \in Client |-> "idle"]
    /\ peer = [c \in Client |-> None]
    /\ wrote = [c \in Client |-> 0]
    /\ answered = [c \in Client |-> 0]
    /\ fate = [c \in Client |-> "asked"]
    /\ said = [c \in Client |-> "none"]
    /\ stalled = {}
    /\ overlapped = FALSE
    /\ faults = 0

ClientStep(c) == Write(c) \/ Receive(c)
DaemonStep(d) ==
    Listen(d) \/ Accept(d) \/ Read(d) \/ Execute(d) \/ Executed(d) \/ Answer(d) \/ Exit(d)

Next ==
    \/ \E c \in Client : Dial(c) \/ ClientStep(c) \/ Die(c) \/ Stall(c) \/ GoOn(c)
    \/ \E d \in Daemon : Start(d) \/ DaemonStep(d) \/ CleanUp(d) \/ Kill(d)

\* Processes that are not stopped run; nobody has to make a request, to start a
\* daemon, or to go on when stopped.
Fairness ==
    /\ \A c \in Client : WF_vars(ClientStep(c))
    /\ \A d \in Daemon : WF_vars(DaemonStep(d))

Spec == Init /\ [][Next]_vars /\ Fairness

-----------------------------------------------------------------------------
\* A connection is in one place only, and who handles one handles a client's
\* (Daemon.Run, Daemon.handleConnection).
TypeOK ==
    /\ path \in Daemon \cup {None}
    /\ up \in [Daemon -> {"down", "starting", "up", "cleaned"}]
    /\ backlog \in [Daemon -> Seq(Client)]
    /\ serves \in [Daemon -> Client \cup {None}]
    /\ step \in [Daemon -> {"accept", "length", "body", "execute", "executing", "answer"}]
    /\ at \in [Client -> {"idle", "length", "body", "answer", "dead"}]
    /\ peer \in [Client -> Daemon \cup {None}]
    /\ wrote \in [Client -> 0 .. 2] /\ answered \in [Client -> 0 .. 2]
    /\ fate \in [Client -> {"asked", "running", "done", "failed"}]
    /\ said \in [Client -> {"none", "ok", "error", "lost", "no daemon"}]
    /\ stalled \subseteq Client
    /\ overlapped \in BOOLEAN
    /\ faults \in Nat
    /\ \A d \in Daemon : serves[d] # None => Running(d) /\ peer[serves[d]] = d
    /\ \A d \in Daemon : \A x \in DOMAIN backlog[d] :
          /\ Running(d) /\ peer[backlog[d][x]] = d /\ serves[d] # backlog[d][x]
          /\ \A y \in DOMAIN backlog[d] : backlog[d][x] = backlog[d][y] => x = y

Phase == [c \in Client |-> IF at[c] = "idle" THEN "idle" ELSE fate[c]]
Dead == [c \in Client |-> at[c] = "dead"]

Calls == INSTANCE Rpc WITH phase <- Phase, dead <- Dead

\* A request is executed at most once, also when its client is killed or the
\* daemon restarted, and never after its client was told that it is lost; who is
\* told of success or of an error is told of its own request (sendRequestToDaemon,
\* handleConnection).
IsRemoteCall == Calls!Spec

\* As long as no daemon is started while another one runs, the socket file leads
\* to the daemon that runs, and to one that does not run only if it was killed
\* before it could remove it (New, cleanUp).
SocketFileTrue ==
    ~overlapped =>
        /\ \A d \in Daemon : Listening(d) => path = d
        /\ \A d \in Daemon : up[d] = "cleaned" => path # d

Asking(c) == at[c] \in {"length", "body", "answer"}

\* The daemon waits for a client that does not write.
Held == \E d \in Daemon : serves[d] \in stalled /\ step[d] \in {"length", "body"}

\* Whoever asks is answered, or stopped itself, unless the daemon is held for
\* ever by a client that is stopped in the middle of its request: there is no
\* deadline (daemon.go:124).
AnsweredUnlessHeld ==
    <>[]Held \/ \A c \in Client : Asking(c) ~> (~Asking(c) \/ c \in stalled)
-----------------------------------------------------------------------------
(* Why: the inductive invariant.                                           *)

\* What a client has written and read, and what its connection says of it.
ClientSound ==
    \A c \in Client :
        /\ at[c] = "idle" => peer[c] = None
        /\ at[c] = "length" => wrote[c] = 0
        /\ at[c] = "body" => wrote[c] = 1
        /\ peer[c] # None => answered[c] < 2
        /\ answered[c] > 0 => fate[c] \in {"done", "failed"}

\* Connections are made to daemons that listen, or have listened.
EmptyUnlessUp(d) == up[d] \notin {"up", "cleaned"} => serves[d] = None /\ backlog[d] = <<>>

\* How far the request of a connection has come.
ConnectionSound ==
    \A d \in Daemon :
        /\ EmptyUnlessUp(d)
        /\ serves[d] # None =>
              /\ step[d] # "accept"
              /\ step[d] \in {"length", "body", "execute"} => fate[serves[d]] = "asked"
              /\ step[d] = "executing" => fate[serves[d]] = "running"
              /\ step[d] = "answer" => fate[serves[d]] \in {"done", "failed"}
              /\ step[d] # "answer" => answered[serves[d]] = 0
        /\ \A x \in DOMAIN backlog[d] :
              fate[backlog[d][x]] = "asked" /\ answered[backlog[d][x]] = 0

OneRuns == ~overlapped => \A d, e \in Daemon : Running(d) /\ Running(e) => d = e

IInv == TypeOK /\ ClientSound /\ ConnectionSound /\ OneRuns /\ SocketFileTrue
=============================================================================
