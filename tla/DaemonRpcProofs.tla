-------------------------- MODULE DaemonRpcProofs --------------------------
(***************************************************************************)
(* Requests to the daemon, for any clients, daemons and faults: where a    *)
(* connection is, where the socket file leads, and that a request is       *)
(* executed at most once and its client told the truth of it.              *)
(***************************************************************************)
EXTENDS DaemonRpc, TLAPS

USE RpcAssumption

\* TypeOK in parts: what a variable may be, who is served, who waits.
Types ==
    /\ path \in Daemon \cup {None}
    /\ up \in [Daemon -> {"down", "starting", "up", "cleaned"}]
    /\ backlog \in [Daemon -> Seq(Client)]
    /\ serves \in [Daemon -> Client \cup {None}]
    /\ step \in [Daemon -> {"accept", "length", "body", "execute", "executing", "answer"}]
    /\ at \in [Client -> {"idle", "length", "body", "answer", "dead"}]
    /\ peer \in [Client -> Daemon \cup {None}]
    /\ wrote \in [Client -> 0 .. 2] /\ answered \in [Client -> 0 .. 2]
    /\ fate \in [Client -> {"asked", "running", "done", "failed"}]
    /\ said \in [Client -> {"none", "ok", "error", "lost", "no daemon"}]
    /\ stalled \subseteq Client
    /\ overlapped \in BOOLEAN
    /\ faults \in Nat

Served == \A d \in Daemon : serves[d] # None => Running(d) /\ peer[serves[d]] = d

\* A waiting connection is a new one of a running daemon's, and waits once.
Waits(d, c) == Running(d) /\ peer[c] = d /\ serves[d] # c /\ fate[c] = "asked" /\ answered[c] = 0

Once(s) == \A x, y \in DOMAIN s : s[x] = s[y] => x = y

Queue(d) == Once(backlog[d]) /\ \A x \in DOMAIN backlog[d] : Waits(d, backlog[d][x])

\* How far a daemon is with the request it handles.
Handling(d) ==
    serves[d] # None =>
        /\ step[d] # "accept"
        /\ step[d] \in {"length", "body", "execute"} => fate[serves[d]] = "asked"
        /\ step[d] = "executing" => fate[serves[d]] = "running"
        /\ step[d] = "answer" => fate[serves[d]] \in {"done", "failed"}
        /\ step[d] # "answer" => answered[serves[d]] = 0

Parts ==
    /\ Types /\ Served /\ ClientSound
    /\ \A d \in Daemon : EmptyUnlessUp(d) /\ Queue(d) /\ Handling(d)
    /\ OneRuns /\ SocketFileTrue

\* The invariant, taken apart into what each client, connection and queue satisfies.
LEMMA TheParts == ASSUME IInv PROVE Parts
<1>1. Types /\ Served
  BY DEF IInv, TypeOK, Types, Served
<1>2. ASSUME NEW d \in Daemon PROVE Queue(d)
  <2>1. Once(backlog[d])
    BY DEF IInv, TypeOK, Once
  <2>2. ASSUME NEW x \in DOMAIN backlog[d] PROVE Waits(d, backlog[d][x])
    <3>1. Running(d) /\ peer[backlog[d][x]] = d /\ serves[d] # backlog[d][x]
      BY DEF IInv, TypeOK
    <3>2. fate[backlog[d][x]] = "asked" /\ answered[backlog[d][x]] = 0
      BY DEF IInv, ConnectionSound
    <3>3. QED
      BY <3>1, <3>2 DEF Waits
  <2>3. QED
    BY <2>1, <2>2 DEF Queue
<1>3. \A d \in Daemon : EmptyUnlessUp(d) /\ Handling(d)
  BY DEF IInv, ConnectionSound, Handling
<1>4. QED
  BY <1>1, <1>2, <1>3 DEF IInv, Parts

\* And put together again.
LEMMA OfParts == Parts' => IInv'
BY DEF IInv, Parts, TypeOK, Types, Served, Queue, Once, Waits, Handling, ConnectionSound

\* Who waits and who is served are clients.
LEMMA Elements ==
    ASSUME Types, NEW d \in Daemon
    PROVE  /\ backlog[d] \in Seq(Client) /\ \A x \in DOMAIN backlog[d] : backlog[d][x] \in Client
           /\ serves[d] \in Client \cup {None}
           /\ serves[d] # None => serves[d] \in Client
<1>1. backlog[d] \in Seq(Client) /\ serves[d] \in Client \cup {None}
  BY DEF Types
<1>2. \A x \in DOMAIN backlog[d] : backlog[d][x] \in Client
  BY <1>1
<1>3. QED
  BY <1>1, <1>2
-----------------------------------------------------------------------------
(* Sequences.                                                              *)

\* A queue that gains one element at its end, each still there once.
LEMMA AppendElements ==
    ASSUME NEW S, NEW s \in Seq(S), NEW e \in S, Once(s), \A x \in DOMAIN s : s[x] # e
    PROVE  /\ Append(s, e) \in Seq(S) /\ Once(Append(s, e))
           /\ \A x \in DOMAIN Append(s, e) : Append(s, e)[x] = e \/ \E y \in DOMAIN s : Append(s, e)[x] = s[y]
<1>1. /\ Append(s, e) \in Seq(S) /\ Len(Append(s, e)) = Len(s) + 1 /\ Len(s) \in Nat
      /\ DOMAIN s = 1 .. Len(s) /\ DOMAIN Append(s, e) = 1 .. (Len(s) + 1)
      /\ \A x \in 1 .. Len(s) : Append(s, e)[x] = s[x]
      /\ Append(s, e)[Len(s) + 1] = e
  OBVIOUS
<1>2. \A x \in 1 .. (Len(s) + 1) : x = Len(s) + 1 \/ x \in 1 .. Len(s)
  BY <1>1
<1> DEFINE t == Append(s, e)
<1> HIDE DEF t
<1>3. QED
  BY <1>1, <1>2 DEF Once, t

\* A queue that loses its first element, each still there once.
LEMMA TailElements ==
    ASSUME NEW S, NEW s \in Seq(S), s # <<>>, Once(s)
    PROVE  /\ Head(s) \in S /\ (\E x \in DOMAIN s : s[x] = Head(s))
           /\ Tail(s) \in Seq(S) /\ Once(Tail(s))
           /\ \A x \in DOMAIN Tail(s) : Tail(s)[x] # Head(s) /\ \E y \in DOMAIN s : Tail(s)[x] = s[y]
<1>1. /\ Len(s) \in Nat \ {0} /\ DOMAIN s = 1 .. Len(s) /\ Head(s) = s[1] /\ 1 \in DOMAIN s
      /\ Tail(s) \in Seq(S) /\ DOMAIN Tail(s) = 1 .. (Len(s) - 1)
      /\ \A x \in 1 .. (Len(s) - 1) : Tail(s)[x] = s[x + 1]
  OBVIOUS
<1>2. \A x \in 1 .. (Len(s) - 1) : x + 1 \in DOMAIN s /\ x + 1 # 1
  BY <1>1
<1>3. Head(s) \in S
  BY <1>1
<1> DEFINE t == Tail(s)
           h == Head(s)
<1> HIDE DEF t, h
<1>4. Once(t)
  <2> SUFFICES ASSUME NEW x \in 1 .. (Len(s) - 1), NEW y \in 1 .. (Len(s) - 1), t[x] = t[y] PROVE x = y
    BY <1>1 DEF Once, t
  <2>1. s[x + 1] = s[y + 1]
    BY <1>1 DEF t
  <2>2. x + 1 = y + 1
    BY <1>2, <2>1 DEF Once
  <2>3. QED
    BY <1>1, <2>2
<1>5. \A x \in DOMAIN t : t[x] # h /\ \E y \in DOMAIN s : t[x] = s[y]
  <2> SUFFICES ASSUME NEW x \in 1 .. (Len(s) - 1) PROVE t[x] # h /\ \E y \in DOMAIN s : t[x] = s[y]
    BY <1>1 DEF t
  <2>1. t[x] = s[x + 1] /\ h = s[1]
    BY <1>1 DEF t, h
  <2>2. QED
    BY <1>1, <1>2, <2>1 DEF Once
<1>6. QED
  BY <1>1, <1>3, <1>4, <1>5 DEF t, h
-----------------------------------------------------------------------------
(* What a step leaves alone.                                               *)

\* A step of a client on its side of its connection.
LEMMA ClientMoves ==
    ASSUME Parts, Types', ClientSound',
           UNCHANGED <<path, up, backlog, serves, step, peer, answered, fate, overlapped>>
    PROVE  Parts'
<1>1. \A d \in Daemon : (Running(d)' <=> Running(d)) /\ (Listening(d)' <=> Listening(d))
  BY DEF Running, Listening
<1>2. \A d \in Daemon, c \in Client : Waits(d, c) => Waits(d, c)'
  BY <1>1 DEF Waits
<1>3. \A d \in Daemon : EmptyUnlessUp(d)' /\ Queue(d)' /\ Handling(d)'
  BY <1>2, Elements DEF Parts, EmptyUnlessUp, Queue, Handling
<1>4. Served' /\ OneRuns' /\ SocketFileTrue'
  BY <1>1 DEF Parts, Types, Served, OneRuns, SocketFileTrue
<1>5. QED
  BY <1>3, <1>4 DEF Parts

\* A step of a daemon in its handling of a request.
LEMMA DaemonMoves ==
    ASSUME Parts, NEW d \in Daemon, NEW c \in Client, serves[d] = c,
           NEW f \in {"asked", "running", "done", "failed"}, NEW n \in 0 .. 1,
           NEW s \in {"length", "body", "execute", "executing", "answer"},
           fate' = [fate EXCEPT ![c] = f], answered' = [answered EXCEPT ![c] = n],
           step' = [step EXCEPT ![d] = s],
           s \in {"length", "body", "execute"} => f = "asked",
           s = "executing" => f = "running",
           s = "answer" => f \in {"done", "failed"},
           s # "answer" => n = 0,
           UNCHANGED <<path, up, backlog, serves, at, peer, wrote, said, stalled, overlapped, faults>>
    PROVE  Parts'
<1>1. Types'
  <2>1. fate' \in [Client -> {"asked", "running", "done", "failed"}]
    BY DEF Parts, Types
  <2>2. answered' \in [Client -> 0 .. 2]
    <3>1. answered \in [Client -> 0 .. 2]
      BY DEF Parts, Types
    <3>2. n \in 0 .. 2
      OBVIOUS
    <3>3. QED
      BY <3>1, <3>2
  <2>3. step' \in [Daemon -> {"accept", "length", "body", "execute", "executing", "answer"}]
    BY DEF Parts, Types
  <2>4. QED
    BY <2>1, <2>2, <2>3 DEF Parts, Types
<1>2. \A e \in Daemon : (Running(e)' <=> Running(e)) /\ (Listening(e)' <=> Listening(e))
  BY DEF Running, Listening
<1>3. /\ \A b \in Client : b # c => fate'[b] = fate[b] /\ answered'[b] = answered[b]
      /\ fate'[c] = f /\ answered'[c] = n /\ peer[c] = d
      /\ step'[d] = s /\ \A e \in Daemon : e # d => step'[e] = step[e]
  BY DEF Parts, Types, Served
<1>4. ClientSound'
  BY <1>3 DEF Parts, ClientSound
<1>5. \A e \in Daemon, b \in Client : Waits(e, b) => Waits(e, b)'
  BY <1>2, <1>3 DEF Waits
<1>6. \A e \in Daemon : EmptyUnlessUp(e)' /\ Queue(e)'
  BY <1>5, Elements DEF Parts, EmptyUnlessUp, Queue
<1>7. ASSUME NEW e \in Daemon PROVE Handling(e)'
  <2>1. CASE e = d
    BY <1>3, <2>1 DEF Handling
  <2>2. CASE e # d
    <3>1. serves[e] # None => serves[e] \in Client /\ serves[e] # c
      BY <1>3, <2>2, Elements DEF Parts, Served
    <3>2. QED
      BY <1>3, <2>2, <3>1 DEF Parts, Handling
  <2>3. QED
    BY <2>1, <2>2
<1>8. Served' /\ OneRuns' /\ SocketFileTrue'
  BY <1>2 DEF Parts, Types, Served, OneRuns, SocketFileTrue
<1>9. QED
  BY <1>1, <1>4, <1>6, <1>7, <1>8 DEF Parts

\* A daemon closes the connection it handles.
LEMMA Closes ==
    ASSUME Parts, NEW d \in Daemon, NEW c \in Client, serves[d] = c, Close(d),
           NEW n \in 0 .. 2, answered' = [answered EXCEPT ![c] = n],
           n > 0 => fate[c] \in {"done", "failed"},
           UNCHANGED <<path, fate, overlapped, faults>>
    PROVE  Parts'
<1>1. /\ serves' = [serves EXCEPT ![d] = None] /\ step' = [step EXCEPT ![d] = "accept"]
      /\ peer' = [peer EXCEPT ![c] = None]
      /\ at' = [at EXCEPT ![c] = IF @ = "dead" THEN "idle" ELSE @]
      /\ UNCHANGED <<up, backlog, wrote, said, stalled>>
  BY DEF Close
<1>2. Types'
  BY <1>1 DEF Parts, Types
<1>3. \A e \in Daemon : (Running(e)' <=> Running(e)) /\ (Listening(e)' <=> Listening(e))
  BY <1>1 DEF Running, Listening
<1>4. /\ \A b \in Client : b # c => peer'[b] = peer[b] /\ answered'[b] = answered[b] /\ at'[b] = at[b]
      /\ peer'[c] = None /\ answered'[c] = n /\ peer[c] = d
      /\ at'[c] = IF at[c] = "dead" THEN "idle" ELSE at[c]
      /\ serves'[d] = None
      /\ \A e \in Daemon : e # d => serves'[e] = serves[e] /\ step'[e] = step[e]
  BY <1>1 DEF Parts, Types, Served
<1>5. ClientSound'
  BY <1>1, <1>4 DEF Parts, ClientSound
<1>6. \A e \in Daemon, b \in Client : Waits(e, b) => Waits(e, b)'
  BY <1>3, <1>4 DEF Waits
<1>7. \A e \in Daemon : EmptyUnlessUp(e)' /\ Queue(e)'
  BY <1>1, <1>4, <1>6, Elements DEF Parts, EmptyUnlessUp, Queue
<1>8. \A e \in Daemon : serves'[e] # None => e # d /\ serves[e] \in Client /\ serves[e] # c
  BY <1>4, Elements DEF Parts, Served
<1>9. Served' /\ \A e \in Daemon : Handling(e)'
  BY <1>3, <1>4, <1>8 DEF Parts, Served, Handling
<1>10. OneRuns' /\ SocketFileTrue'
  BY <1>1, <1>3 DEF Parts, OneRuns, SocketFileTrue
<1>11. QED
  BY <1>2, <1>5, <1>7, <1>9, <1>10 DEF Parts

\* The process of a daemon ends.
LEMMA ProcessEnds ==
    ASSUME Parts, NEW d \in Daemon, Running(d), Gone(d), faults' \in Nat, UNCHANGED path
    PROVE  Parts'
<1> DEFINE lost == {c \in Client : peer[c] = d}
<1>1. /\ up' = [up EXCEPT ![d] = "down"] /\ backlog' = [backlog EXCEPT ![d] = <<>>]
      /\ serves' = [serves EXCEPT ![d] = None] /\ step' = [step EXCEPT ![d] = "accept"]
      /\ peer' = [c \in Client |-> IF c \in lost THEN None ELSE peer[c]]
      /\ at' = [c \in Client |-> IF c \in lost /\ at[c] = "dead" THEN "idle" ELSE at[c]]
      /\ UNCHANGED <<wrote, said, stalled, answered, fate, overlapped>>
  BY DEF Gone
<1>2. Types'
  <2>1. up' \in [Daemon -> {"down", "starting", "up", "cleaned"}]
    BY <1>1 DEF Parts, Types
  <2>2. backlog' \in [Daemon -> Seq(Client)]
    <3>1. backlog \in [Daemon -> Seq(Client)]
      BY DEF Parts, Types
    <3>2. <<>> \in Seq(Client)
      OBVIOUS
    <3>3. QED
      BY <1>1, <3>1, <3>2
  <2>3. /\ serves' \in [Daemon -> Client \cup {None}]
        /\ step' \in [Daemon -> {"accept", "length", "body", "execute", "executing", "answer"}]
    BY <1>1 DEF Parts, Types
  <2>4. /\ peer' \in [Client -> Daemon \cup {None}]
        /\ at' \in [Client -> {"idle", "length", "body", "answer", "dead"}]
    BY <1>1 DEF Parts, Types
  <2>5. QED
    BY <1>1, <2>1, <2>2, <2>3, <2>4 DEF Parts, Types
<1>3. /\ \A e \in Daemon : e # d => /\ (Running(e)' <=> Running(e)) /\ (Listening(e)' <=> Listening(e))
                                    /\ up'[e] = up[e] /\ serves'[e] = serves[e] /\ step'[e] = step[e]
                                    /\ backlog'[e] = backlog[e]
      /\ ~Running(d)' /\ up'[d] = "down" /\ serves'[d] = None /\ backlog'[d] = <<>>
  BY <1>1 DEF Parts, Types, Running, Listening
<1>4. /\ \A c \in Client : peer[c] # d => peer'[c] = peer[c] /\ at'[c] = at[c]
      /\ \A c \in Client : peer[c] = d => peer'[c] = None
      /\ \A c \in Client : at'[c] = at[c] \/ (at'[c] = "idle" /\ peer'[c] = None)
  BY <1>1
<1>5. ClientSound'
  BY <1>1, <1>4 DEF Parts, ClientSound
<1>6. \A e \in Daemon, c \in Client : e # d /\ Waits(e, c) => Waits(e, c)'
  BY <1>1, <1>3, <1>4 DEF Waits
<1>7. ASSUME NEW e \in Daemon PROVE EmptyUnlessUp(e)' /\ Queue(e)'
  <2>1. CASE e = d
    BY <1>3, <2>1 DEF EmptyUnlessUp, Queue, Once
  <2>2. CASE e # d
    BY <1>3, <1>6, <2>2, Elements DEF Parts, EmptyUnlessUp, Queue
  <2>3. QED
    BY <2>1, <2>2
<1>8. Served' /\ \A e \in Daemon : Handling(e)'
  <2>1. \A e \in Daemon : serves'[e] # None => e # d /\ serves[e] \in Client /\ peer[serves[e]] = e
    BY <1>3, Elements DEF Parts, Served
  <2>2. QED
    BY <1>1, <1>3, <1>4, <2>1 DEF Parts, Served, Handling
<1>9. OneRuns'
  BY <1>1, <1>3 DEF Parts, OneRuns
<1>10. SocketFileTrue'
  BY <1>1, <1>3 DEF Parts, SocketFileTrue, Listening
<1>11. QED
  BY <1>2, <1>5, <1>7, <1>8, <1>9, <1>10 DEF Parts
-----------------------------------------------------------------------------
(* The steps of a client.                                                  *)

\* Who has been answered or cut off has no connection: returning closes none.
LEMMA Returns ==
    ASSUME Parts, NEW c \in Client, at[c] # "idle", peer[c] = None,
           NEW a \in {"ok", "error", "lost"}, Return(c, a), wrote' = wrote, answered' = answered,
           UNCHANGED <<path, daemonVars, fate, stalled, overlapped, faults>>
    PROVE  Parts'
<1>1. /\ at' = [at EXCEPT ![c] = "idle"] /\ said' = [said EXCEPT ![c] = a]
      /\ UNCHANGED <<up, backlog, serves, step>>
  BY DEF Return, Goto, daemonVars
<1>2. peer' = peer
  <2>1. peer \in [Client -> Daemon \cup {None}] /\ peer' = [peer EXCEPT ![c] = None]
    BY DEF Parts, Types, Return
  <2>2. QED
    BY <2>1
<1>3. Types'
  <2>1. /\ at' \in [Client -> {"idle", "length", "body", "answer", "dead"}]
        /\ said' \in [Client -> {"none", "ok", "error", "lost", "no daemon"}]
    BY <1>1 DEF Parts, Types
  <2>2. QED
    BY <1>1, <1>2, <2>1 DEF Parts, Types
<1>4. at'[c] = "idle" /\ \A b \in Client : b # c => at'[b] = at[b]
  BY <1>1 DEF Parts, Types
<1>5. ClientSound'
  BY <1>2, <1>4 DEF Parts, ClientSound
<1>6. QED
  BY <1>1, <1>2, <1>3, <1>5, ClientMoves

\* The steps of a client keep the parts: connecting to the socket file,
LEMMA DialStep == ASSUME Parts, NEW c \in Client, Dial(c) PROVE Parts'
<1>1. at[c] = "idle" /\ peer[c] = None
  BY DEF Parts, ClientSound, Dial
<1>2. CASE ~(path # None /\ up[path] \in {"up", "cleaned"})
  <2>1. said' = [said EXCEPT ![c] = "no daemon"]
        /\ UNCHANGED <<path, up, backlog, serves, step, at, peer, wrote, answered, fate, stalled, overlapped, faults>>
    BY <1>2 DEF Dial
  <2>2. Types'
    BY <2>1 DEF Parts, Types
  <2>3. ClientSound'
    BY <2>1 DEF Parts, ClientSound
  <2>4. QED
    BY <2>1, <2>2, <2>3, ClientMoves
<1>3. CASE path # None /\ up[path] \in {"up", "cleaned"}
  <2>1. /\ backlog' = [backlog EXCEPT ![path] = Append(@, c)]
        /\ peer' = [peer EXCEPT ![c] = path] /\ at' = [at EXCEPT ![c] = "length"]
        /\ wrote' = [wrote EXCEPT ![c] = 0] /\ answered' = [answered EXCEPT ![c] = 0]
        /\ fate' = [fate EXCEPT ![c] = "asked"] /\ said' = [said EXCEPT ![c] = "none"]
        /\ UNCHANGED <<path, up, serves, step, stalled, overlapped, faults>>
    BY <1>3 DEF Dial, Goto
  <2>2. path \in Daemon /\ Running(path)
    BY <1>3 DEF Parts, Types, Running
  <2>3. \A d \in Daemon : (Running(d)' <=> Running(d)) /\ (Listening(d)' <=> Listening(d))
    BY <2>1 DEF Running, Listening
  <2>4. /\ \A b \in Client : b # c => /\ peer'[b] = peer[b] /\ at'[b] = at[b] /\ wrote'[b] = wrote[b]
                                      /\ answered'[b] = answered[b] /\ fate'[b] = fate[b]
        /\ peer'[c] = path /\ at'[c] = "length" /\ wrote'[c] = 0 /\ answered'[c] = 0 /\ fate'[c] = "asked"
    BY <2>1 DEF Parts, Types
  <2>5. \A d \in Daemon : /\ \A x \in DOMAIN backlog[d] : backlog[d][x] # c
                          /\ serves[d] # c
    BY <1>1, <2>2, Elements DEF Parts, Queue, Waits, Served
  <2>6. /\ Append(backlog[path], c) \in Seq(Client) /\ Once(Append(backlog[path], c))
        /\ \A x \in DOMAIN Append(backlog[path], c) :
              Append(backlog[path], c)[x] = c \/ \E y \in DOMAIN backlog[path] : Append(backlog[path], c)[x] = backlog[path][y]
    BY <2>2, <2>5, Elements, AppendElements DEF Parts, Queue
  <2>7. backlog'[path] = Append(backlog[path], c) /\ \A d \in Daemon : d # path => backlog'[d] = backlog[d]
    BY <2>1, <2>2 DEF Parts, Types
  <2>8. Types'
    <3>1. backlog' \in [Daemon -> Seq(Client)]
      BY <2>1, <2>2, <2>6 DEF Parts, Types
    <3>2. peer' \in [Client -> Daemon \cup {None}] /\ wrote' \in [Client -> 0 .. 2] /\ answered' \in [Client -> 0 .. 2]
      <4>1. 0 \in 0 .. 2
        OBVIOUS
      <4>2. QED
        BY <2>1, <2>2, <4>1 DEF Parts, Types
    <3>3. /\ fate' \in [Client -> {"asked", "running", "done", "failed"}]
          /\ said' \in [Client -> {"none", "ok", "error", "lost", "no daemon"}]
          /\ at' \in [Client -> {"idle", "length", "body", "answer", "dead"}]
      BY <2>1 DEF Parts, Types
    <3>4. QED
      BY <2>1, <3>1, <3>2, <3>3 DEF Parts, Types
  <2>9. ClientSound'
    BY <2>2, <2>4 DEF Parts, ClientSound
  <2>10. \A d \in Daemon, b \in Client : b # c /\ Waits(d, b) => Waits(d, b)'
    BY <2>1, <2>3, <2>4 DEF Waits
  <2>11. \A d \in Daemon : d = path => Waits(d, c)'
    BY <2>1, <2>2, <2>3, <2>4, <2>5 DEF Waits
  <2>12. ASSUME NEW d \in Daemon PROVE Queue(d)'
    <3>1. CASE d = path
      <4>1. \A b : (\E y \in DOMAIN backlog[d] : b = backlog[d][y]) => Waits(d, b)'
        BY <2>5, <2>10, Elements DEF Parts, Queue
      <4>2. \A x \in DOMAIN backlog'[d] : \A b : b = backlog'[d][x] => Waits(d, b)'
        BY <2>6, <2>7, <2>11, <3>1, <4>1
      <4>3. QED
        BY <2>6, <2>7, <3>1, <4>2 DEF Queue, Waits
    <3>2. CASE d # path
      BY <2>5, <2>7, <2>10, <3>2, Elements DEF Parts, Queue
    <3>3. QED
      BY <3>1, <3>2
  <2>13. Served' /\ \A d \in Daemon : EmptyUnlessUp(d)' /\ Handling(d)'
    BY <1>3, <2>1, <2>3, <2>4, <2>5, <2>7, Elements DEF Parts, Served, EmptyUnlessUp, Handling
  <2>14. OneRuns' /\ SocketFileTrue'
    BY <2>1, <2>3 DEF Parts, OneRuns, SocketFileTrue
  <2>15. QED
    BY <2>8, <2>9, <2>12, <2>13, <2>14 DEF Parts
<1>4. QED
  BY <1>2, <1>3

\* writing length and body of the request,
LEMMA WriteStep == ASSUME Parts, NEW c \in Client, Write(c) PROVE Parts'
<1>1. CASE peer[c] = None
  BY <1>1, Returns DEF Write
<1>2. CASE peer[c] # None
  <2>1. /\ at[c] \in {"length", "body"} /\ wrote' = [wrote EXCEPT ![c] = @ + 1]
        /\ at' = [at EXCEPT ![c] = IF at[c] = "length" THEN "body" ELSE "answer"]
        /\ UNCHANGED <<path, up, backlog, serves, step, peer, answered, fate, said, stalled, overlapped, faults>>
    BY <1>2 DEF Write, Goto, daemonVars
  <2>2. at[c] = "length" => wrote[c] = 0 /\ wrote[c] + 1 = 1
    BY DEF Parts, ClientSound
  <2>3. at[c] = "body" => wrote[c] = 1 /\ wrote[c] + 1 = 2
    BY DEF Parts, ClientSound
  <2>4. wrote' \in [Client -> 0 .. 2]
    <3>1. wrote[c] + 1 \in 0 .. 2 /\ wrote \in [Client -> 0 .. 2]
      <4>1. wrote \in [Client -> 0 .. 2]
        BY DEF Parts, Types
      <4>2. wrote[c] + 1 \in 0 .. 2
        BY <2>1, <2>2, <2>3
      <4>3. QED
        BY <4>1, <4>2
    <3>2. QED
      BY <2>1, <3>1
  <2>5. Types'
    <3>1. at' \in [Client -> {"idle", "length", "body", "answer", "dead"}]
      BY <2>1 DEF Parts, Types
    <3>2. QED
      BY <2>1, <2>4, <3>1 DEF Parts, Types
  <2>6. /\ \A b \in Client : b # c => at'[b] = at[b] /\ wrote'[b] = wrote[b]
        /\ at'[c] = (IF at[c] = "length" THEN "body" ELSE "answer") /\ wrote'[c] = wrote[c] + 1
    BY <2>1 DEF Parts, Types
  <2>7. ClientSound'
    BY <2>1, <2>2, <2>6 DEF Parts, ClientSound
  <2>8. QED
    BY <2>1, <2>5, <2>7, ClientMoves
<1>3. QED
  BY <1>1, <1>2

\* reading the answer or the end of the connection,
LEMMA ReceiveStep == ASSUME Parts, NEW c \in Client, Receive(c) PROVE Parts'
<1>1. at[c] # "idle" /\ peer[c] = None
  <2>1. at[c] = "answer" /\ (answered[c] = 2 \/ peer[c] = None)
    BY DEF Receive
  <2>2. QED
    BY <2>1 DEF Parts, ClientSound
<1>2. /\ \E a \in {"ok", "error", "lost"} : Return(c, a)
      /\ wrote' = wrote /\ answered' = answered
      /\ UNCHANGED <<path, daemonVars, fate, stalled, overlapped, faults>>
  BY DEF Receive
<1>3. QED
  BY <1>1, <1>2, Returns

\* and ending in the middle of a request.
LEMMA DieStep == ASSUME Parts, NEW c \in Client, Die(c) PROVE Parts'
<1>1. /\ at' = [at EXCEPT ![c] = IF peer[c] = None THEN "idle" ELSE "dead"]
      /\ stalled' = stalled \ {c} /\ faults' = faults + 1
      /\ UNCHANGED <<path, up, backlog, serves, step, peer, wrote, answered, fate, said, overlapped>>
  BY DEF Die, Goto, daemonVars
<1>2. Types'
  <2>1. at' \in [Client -> {"idle", "length", "body", "answer", "dead"}]
    BY <1>1 DEF Parts, Types
  <2>2. stalled' \subseteq Client /\ faults' \in Nat
    <3>1. stalled \subseteq Client /\ faults \in Nat
      BY DEF Parts, Types
    <3>2. QED
      BY <1>1, <3>1
  <2>3. QED
    BY <1>1, <2>1, <2>2 DEF Parts, Types
<1>3. at'[c] \in {"idle", "dead"} /\ (at'[c] = "idle" => peer[c] = None)
      /\ \A b \in Client : b # c => at'[b] = at[b]
  BY <1>1 DEF Parts, Types
<1>4. ClientSound'
  BY <1>1, <1>3 DEF Parts, ClientSound
<1>5. QED
  BY <1>1, <1>2, <1>4, ClientMoves

\* A client stops or goes on.
LEMMA StallStep == ASSUME Parts, NEW c \in Client, Stall(c) \/ GoOn(c) PROVE Parts'
<1>1. /\ stalled' \in SUBSET Client /\ faults' \in Nat
      /\ UNCHANGED <<path, up, backlog, serves, step, at, peer, wrote, answered, fate, said, overlapped>>
  <2>1. stalled \subseteq Client /\ faults \in Nat
    BY DEF Parts, Types
  <2>2. QED
    BY <2>1 DEF Stall, GoOn, daemonVars
<1>2. Types' /\ ClientSound'
  BY <1>1 DEF Parts, Types, ClientSound
<1>3. QED
  BY <1>1, <1>2, ClientMoves
-----------------------------------------------------------------------------
(* The steps of a daemon.                                                  *)

\* A daemon that starts, listens, gives up or cleans up: its connections stay.
LEMMA UpMoves ==
    ASSUME Parts, Types', OneRuns', SocketFileTrue', NEW d \in Daemon,
           NEW u \in {"down", "starting", "up", "cleaned"}, up' = [up EXCEPT ![d] = u],
           u \in {"up", "cleaned"} \/ up[d] \notin {"up", "cleaned"},
           UNCHANGED <<backlog, serves, step, at, peer, wrote, answered, fate, said, stalled>>
    PROVE  Parts'
<1>1. up'[d] = u /\ \A e \in Daemon : e # d => up'[e] = up[e]
  <2>1. up \in [Daemon -> {"down", "starting", "up", "cleaned"}]
    BY DEF Parts, Types
  <2>2. QED
    BY <2>1
<1>2. \A e \in Daemon : EmptyUnlessUp(e)'
  BY <1>1 DEF Parts, EmptyUnlessUp
<1>3. ASSUME NEW e \in Daemon, e = d, u \notin {"up", "cleaned"} PROVE serves[e] = None /\ backlog[e] = <<>>
  BY <1>3 DEF Parts, EmptyUnlessUp
<1>4. \A e \in Daemon : Running(e) => Running(e)' \/ (e = d /\ u \notin {"up", "cleaned"})
  BY <1>1 DEF Running
<1>5. \A e \in Daemon, c \in Client : Waits(e, c) => Waits(e, c)' \/ (e = d /\ u \notin {"up", "cleaned"})
  BY <1>4 DEF Waits
<1>6. ASSUME NEW e \in Daemon PROVE Queue(e)'
  <2>1. CASE e = d /\ u \notin {"up", "cleaned"}
    BY <1>3, <2>1 DEF Queue, Once
  <2>2. CASE ~(e = d /\ u \notin {"up", "cleaned"})
    BY <1>5, <2>2, Elements DEF Parts, Queue
  <2>3. QED
    BY <2>1, <2>2
<1>7. Served' /\ ClientSound' /\ \A e \in Daemon : Handling(e)'
  BY <1>3, <1>4 DEF Parts, Served, ClientSound, Handling
<1>8. QED
  BY <1>2, <1>6, <1>7 DEF Parts

\* Starting makes the socket file nobody's: with another daemon about, the two overlap.
LEMMA StartStep == ASSUME Parts, NEW d \in Daemon, Start(d) PROVE Parts'
<1>1. /\ up[d] = "down" /\ up' = [up EXCEPT ![d] = "starting"] /\ path' = None
      /\ overlapped' = (overlapped \/ \E e \in Daemon : Running(e))
      /\ UNCHANGED <<backlog, serves, step, at, peer, wrote, said, stalled, answered, fate, faults>>
  BY DEF Start, clientVars
<1>2. Types'
  <2>1. up' \in [Daemon -> {"down", "starting", "up", "cleaned"}] /\ overlapped' \in BOOLEAN
    BY <1>1 DEF Parts, Types
  <2>2. QED
    BY <1>1, <2>1 DEF Parts, Types
<1>3. up'[d] = "starting" /\ \A e \in Daemon : e # d => up'[e] = up[e]
  BY <1>1 DEF Parts, Types
<1>4. OneRuns' /\ SocketFileTrue'
  BY <1>1, <1>3 DEF OneRuns, SocketFileTrue, Running, Listening
<1>5. QED
  BY <1>1, <1>2, <1>4, UpMoves

\* The steps of a daemon keep the parts: creating its socket,
LEMMA ListenStep == ASSUME Parts, NEW d \in Daemon, Listen(d) PROVE Parts'
<1>1. /\ up[d] = "starting" /\ Running(d)
      /\ UNCHANGED <<backlog, serves, step, at, peer, wrote, said, stalled, answered, fate, overlapped, faults>>
  BY DEF Listen, clientVars, Running
<1>2. CASE path = None
  <2>1. path' = d /\ up' = [up EXCEPT ![d] = "up"]
    BY <1>2 DEF Listen
  <2>2. Types'
    <3>1. up' \in [Daemon -> {"down", "starting", "up", "cleaned"}]
      BY <2>1 DEF Parts, Types
    <3>2. QED
      BY <1>1, <2>1, <3>1 DEF Parts, Types
  <2>3. up'[d] = "up" /\ \A e \in Daemon : e # d => up'[e] = up[e]
    BY <2>1 DEF Parts, Types
  <2>4. OneRuns' /\ SocketFileTrue'
    BY <1>1, <2>1, <2>3 DEF Parts, OneRuns, SocketFileTrue, Running, Listening
  <2>5. QED
    BY <1>1, <2>1, <2>2, <2>4, UpMoves
<1>3. CASE path # None
  <2>1. path' = path /\ up' = [up EXCEPT ![d] = "down"]
    BY <1>3 DEF Listen
  <2>2. Types'
    <3>1. up' \in [Daemon -> {"down", "starting", "up", "cleaned"}]
      BY <2>1 DEF Parts, Types
    <3>2. QED
      BY <1>1, <2>1, <3>1 DEF Parts, Types
  <2>3. up'[d] = "down" /\ \A e \in Daemon : e # d => up'[e] = up[e]
    BY <2>1 DEF Parts, Types
  <2>4. OneRuns' /\ SocketFileTrue'
    BY <1>1, <2>1, <2>3 DEF Parts, OneRuns, SocketFileTrue, Running, Listening
  <2>5. QED
    BY <1>1, <2>1, <2>2, <2>4, UpMoves
<1>4. QED
  BY <1>2, <1>3

\* The first connection that waits is handled: it waits no longer.
LEMMA AcceptStep == ASSUME Parts, NEW d \in Daemon, Accept(d) PROVE Parts'
<1> DEFINE c == Head(backlog[d])
<1>1. /\ Running(d) /\ serves[d] = None /\ backlog[d] # <<>>
      /\ serves' = [serves EXCEPT ![d] = c] /\ backlog' = [backlog EXCEPT ![d] = Tail(@)]
      /\ step' = [step EXCEPT ![d] = "length"]
      /\ UNCHANGED <<path, up, at, peer, wrote, said, stalled, answered, fate, overlapped, faults>>
  BY DEF Accept, clientVars
<1>2. /\ c \in Client /\ (\E x \in DOMAIN backlog[d] : backlog[d][x] = c)
      /\ Tail(backlog[d]) \in Seq(Client) /\ Once(Tail(backlog[d]))
      /\ \A x \in DOMAIN Tail(backlog[d]) :
            Tail(backlog[d])[x] # c /\ \E y \in DOMAIN backlog[d] : Tail(backlog[d])[x] = backlog[d][y]
  BY <1>1, Elements, TailElements DEF Parts, Queue
<1>3. Waits(d, c)
  BY <1>2 DEF Parts, Queue
<1> HIDE DEF c
<1>4. Types'
  <2>1. /\ serves' \in [Daemon -> Client \cup {None}]
        /\ step' \in [Daemon -> {"accept", "length", "body", "execute", "executing", "answer"}]
    BY <1>1, <1>2 DEF Parts, Types
  <2>2. backlog' \in [Daemon -> Seq(Client)]
    BY <1>1, <1>2 DEF Parts, Types
  <2>3. QED
    BY <1>1, <2>1, <2>2 DEF Parts, Types
<1>5. /\ serves'[d] = c /\ step'[d] = "length" /\ backlog'[d] = Tail(backlog[d])
      /\ \A e \in Daemon : e # d => serves'[e] = serves[e] /\ step'[e] = step[e] /\ backlog'[e] = backlog[e]
  BY <1>1 DEF Parts, Types
<1>6. \A e \in Daemon : (Running(e)' <=> Running(e)) /\ (Listening(e)' <=> Listening(e))
  BY <1>1 DEF Running, Listening
<1>7. \A e \in Daemon, b \in Client : b # c /\ Waits(e, b) => Waits(e, b)'
  BY <1>1, <1>5, <1>6 DEF Waits
<1>8. ASSUME NEW e \in Daemon PROVE Queue(e)'
  <2>1. CASE e = d
    <3>1. \A b : (\E y \in DOMAIN backlog[d] : b = backlog[d][y]) /\ b # c => Waits(d, b)'
      BY <1>7, Elements DEF Parts, Queue
    <3>2. \A x \in DOMAIN backlog'[d] : \A b : b = backlog'[d][x] => Waits(d, b)'
      BY <1>2, <1>5, <3>1
    <3>3. QED
      BY <1>2, <1>5, <2>1, <3>2 DEF Queue, Waits
  <2>2. CASE e # d
    <3>1. \A x \in DOMAIN backlog[e] : backlog[e][x] # c
      BY <1>3, <2>2 DEF Parts, Queue, Waits
    <3>2. QED
      BY <1>5, <1>7, <2>2, <3>1, Elements DEF Parts, Queue
  <2>3. QED
    BY <2>1, <2>2
<1>9. Served' /\ ClientSound' /\ \A e \in Daemon : EmptyUnlessUp(e)' /\ Handling(e)'
  <2>1. \A e \in Daemon : EmptyUnlessUp(e)'
    BY <1>1, <1>5 DEF Parts, EmptyUnlessUp
  <2>2. Served'
    BY <1>1, <1>3, <1>5, <1>6 DEF Parts, Served, Waits
  <2>3. \A e \in Daemon : Handling(e)'
    BY <1>1, <1>3, <1>5 DEF Parts, Handling, Waits
  <2>4. ClientSound'
    BY <1>1 DEF Parts, ClientSound
  <2>5. QED
    BY <2>1, <2>2, <2>3, <2>4
<1>10. OneRuns' /\ SocketFileTrue'
  BY <1>1, <1>6 DEF Parts, OneRuns, SocketFileTrue
<1>11. QED
  BY <1>4, <1>8, <1>9, <1>10 DEF Parts

\* Who handles a request handles a client's.
LEMMA TheServed ==
    ASSUME Parts, NEW d \in Daemon, NEW s, Serving(d, s)
    PROVE  /\ serves[d] \in Client /\ Handling(d) /\ step[d] = s /\ serves[d] # None
           /\ fate[serves[d]] \in {"asked", "running", "done", "failed"}
           /\ answered[serves[d]] \in 0 .. 1
           /\ fate = [fate EXCEPT ![serves[d]] = fate[serves[d]]]
           /\ answered = [answered EXCEPT ![serves[d]] = answered[serves[d]]]
<1>1. serves[d] \in Client /\ Handling(d) /\ step[d] = s /\ serves[d] # None
  BY Elements DEF Parts, Serving
<1>2. fate \in [Client -> {"asked", "running", "done", "failed"}] /\ answered \in [Client -> 0 .. 2]
  BY DEF Parts, Types
<1>3. answered[serves[d]] < 2
  BY <1>1 DEF Parts, Served, ClientSound
<1>4. QED
  BY <1>1, <1>2, <1>3

\* Reading advances, or ends with the connection of a client that was killed.
LEMMA ReadStep == ASSUME Parts, NEW d \in Daemon, Read(d) PROVE Parts'
<1>1. PICK s \in {"length", "body"} :
        /\ Serving(d, s)
        /\ \/ Advance(d, IF s = "length" THEN "body" ELSE "execute")
           \/ Close(d)
        /\ UNCHANGED <<path, answered, fate, overlapped, faults>>
  BY DEF Read
<1>2. /\ serves[d] \in Client /\ fate[serves[d]] = "asked" /\ answered[serves[d]] = 0
      /\ fate = [fate EXCEPT ![serves[d]] = "asked"] /\ answered = [answered EXCEPT ![serves[d]] = 0]
  BY <1>1, TheServed DEF Handling
<1>3. CASE Close(d)
  BY <1>1, <1>2, <1>3, Closes
<1>4. CASE Advance(d, IF s = "length" THEN "body" ELSE "execute")
  <2>1. \E t \in {"body", "execute"} : step' = [step EXCEPT ![d] = t]
    BY <1>4 DEF Advance
  <2>2. UNCHANGED <<path, up, backlog, serves, at, peer, wrote, said, stalled, overlapped, faults>>
    BY <1>1, <1>4 DEF Advance, clientVars
  <2>3. fate' = [fate EXCEPT ![serves[d]] = "asked"] /\ answered' = [answered EXCEPT ![serves[d]] = 0]
    BY <1>1, <1>2
  <2>4. 0 \in 0 .. 1
    OBVIOUS
  <2>5. QED
    BY <1>2, <2>1, <2>2, <2>3, <2>4, DaemonMoves
<1>5. QED
  BY <1>1, <1>3, <1>4

\* beginning what was asked,
LEMMA ExecuteStep == ASSUME Parts, NEW d \in Daemon, Execute(d) PROVE Parts'
<1>1. /\ Serving(d, "execute") /\ step' = [step EXCEPT ![d] = "executing"]
      /\ fate' = [fate EXCEPT ![serves[d]] = "running"] /\ answered' = answered
      /\ UNCHANGED <<path, up, backlog, serves, at, peer, wrote, said, stalled, overlapped, faults>>
  BY DEF Execute, Advance, clientVars
<1>2. /\ serves[d] \in Client /\ answered[serves[d]] = 0
      /\ answered = [answered EXCEPT ![serves[d]] = 0]
  BY <1>1, TheServed DEF Handling
<1>3. answered' = [answered EXCEPT ![serves[d]] = 0] /\ 0 \in 0 .. 1
  BY <1>1, <1>2
<1>4. QED
  BY <1>1, <1>2, <1>3, DaemonMoves

\* being done with it,
LEMMA ExecutedStep == ASSUME Parts, NEW d \in Daemon, Executed(d) PROVE Parts'
<1>1. PICK f \in {"done", "failed"} : fate' = [fate EXCEPT ![serves[d]] = f]
  BY DEF Executed
<1>2. /\ Serving(d, "executing") /\ step' = [step EXCEPT ![d] = "answer"]
      /\ answered' = answered
      /\ UNCHANGED <<path, up, backlog, serves, at, peer, wrote, said, stalled, overlapped, faults>>
  BY DEF Executed, Advance, clientVars
<1>3. /\ serves[d] \in Client /\ answered[serves[d]] = 0
      /\ answered = [answered EXCEPT ![serves[d]] = 0]
  BY <1>2, TheServed DEF Handling
<1>4. answered' = [answered EXCEPT ![serves[d]] = 0] /\ 0 \in 0 .. 1
  BY <1>2, <1>3
<1>5. QED
  BY <1>1, <1>2, <1>3, <1>4, DaemonMoves

\* answering the client it serves,
LEMMA AnswerStep == ASSUME Parts, NEW d \in Daemon, Answer(d) PROVE Parts'
<1> DEFINE c == serves[d]
<1>1. Serving(d, "answer") /\ UNCHANGED <<path, fate, overlapped, faults>>
  BY DEF Answer
<1>2. /\ c \in Client /\ fate[c] \in {"done", "failed"} /\ answered[c] \in 0 .. 1
      /\ fate = [fate EXCEPT ![c] = fate[c]] /\ answered = [answered EXCEPT ![c] = answered[c]]
  BY <1>1, TheServed DEF Handling
<1>3. answered[c] \in 0 .. 2 /\ answered[c] + 1 \in 0 .. 2 /\ (answered[c] # 1 => answered[c] + 1 \in 0 .. 1)
  BY <1>2
<1>4. CASE at[c] = "dead"
  <2>1. Close(d) /\ answered' = answered
    BY <1>4 DEF Answer
  <2>2. QED
    BY <1>1, <1>2, <1>3, <2>1, Closes
<1>5. CASE at[c] # "dead" /\ answered[c] = 1
  <2>1. Close(d) /\ answered' = [answered EXCEPT ![c] = answered[c] + 1]
    BY <1>5 DEF Answer
  <2>2. QED
    BY <1>1, <1>2, <1>3, <2>1, Closes
<1>6. CASE at[c] # "dead" /\ answered[c] # 1
  <2>1. /\ step' = [step EXCEPT ![d] = "answer"] /\ answered' = [answered EXCEPT ![c] = answered[c] + 1]
        /\ UNCHANGED <<path, up, backlog, serves, at, peer, wrote, said, stalled, overlapped, faults>>
    BY <1>6 DEF Answer, Advance, clientVars
  <2>2. fate' = [fate EXCEPT ![c] = fate[c]] /\ fate[c] \in {"asked", "running", "done", "failed"}
    BY <1>1, <1>2
  <2>3. QED
    BY <1>2, <1>3, <1>6, <2>1, <2>2, DaemonMoves
<1>7. QED
  BY <1>4, <1>5, <1>6

\* A signal: nobody else's socket file is removed as long as no two daemons overlap.
LEMMA CleanUpStep == ASSUME Parts, NEW d \in Daemon, CleanUp(d) PROVE Parts'
<1>1. /\ Listening(d) /\ path' = None /\ up' = [up EXCEPT ![d] = "cleaned"] /\ faults' = faults + 1
      /\ UNCHANGED <<backlog, serves, step, at, peer, wrote, said, stalled, answered, fate, overlapped>>
  BY DEF CleanUp, clientVars
<1>2. Types'
  <2>1. up' \in [Daemon -> {"down", "starting", "up", "cleaned"}]
    BY <1>1 DEF Parts, Types
  <2>2. faults' \in Nat
    <3>1. faults \in Nat
      BY DEF Parts, Types
    <3>2. QED
      BY <1>1, <3>1
  <2>3. QED
    BY <1>1, <2>1, <2>2 DEF Parts, Types
<1>3. up'[d] = "cleaned" /\ \A e \in Daemon : e # d => up'[e] = up[e]
  BY <1>1 DEF Parts, Types
<1>4. OneRuns'
  BY <1>1, <1>3 DEF Parts, OneRuns, Running, Listening
<1>5. SocketFileTrue'
  BY <1>1, <1>3 DEF Parts, OneRuns, SocketFileTrue, Running, Listening
<1>6. QED
  BY <1>1, <1>2, <1>4, <1>5, UpMoves

\* leaving, with its connections ended,
LEMMA ExitStep == ASSUME Parts, NEW d \in Daemon, Exit(d) PROVE Parts'
<1>1. Running(d) /\ Gone(d) /\ faults' = faults /\ UNCHANGED path
  BY DEF Exit, Running
<1>2. faults \in Nat
  BY DEF Parts, Types
<1>3. QED
  BY <1>1, <1>2, ProcessEnds

\* and being killed.
LEMMA KillStep == ASSUME Parts, NEW d \in Daemon, Kill(d) PROVE Parts'
<1>1. Running(d) /\ Gone(d) /\ faults' = faults + 1 /\ UNCHANGED path
  BY DEF Kill
<1>2. faults \in Nat
  BY DEF Parts, Types
<1>3. QED
  BY <1>1, <1>2, ProcessEnds
-----------------------------------------------------------------------------
\* The invariant holds at the beginning and is preserved.
LEMMA Inductive == Spec => []IInv
<1>1. Init => IInv
  <2> SUFFICES ASSUME Init PROVE IInv
    OBVIOUS
  <2>1. \A d \in Daemon : ~Running(d) /\ ~Listening(d) /\ up[d] # "cleaned" /\ serves[d] = None /\ backlog[d] = <<>>
    BY DEF Init, Running, Listening
  <2>2. TypeOK
    <3>1. <<>> \in Seq(Client) /\ 0 \in 0 .. 2
      OBVIOUS
    <3>2. backlog \in [Daemon -> Seq(Client)] /\ wrote \in [Client -> 0 .. 2] /\ answered \in [Client -> 0 .. 2]
      BY <3>1 DEF Init
    <3>3. \A d \in Daemon : DOMAIN backlog[d] = {}
      BY <2>1
    <3>4. QED
      BY <2>1, <3>2, <3>3 DEF Init, TypeOK
  <2>3. ClientSound /\ ConnectionSound /\ OneRuns /\ SocketFileTrue
    BY <2>1 DEF Init, ClientSound, ConnectionSound, EmptyUnlessUp, OneRuns, SocketFileTrue
  <2>4. QED
    BY <2>2, <2>3 DEF IInv
<1>2. IInv /\ [Next]_vars => IInv'
  <2> SUFFICES ASSUME Parts, [Next]_vars PROVE Parts'
    BY TheParts, OfParts
  <2>1. CASE UNCHANGED vars
    <3>1. UNCHANGED <<path, up, backlog, serves, step, peer, answered, fate, overlapped>>
      BY <2>1 DEF vars
    <3>2. Types' /\ ClientSound'
      BY <2>1 DEF vars, Parts, Types, ClientSound
    <3>3. QED
      BY <3>1, <3>2, ClientMoves
  <2>2. ASSUME NEW c \in Client, Dial(c) \/ ClientStep(c) \/ Die(c) \/ Stall(c) \/ GoOn(c) PROVE Parts'
    BY <2>2, DialStep, WriteStep, ReceiveStep, DieStep, StallStep DEF ClientStep
  <2>3. ASSUME NEW d \in Daemon, Start(d) \/ DaemonStep(d) \/ CleanUp(d) \/ Kill(d) PROVE Parts'
    BY <2>3, StartStep, ListenStep, AcceptStep, ReadStep, ExecuteStep, ExecutedStep, AnswerStep,
       ExitStep, CleanUpStep, KillStep DEF DaemonStep
  <2>4. QED
    BY <2>1, <2>2, <2>3 DEF Next
<1>3. QED
  BY <1>1, <1>2, PTL DEF Spec

\* A connection is in one place only, and who handles one handles a client's
\* (Daemon.Run, Daemon.handleConnection).
THEOREM TypeCorrect == Spec => []TypeOK
<1>1. IInv => TypeOK
  BY DEF IInv
<1>2. QED
  BY <1>1, Inductive, PTL

\* While no daemon is started beside another one, the socket file leads to the
\* daemon that runs, and none leaves it behind that was not killed (New, cleanUp).
THEOREM SocketFileCorrect == Spec => []SocketFileTrue
<1>1. IInv => SocketFileTrue
  BY DEF IInv
<1>2. QED
  BY <1>1, Inductive, PTL
-----------------------------------------------------------------------------
(* The refinement.                                                         *)

\* What touches neither clients nor fates is a stutter of the remote call.
LEMMA SameCalls == ASSUME UNCHANGED <<at, fate, said>> PROVE UNCHANGED Calls!vars
BY DEF Calls!vars, Phase, Dead

\* The phase of a request is that of its fate until its client is done with it.
LEMMA ThePhase ==
    ASSUME Parts, NEW c \in Client
    PROVE  /\ Phase[c] = "idle" <=> at[c] = "idle"
           /\ at[c] # "idle" => Phase[c] = fate[c]
           /\ Dead[c] <=> at[c] = "dead"
BY DEF Parts, Types, Phase, Dead

\* A client that is not killed comes to its end.
LEMMA PhaseEnds ==
    ASSUME Parts, NEW c \in Client, at[c] # "dead", at' = [at EXCEPT ![c] = "idle"], fate' = fate
    PROVE  Phase' = [Phase EXCEPT ![c] = "idle"] /\ Dead' = Dead
<1>1. at'[c] = "idle" /\ \A b \in Client : b # c => at'[b] = at[b]
  BY DEF Parts, Types
<1>2. QED
  BY <1>1 DEF Phase, Dead

\* The answer a client gives its user agrees with what became of the request.
LEMMA ReturnRefines ==
    ASSUME Parts, NEW c \in Client, NEW a, at[c] \notin {"idle", "dead"}, Return(c, a), fate' = fate,
           a = "lost" \/ (a = "ok" /\ fate[c] = "done") \/ (a = "error" /\ fate[c] = "failed")
    PROVE  Calls!Next
<1>1. at' = [at EXCEPT ![c] = "idle"] /\ said' = [said EXCEPT ![c] = a]
  BY DEF Return, Goto
<1>2. Phase' = [Phase EXCEPT ![c] = "idle"] /\ Dead' = Dead
  BY <1>1, PhaseEnds
<1>3. ~Dead[c] /\ Phase[c] = fate[c] /\ Phase[c] # "idle"
  BY ThePhase
<1>4. Calls!Lose(c) \/ Calls!Tell(c)
  BY <1>1, <1>2, <1>3 DEF Calls!Lose, Calls!Tell, Calls!Move, Calls!Say
<1>5. QED
  BY <1>4 DEF Calls!Next

\* Connecting, or finding nobody to connect to,
LEMMA DialRefines == ASSUME Parts, NEW c \in Client, Dial(c) PROVE Calls!Next
<1>1. at[c] = "idle" /\ Phase[c] = "idle" /\ ~Dead[c]
  BY ThePhase DEF Dial
<1>2. CASE path # None /\ up[path] \in {"up", "cleaned"}
  <2>1. /\ at' = [at EXCEPT ![c] = "length"] /\ fate' = [fate EXCEPT ![c] = "asked"]
        /\ said' = [said EXCEPT ![c] = "none"]
    BY <1>2 DEF Dial, Goto
  <2>2. /\ at'[c] = "length" /\ fate'[c] = "asked"
        /\ \A b \in Client : b # c => at'[b] = at[b] /\ fate'[b] = fate[b]
    BY <2>1 DEF Parts, Types
  <2>3. Phase' = [Phase EXCEPT ![c] = "asked"] /\ Dead' = Dead
    BY <1>1, <2>2 DEF Phase, Dead
  <2>4. Calls!Ask(c)
    BY <1>1, <2>1, <2>3 DEF Calls!Ask, Calls!Move, Calls!Say
  <2>5. QED
    BY <2>4 DEF Calls!Next
<1>3. CASE ~(path # None /\ up[path] \in {"up", "cleaned"})
  <2>1. said' = [said EXCEPT ![c] = "no daemon"] /\ UNCHANGED <<at, fate>>
    BY <1>3 DEF Dial
  <2>2. Phase' = Phase /\ Dead' = Dead
    BY <2>1 DEF Phase, Dead
  <2>3. Calls!Refuse(c)
    BY <1>1, <2>1, <2>2 DEF Calls!Refuse, Calls!Say
  <2>4. QED
    BY <2>3 DEF Calls!Next
<1>4. QED
  BY <1>2, <1>3

\* writing,
LEMMA WriteRefines == ASSUME Parts, NEW c \in Client, Write(c) PROVE [Calls!Next]_(Calls!vars)
<1>1. CASE peer[c] = None
  BY <1>1, ReturnRefines DEF Write
<1>2. CASE peer[c] # None
  <2>1. /\ at[c] \in {"length", "body"} /\ UNCHANGED <<fate, said>>
        /\ at' = [at EXCEPT ![c] = IF at[c] = "length" THEN "body" ELSE "answer"]
    BY <1>2 DEF Write, Goto
  <2>2. at'[c] \in {"body", "answer"} /\ \A b \in Client : b # c => at'[b] = at[b]
    BY <2>1 DEF Parts, Types
  <2>3. Phase' = Phase /\ Dead' = Dead
    BY <2>1, <2>2 DEF Phase, Dead
  <2>4. QED
    BY <2>1, <2>3 DEF Calls!vars
<1>3. QED
  BY <1>1, <1>2

\* reading the answer,
LEMMA ReceiveRefines == ASSUME Parts, NEW c \in Client, Receive(c) PROVE Calls!Next
<1>1. at[c] = "answer" /\ fate' = fate /\ (answered[c] = 2 => fate[c] \in {"done", "failed"})
  BY DEF Receive, Parts, ClientSound
<1>2. CASE answered[c] = 2 /\ Return(c, IF fate[c] = "done" THEN "ok" ELSE "error")
  BY <1>1, <1>2, ReturnRefines
<1>3. CASE answered[c] # 2 /\ peer[c] = None /\ Return(c, "lost")
  BY <1>1, <1>3, ReturnRefines
<1>4. QED
  BY <1>2, <1>3 DEF Receive

\* and dying are steps of the remote call or stutters.
LEMMA DieRefines == ASSUME Parts, NEW c \in Client, Die(c) PROVE Calls!Next
<1>1. /\ at[c] \notin {"idle", "dead"} /\ UNCHANGED <<fate, said>>
      /\ at' = [at EXCEPT ![c] = IF peer[c] = None THEN "idle" ELSE "dead"]
  BY DEF Die, Goto
<1>2. Phase[c] # "idle" /\ ~Dead[c]
  BY <1>1, ThePhase
<1>3. CASE peer[c] = None
  <2>1. Phase' = [Phase EXCEPT ![c] = "idle"] /\ Dead' = Dead
    BY <1>1, <1>3, PhaseEnds
  <2>2. Calls!Die(c)
    BY <1>1, <1>2, <2>1 DEF Calls!Die
  <2>3. QED
    BY <2>2 DEF Calls!Next
<1>4. CASE peer[c] # None
  <2>1. at'[c] = "dead" /\ \A b \in Client : b # c => at'[b] = at[b]
    BY <1>1, <1>4 DEF Parts, Types
  <2>2. Phase' = Phase /\ Dead' = [Dead EXCEPT ![c] = TRUE]
    BY <1>1, <2>1 DEF Phase, Dead
  <2>3. Calls!Die(c)
    BY <1>1, <1>2, <2>2 DEF Calls!Die
  <2>4. QED
    BY <2>3 DEF Calls!Next
<1>5. QED
  BY <1>3, <1>4

\* Requests of clients that were killed end with their connections.
LEMMA Forgets ==
    ASSUME Parts, NEW C \in SUBSET Client, \A c \in C : at[c] = "dead", UNCHANGED <<fate, said>>,
           \A c \in Client : at'[c] = IF c \in C THEN "idle" ELSE at[c]
    PROVE  Calls!Next
<1>1. C \in SUBSET {c \in Client : Dead[c]}
  BY DEF Dead
<1>2. /\ Phase' = [c \in Client |-> IF c \in C THEN "idle" ELSE Phase[c]]
      /\ Dead' = [c \in Client |-> Dead[c] /\ c \notin C]
  BY DEF Phase, Dead
<1>3. Calls!Forget(C)
  BY <1>2 DEF Calls!Forget
<1>4. QED
  BY <1>1, <1>3 DEF Calls!Next

\* To close a connection whose client died is to forget a request at most.
LEMMA CloseRefines ==
    ASSUME Parts, NEW d \in Daemon, serves[d] # None, Close(d), fate' = fate
    PROVE  [Calls!Next]_(Calls!vars)
<1> DEFINE c == serves[d]
<1>1. c \in Client /\ said' = said /\ at' = [at EXCEPT ![c] = IF @ = "dead" THEN "idle" ELSE @]
  BY Elements DEF Parts, Close
<1>2. at \in [Client -> {"idle", "length", "body", "answer", "dead"}]
  BY DEF Parts, Types
<1> HIDE DEF c
<1>3. CASE at[c] = "dead"
  <2>1. \A b \in Client : at'[b] = IF b \in {c} THEN "idle" ELSE at[b]
    BY <1>1, <1>2, <1>3
  <2>2. {c} \in SUBSET Client /\ \A b \in {c} : at[b] = "dead"
    BY <1>1, <1>3
  <2>3. QED
    BY <1>1, <2>1, <2>2, Forgets
<1>4. CASE at[c] # "dead"
  <2>1. at' = at
    BY <1>1, <1>2, <1>4
  <2>2. QED
    BY <1>1, <2>1, SameCalls
<1>5. QED
  BY <1>3, <1>4

\* A daemon that goes forgets all dead clients it was connected to at once.
LEMMA GoneRefines == ASSUME Parts, NEW d \in Daemon, Gone(d) PROVE Calls!Next
<1> DEFINE C == {c \in Client : peer[c] = d /\ at[c] = "dead"}
<1>1. /\ \A c \in Client : at'[c] = IF c \in C THEN "idle" ELSE at[c]
      /\ UNCHANGED <<fate, said>>
  BY DEF Gone
<1>2. C \in SUBSET Client /\ \A c \in C : at[c] = "dead"
  OBVIOUS
<1>3. QED
  BY <1>1, <1>2, Forgets

\* The handlers run: the request is executed.
LEMMA RunRefines == ASSUME Parts, NEW d \in Daemon, Execute(d) \/ Executed(d) PROVE Calls!Next
<1> DEFINE c == serves[d]
<1>1. /\ \/ Serving(d, "execute") /\ fate' = [fate EXCEPT ![c] = "running"] /\ fate[c] = "asked"
         \/ /\ Serving(d, "executing") /\ fate[c] = "running"
            /\ \E f \in {"done", "failed"} : fate' = [fate EXCEPT ![c] = f]
      /\ UNCHANGED <<at, said>>
  BY TheServed DEF Execute, Executed, Advance, clientVars, Handling
<1>2. c \in Client /\ at[c] # "idle"
  <2>1. c \in Client /\ peer[c] = d
    BY <1>1, Elements DEF Parts, Served, Serving
  <2>2. QED
    BY <2>1 DEF Parts, ClientSound
<1>3. Phase[c] = fate[c]
  BY <1>2, ThePhase
<1> HIDE DEF c
<1>4. \A f : fate' = [fate EXCEPT ![c] = f] => Phase' = [Phase EXCEPT ![c] = f] /\ Dead' = Dead
  <2> SUFFICES ASSUME NEW f, fate' = [fate EXCEPT ![c] = f]
               PROVE  Phase' = [Phase EXCEPT ![c] = f] /\ Dead' = Dead
    OBVIOUS
  <2>1. fate'[c] = f /\ \A b \in Client : b # c => fate'[b] = fate[b]
    BY <1>2 DEF Parts, Types
  <2>2. Dead' = Dead
    BY <1>1 DEF Dead
  <2>3. \A b \in Client : Phase'[b] = IF b = c THEN f ELSE Phase[b]
    BY <1>1, <1>2, <2>1 DEF Phase
  <2>4. Phase = [b \in Client |-> Phase[b]] /\ Phase' = [b \in Client |-> Phase'[b]]
    BY DEF Phase
  <2>5. QED
    BY <2>2, <2>3, <2>4
<1>5. Calls!Begin(c) \/ Calls!Finish(c)
  BY <1>1, <1>3, <1>4 DEF Calls!Begin, Calls!Finish, Calls!Move
<1>6. QED
  BY <1>2, <1>5 DEF Calls!Next

\* Every step of a daemon is a step of the remote call or a stutter.
LEMMA DaemonRefines ==
    ASSUME Parts, NEW d \in Daemon, Start(d) \/ DaemonStep(d) \/ CleanUp(d) \/ Kill(d)
    PROVE  [Calls!Next]_(Calls!vars)
<1>1. CASE Start(d) \/ Listen(d) \/ Accept(d) \/ CleanUp(d)
  BY <1>1, SameCalls DEF Start, Listen, Accept, CleanUp, clientVars
<1>2. CASE Read(d) \/ Answer(d)
  <2>1. /\ UNCHANGED fate
        /\ (serves[d] # None /\ Close(d)) \/ UNCHANGED <<at, said>>
    BY <1>2 DEF Read, Answer, Serving, Advance, clientVars
  <2>2. QED
    BY <2>1, CloseRefines, SameCalls
<1>3. CASE Exit(d) \/ Kill(d)
  BY <1>3, GoneRefines DEF Exit, Kill
<1>4. QED
  BY <1>1, <1>2, <1>3, RunRefines DEF DaemonStep

\* Whoever is killed, stops or restarts: a request is executed at most once, not after
\* its client heard that it is lost, and an answer is that of its own request
\* (sendRequestToDaemon, handleConnection).
THEOREM RemoteCallCorrect == Spec => IsRemoteCall
<1>1. Init => Calls!Init
  BY DEF Init, Calls!Init, Phase, Dead
<1>2. IInv /\ [Next]_vars => [Calls!Next]_(Calls!vars)
  <2> SUFFICES ASSUME Parts, [Next]_vars PROVE [Calls!Next]_(Calls!vars)
    BY TheParts
  <2>1. CASE UNCHANGED vars
    BY <2>1, SameCalls DEF vars
  <2>2. ASSUME NEW c \in Client, Dial(c) \/ ClientStep(c) \/ Die(c) \/ Stall(c) \/ GoOn(c)
        PROVE  [Calls!Next]_(Calls!vars)
    <3>1. CASE Stall(c) \/ GoOn(c)
      BY <3>1, SameCalls DEF Stall, GoOn
    <3>2. QED
      BY <2>2, <3>1, DialRefines, WriteRefines, ReceiveRefines, DieRefines DEF ClientStep
  <2>3. QED
    BY <2>1, <2>2, DaemonRefines DEF Next
<1>3. QED
  BY <1>1, <1>2, Inductive, PTL DEF Spec, IsRemoteCall, Calls!Spec
=============================================================================
