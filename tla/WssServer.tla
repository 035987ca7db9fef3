----------------------------- MODULE WssServer -----------------------------
(***************************************************************************)
(* Admission and teardown of the WSS server (hop_endpoint/wss_bearer.py,   *)
(* serve): an accept loop that leases a permit to each connection and      *)
(* queues it, handshake workers that turn a raw socket into a TLS socket   *)
(* and a WebSocket link, link threads, and close_server, the teardown hook *)
(* the endpoint runs.                                                      *)
(*                                                                         *)
(* A connection has up to two socket objects: the raw one, which TLS       *)
(* wrapping detaches (closing it does nothing from then on), and the TLS   *)
(* one, which others can reach only once the lease holds it.               *)
(***************************************************************************)
EXTENDS Naturals, Sequences, FiniteSets

CONSTANTS
  Conns,        \* connections peers may open
  Workers,      \* handshake worker threads (HANDSHAKE_WORKERS)
  MaxPending,   \* MAX_PENDING_CONNECTIONS: permits, and places in the queue
  NoConn        \* no connection

ASSUME NoConnAssumption == NoConn \notin Conns
ASSUME MaxPendingAssumption == MaxPending \in Nat \ {0}
ASSUME ConnsAssumption == IsFiniteSet(Conns)

VARIABLES
  closePc,      \* close of the endpoint and close_server: "open", "closed" (the
                \* endpoint refuses calls), "closing" (the Event is set),
                \* "copied" (listener closed, active copied), "done"
  toClose,      \* the sockets close_server copied and has not closed
  acceptPc,     \* where the accept loop is
  acceptOn,     \* the connection it is admitting
  workerPc,     \* workerPc[w]: where the worker is
  workerOn,     \* workerOn[w]: the connection it serves
  queue,        \* pending, the queue of leases
  permits,      \* free permits
  stage,        \* stage[c]: who has the connection
  open,         \* connections whose descriptor is open on this side
  leaseSock,    \* leaseSock[c]: the socket object in the lease
  active,       \* the socket objects close_server would close
  released,     \* leases that gave their permit back
  beyond        \* history: connections close_server closed the raw socket of
                \* after TLS wrapping had detached it

vars == <<closePc, toClose, acceptPc, acceptOn, workerPc, workerOn, queue,
          permits, stage, open, leaseSock, active, released, beyond>>

closeVars == <<closePc, toClose, beyond>>
acceptVars == <<acceptPc, acceptOn>>
workerVars == <<workerPc, workerOn>>
leaseVars == <<permits, leaseSock, active, released>>

Stages == {"new", "accepted", "permitted", "leased", "queued", "taken",
           "wrapping", "wrapped", "serving", "link", "done"}
Sockets == Conns \X {"raw", "tls"}

TypeOK ==
  /\ closePc \in {"open", "closed", "closing", "copied", "done"}
  /\ toClose \subseteq Sockets
  /\ acceptPc \in {"top", "accept", "admit", "lease", "check", "put", "exited"}
  /\ acceptOn \in Conns \cup {NoConn}
  /\ workerPc \in [Workers -> {"get", "taken", "wrapping", "wrapped", "serving",
                               "drop", "raise", "unstarted", "exited"}]
  /\ workerOn \in [Workers -> Conns \cup {NoConn}]
  /\ queue \in Seq(Conns)
  /\ permits \in 0..MaxPending
  /\ stage \in [Conns -> Stages]
  /\ open \subseteq Conns
  /\ leaseSock \in [Conns -> {"none", "raw", "tls"}]
  /\ active \subseteq Sockets
  /\ released \subseteq Conns
  /\ beyond \subseteq Conns

Init ==
  /\ closePc = "open"
  /\ toClose = {}
  /\ acceptPc = "top"
  /\ acceptOn = NoConn
  /\ workerPc = [w \in Workers |-> "get"]
  /\ workerOn = [w \in Workers |-> NoConn]
  /\ queue = <<>>
  /\ permits = MaxPending
  /\ stage = [c \in Conns |-> "new"]
  /\ open = {}
  /\ leaseSock = [c \in Conns |-> "none"]
  /\ active = {}
  /\ released = {}
  /\ beyond = {}

\* closing.is_set()
Closing == closePc \notin {"open", "closed"}

\* The raw socket object of c no longer owns the descriptor.
Detached(c) == stage[c] \in {"wrapping", "wrapped", "serving", "link", "done"}

\* The open descriptors after the socket object of c of that kind is closed.
OpenAfterClose(c, kind) == IF kind = "raw" /\ Detached(c) THEN open ELSE open \ {c}

\* lease.release(): idempotent, one permit for a lease.
Release(c) ==
  /\ stage' = [stage EXCEPT ![c] = "done"]
  /\ released' = released \cup {c}
  /\ active' = active \ {<<c, leaseSock[c]>>}
  /\ permits' = IF c \in released THEN permits ELSE permits + 1
  /\ UNCHANGED leaseSock

\* lease.close(), then lease.release().
CloseAndRelease(c) ==
  /\ open' = OpenAfterClose(c, leaseSock[c])
  /\ Release(c)

-----------------------------------------------------------------------------
(* accept_loop.                                                            *)

AcceptLoopTest ==
  /\ acceptPc = "top"
  /\ acceptPc' = IF Closing THEN "exited" ELSE "accept"
  /\ UNCHANGED <<closeVars, acceptOn, workerVars, queue, stage, open, leaseVars>>

\* accept() returns a connection.  Closing the listener does not interrupt an
\* accept that is already waiting, so one may still come.
Accept(c) ==
  /\ acceptPc = "accept"
  /\ stage[c] = "new"
  /\ acceptPc' = "admit"
  /\ acceptOn' = c
  /\ stage' = [stage EXCEPT ![c] = "accepted"]
  /\ open' = open \cup {c}
  /\ UNCHANGED <<closeVars, workerVars, queue, leaseVars>>

\* accept() raises: the listener is closed, or the process is out of descriptors.
\* Any OSError ends the loop.
AcceptFails ==
  /\ acceptPc = "accept"
  /\ acceptPc' = "exited"
  /\ UNCHANGED <<closeVars, acceptOn, workerVars, queue, stage, open, leaseVars>>

\* A permit is taken without waiting.
Admit ==
  /\ acceptPc = "admit"
  /\ permits > 0
  /\ permits' = permits - 1
  /\ stage' = [stage EXCEPT ![acceptOn] = "permitted"]
  /\ acceptPc' = "lease"
  /\ UNCHANGED <<closeVars, acceptOn, workerVars, queue, open, leaseSock, active,
                 released>>

\* Mutant of Reject: it releases the permit it did not get.
BugRejectReleases ==
  /\ acceptPc = "admit" /\ permits = 0
  /\ open' = open \ {acceptOn}
  /\ stage' = [stage EXCEPT ![acceptOn] = "done"]
  /\ permits' = permits + 1
  /\ acceptPc' = "top" /\ acceptOn' = NoConn
  /\ UNCHANGED <<closeVars, workerVars, queue, leaseSock, active, released>>

\* There is none: the connection is closed at once.
Reject ==
  /\ acceptPc = "admit"
  /\ permits = 0
  /\ open' = open \ {acceptOn}
  /\ stage' = [stage EXCEPT ![acceptOn] = "done"]
  /\ acceptPc' = "top"
  /\ acceptOn' = NoConn
  /\ UNCHANGED <<closeVars, workerVars, queue, leaseVars>>

\* _SocketLease: the raw socket becomes one of those close_server closes.
Lease ==
  /\ acceptPc = "lease"
  /\ leaseSock' = [leaseSock EXCEPT ![acceptOn] = "raw"]
  /\ active' = active \cup {<<acceptOn, "raw">>}
  /\ stage' = [stage EXCEPT ![acceptOn] = "leased"]
  /\ acceptPc' = "check"
  /\ UNCHANGED <<closeVars, acceptOn, workerVars, queue, open, permits, released>>

\* Mutant of CheckOpen: there is no second test.
BugNoSecondTest ==
  /\ acceptPc = "check" /\ acceptPc' = "put"
  /\ UNCHANGED <<closeVars, acceptOn, workerVars, queue, stage, open, leaseVars>>

\* The second test of closing: the copy of active may have missed the lease.
CheckOpen ==
  /\ acceptPc = "check"
  /\ ~Closing
  /\ acceptPc' = "put"
  /\ UNCHANGED <<closeVars, acceptOn, workerVars, queue, stage, open, leaseVars>>

\* Mutant of CheckClosing: the connection is closed, its permit kept.
BugKeepPermit ==
  /\ acceptPc = "check" /\ Closing
  /\ open' = open \ {acceptOn}
  /\ stage' = [stage EXCEPT ![acceptOn] = "done"]
  /\ acceptPc' = "exited" /\ acceptOn' = NoConn
  /\ UNCHANGED <<closeVars, workerVars, queue, leaseVars>>

CheckClosing ==
  /\ acceptPc = "check"
  /\ Closing
  /\ CloseAndRelease(acceptOn)
  /\ acceptPc' = "exited"
  /\ acceptOn' = NoConn
  /\ UNCHANGED <<closeVars, workerVars, queue>>

\* put_nowait; PermitsConserved says that its queue.Full is dead code.
Put ==
  /\ acceptPc = "put"
  /\ queue' = Append(queue, acceptOn)
  /\ stage' = [stage EXCEPT ![acceptOn] = "queued"]
  /\ acceptPc' = "top"
  /\ acceptOn' = NoConn
  /\ UNCHANGED <<closeVars, workerVars, open, leaseVars>>

-----------------------------------------------------------------------------
(* worker, and _handle_server_conn.                                        *)

Worker(w, from, to) == workerPc[w] = from /\ workerPc' = [workerPc EXCEPT ![w] = to]

\* The connection moves with its worker.
Staged(w, to) == stage' = [stage EXCEPT ![workerOn[w]] = to]

\* Mutant of WorkerExits: it leaves while there is work, and waits when not.
BugExitTestInverted(w) ==
  /\ Worker(w, "get", "exited") /\ Closing /\ queue # <<>>
  /\ UNCHANGED <<closeVars, acceptVars, workerOn, queue, stage, open, leaseVars>>

WorkerExits(w) ==
  /\ Worker(w, "get", "exited")
  /\ Closing
  /\ queue = <<>>
  /\ UNCHANGED <<closeVars, acceptVars, workerOn, queue, stage, open, leaseVars>>

Get(w) ==
  /\ Worker(w, "get", "taken")
  /\ queue # <<>>
  /\ queue' = Tail(queue)
  /\ workerOn' = [workerOn EXCEPT ![w] = Head(queue)]
  /\ stage' = [stage EXCEPT ![Head(queue)] = "taken"]
  /\ UNCHANGED <<closeVars, acceptVars, open, leaseVars>>

\* settimeout and wrap_socket: the raw socket is detached, and the handshake
\* goes on inside the call, on a socket nobody else knows.
Wrap(w) ==
  /\ Worker(w, "taken", "wrapping")
  /\ workerOn[w] \in open
  /\ Staged(w, "wrapping")
  /\ UNCHANGED <<closeVars, acceptVars, workerOn, queue, open, leaseVars>>

\* The socket is closed already: OSError.
WrapRefused(w) ==
  /\ Worker(w, "taken", "drop")
  /\ workerOn[w] \notin open
  /\ UNCHANGED <<closeVars, acceptVars, workerOn, queue, stage, open, leaseVars>>

\* The handshake fails, or its timeout is over: wrap_socket closes the socket.
HandshakeFails(w) ==
  /\ Worker(w, "wrapping", "drop")
  /\ open' = open \ {workerOn[w]}
  /\ UNCHANGED <<closeVars, acceptVars, workerOn, queue, stage, leaseVars>>

HandshakeDone(w) ==
  /\ Worker(w, "wrapping", "wrapped")
  /\ Staged(w, "wrapped")
  /\ UNCHANGED <<closeVars, acceptVars, workerOn, queue, open, leaseVars>>

\* Mutant of Replace: active gets the TLS socket, the lease keeps the raw one.
BugLeaseKeepsRaw(w) ==
  LET c == workerOn[w] IN
  /\ Worker(w, "wrapped", "serving") /\ Staged(w, "serving")
  /\ active' = (active \ {<<c, "raw">>}) \cup {<<c, "tls">>}
  /\ UNCHANGED <<closeVars, acceptVars, workerOn, queue, open, permits, leaseSock,
                 released>>

\* lease.replace: the TLS socket takes the raw one's place.
Replace(w) ==
  LET c == workerOn[w] IN
  /\ Worker(w, "wrapped", "serving")
  /\ Staged(w, "serving")
  /\ leaseSock' = [leaseSock EXCEPT ![c] = "tls"]
  /\ active' = (active \ {<<c, leaseSock[c]>>}) \cup {<<c, "tls">>}
  /\ UNCHANGED <<closeVars, acceptVars, workerOn, queue, open, permits, released>>

\* The well-known body or a 404 was sent, or the request was malformed, late or
\* cut off: the connection is not handed over.
Answered(w) ==
  /\ Worker(w, "serving", "drop")
  /\ UNCHANGED <<closeVars, acceptVars, workerOn, queue, stage, open, leaseVars>>

\* The endpoint is closed and refuses to sign the well-known body: RuntimeError.
AnswerRefused(w) ==
  /\ Worker(w, "serving", "raise")
  /\ closePc # "open"
  /\ UNCHANGED <<closeVars, acceptVars, workerOn, queue, stage, open, leaseVars>>

\* 101 was sent, and the process can start no thread for the link: RuntimeError.
ThreadRefused(w) ==
  /\ Worker(w, "serving", "unstarted")
  /\ workerOn[w] \in open
  /\ UNCHANGED <<closeVars, acceptVars, workerOn, queue, stage, open, leaseVars>>

\* 101 was sent and a link thread has the connection, its lease included.
Upgrade(w) ==
  /\ Worker(w, "serving", "get")
  /\ workerOn[w] \in open
  /\ Staged(w, "link")
  /\ workerOn' = [workerOn EXCEPT ![w] = NoConn]
  /\ UNCHANGED <<closeVars, acceptVars, queue, open, leaseVars>>

\* Mutant of Drop: what a handshake raises ends its worker.
BugWorkerDies(w) ==
  /\ Worker(w, "drop", "exited")
  /\ CloseAndRelease(workerOn[w])
  /\ workerOn' = [workerOn EXCEPT ![w] = NoConn]
  /\ UNCHANGED <<closeVars, acceptVars, queue>>

\* The finally clause.  An exception that the except clause does not name goes
\* through it and ends the worker.
Drop(w) ==
  /\ \/ Worker(w, "drop", "get")
     \/ Worker(w, "raise", "exited") \/ Worker(w, "unstarted", "exited")
  /\ CloseAndRelease(workerOn[w])
  /\ workerOn' = [workerOn EXCEPT ![w] = NoConn]
  /\ UNCHANGED <<closeVars, acceptVars, queue>>

-----------------------------------------------------------------------------
(* The link thread: _run_link, and the release after it.                   *)

\* The peer closes, errs or stays silent for READ_TIMEOUT_S; or the socket was
\* closed on this side.
LinkEnds(c) ==
  /\ stage[c] = "link"
  /\ open' = open \ {c}
  /\ Release(c)
  /\ UNCHANGED <<closeVars, acceptVars, workerVars, queue>>

-----------------------------------------------------------------------------
(* close() of the endpoint, up to its hook close_server.                   *)

ClosePc(from, to) == closePc = from /\ closePc' = to

EndpointCloses ==
  /\ ClosePc("open", "closed")
  /\ UNCHANGED <<toClose, beyond, acceptVars, workerVars, queue, stage, open, leaseVars>>

CloseSetsEvent ==
  /\ ClosePc("closed", "closing")
  /\ UNCHANGED <<toClose, beyond, acceptVars, workerVars, queue, stage, open, leaseVars>>

\* lsock.close(), and the copy of active under its lock.
CloseCopiesActive ==
  /\ ClosePc("closing", "copied")
  /\ toClose' = active
  /\ UNCHANGED <<beyond, acceptVars, workerVars, queue, stage, open, leaseVars>>

\* sock.close() on a copied socket; a detached one has nothing to close.
CloseSocket(c, kind) ==
  /\ closePc = "copied"
  /\ <<c, kind>> \in toClose
  /\ toClose' = toClose \ {<<c, kind>>}
  /\ open' = OpenAfterClose(c, kind)
  /\ beyond' = IF c \in open' THEN beyond \cup {c} ELSE beyond
  /\ UNCHANGED <<closePc, acceptVars, workerVars, queue, stage, leaseVars>>

CloseServerDone ==
  /\ ClosePc("copied", "done")
  /\ toClose = {}
  /\ UNCHANGED <<toClose, beyond, acceptVars, workerVars, queue, stage, open, leaseVars>>

-----------------------------------------------------------------------------

AcceptStep ==
  \/ AcceptLoopTest \/ Admit \/ Reject \/ Lease
  \/ CheckOpen \/ CheckClosing \/ Put

WorkerStep(w) ==
  \/ WorkerExits(w) \/ Get(w) \/ Wrap(w) \/ WrapRefused(w)
  \/ HandshakeFails(w) \/ HandshakeDone(w) \/ Replace(w)
  \/ Answered(w) \/ AnswerRefused(w) \/ ThreadRefused(w) \/ Upgrade(w)
  \/ Drop(w)

CloseStep ==
  \/ CloseSetsEvent \/ CloseCopiesActive
  \/ \E c \in Conns, kind \in {"raw", "tls"} : CloseSocket(c, kind)
  \/ CloseServerDone

\* The endpoint is closed, and every connection that came is over.
Finished ==
  /\ closePc = "done"
  /\ \A c \in Conns : stage[c] \in {"new", "done", "queued"}
  /\ UNCHANGED vars

Next ==
  \/ \E c \in Conns : Accept(c) \/ LinkEnds(c)
  \/ AcceptStep
  \/ AcceptFails
  \/ \E w \in Workers : WorkerStep(w)
  \/ EndpointCloses
  \/ CloseStep
  \/ Finished

\* What the threads of this side do of their own accord.  A worker is never kept
\* for ever: the handshake, the reading of the head and the sends have deadlines.
\* A link thread sees that its socket was closed, at the latest when its read
\* times out; as long as it is open, the peer can keep the link alive.  An accept
\* that waits for a connection may wait for ever, also on a closed listener.
ThreadStep ==
  \/ AcceptStep
  \/ \E w \in Workers : WorkerStep(w)
  \/ CloseStep
  \/ \E c \in Conns : c \notin open /\ LinkEnds(c)

\* Threads are scheduled.  No step is ever undone, a connection goes through its
\* stages once, so that no thread can starve another and one condition does.
Fairness == WF_vars(ThreadStep)

Spec == Init /\ [][Next]_vars /\ Fairness

-----------------------------------------------------------------------------
(* Safety.                                                                 *)

\* The connections that hold a permit.
Admitted == {c \in Conns : stage[c] \notin {"new", "accepted", "done"}}

\* No permit is lost or made up, whoever ends a connection: the accept loop, a
\* worker, or its link thread ("releases idempotently"); and so put_nowait never
\* finds the queue full, since who holds a permit has a place in it.
PermitsConserved ==
  /\ permits + Cardinality(Admitted) = MaxPending
  /\ acceptPc = "put" => Len(queue) < MaxPending

\* A permit comes back only when the descriptor it stood for is closed, so that
\* the cap bounds open connections and not just admissions.
NoSocketOutlivesPermit == released \cap open = {}

\* What close_server leaves open it could not reach: a TLS handshake had taken
\* the descriptor over, or the accept loop is about to close the connection.
CloseReachesTheRest ==
  closePc = "done" =>
    \A c \in open \ beyond : stage[c] \in {"accepted", "permitted", "leased"}

\* After close_server no link is left running on an open socket: the hooks
\* "unblock bearer accept/recv threads so they exit" (endpoint.py, line 340).
NoLinkOutlivesClose ==
  closePc = "done" => \A c \in open : stage[c] # "link"

-----------------------------------------------------------------------------
(* Liveness.                                                               *)

\* Stalled and malformed handshakes delay the others and no more: as long as the
\* endpoint is open every queued connection gets its worker.  It needs one worker
\* that is never refused a thread for a link: a refusal (line 258) is no exception
\* that line 307 names, it costs a worker, and nothing starts another.
QueuedAreServed ==
  (\E w \in Workers : [](workerPc[w] # "unstarted")) =>
    \A c \in Conns : (stage[c] = "queued") ~> (stage[c] # "queued" \/ closePc # "open")

\* The worker threads end after close.
WorkersStop == \A w \in Workers : (closePc = "done") ~> (workerPc[w] = "exited")
=============================================================================
