-------------------------- MODULE WssServer_proofs --------------------------
(***************************************************************************)
(* For every number of connections, workers and permits: the permits are   *)
(* conserved and the queue has room, a permit comes back only with its     *)
(* descriptor closed, and close_server leaves open only what it could not  *)
(* reach.                                                                  *)
(***************************************************************************)
EXTENDS WssServer, FiniteSetTheorems, TLAPS

\* The accept loop has the connection it admits.
AcceptInv ==
  /\ acceptPc \in {"admit", "lease", "check", "put"} => acceptOn \in Conns
  /\ acceptPc = "admit" => stage[acceptOn] = "accepted"
  /\ acceptPc = "lease" => stage[acceptOn] = "permitted"
  /\ acceptPc \in {"check", "put"} => stage[acceptOn] = "leased"

Busy == {"taken", "wrapping", "wrapped", "serving", "drop", "raise",
         "unstarted"}

\* The stages in which a connection may be when its worker is there.
Served(pc) ==
  IF pc = "drop" THEN {"taken", "wrapping", "serving"}
  ELSE IF pc \in {"raise", "unstarted"} THEN {"serving"} ELSE {pc}

\* A busy worker has a connection, and no two have the same.
WorkerInv ==
  /\ \A w \in Workers :
       workerPc[w] \in Busy =>
         workerOn[w] \in Conns /\ stage[workerOn[w]] \in Served(workerPc[w])
  /\ \A v, w \in Workers :
       workerPc[v] \in Busy /\ workerPc[w] \in Busy /\ workerOn[v] = workerOn[w]
         => v = w

\* The queue holds queued connections, each once.
QueueInv ==
  /\ \A i \in 1..Len(queue) : stage[queue[i]] = "queued"
  /\ \A i, j \in 1..Len(queue) : queue[i] = queue[j] => i = j

\* What a lease holds at each stage, and that close_server would close it.
LeaseInv ==
  \A c \in Conns :
    /\ stage[c] \in {"leased", "queued", "taken", "wrapping", "wrapped"} =>
         leaseSock[c] = "raw" /\ <<c, "raw">> \in active
    /\ stage[c] \in {"serving", "link"} =>
         leaseSock[c] = "tls" /\ <<c, "tls">> \in active
    /\ c \in released => stage[c] = "done"

\* A connection that is not there yet, or over, has no open descriptor; nor has
\* one whose handshake failed.
SocketInv ==
  /\ \A c \in Conns : stage[c] \in {"new", "done"} => c \notin open
  /\ \A w \in Workers :
       workerPc[w] = "drop" /\ stage[workerOn[w]] = "wrapping" =>
         workerOn[w] \notin open

\* The connections the copy of active missed: the accept loop still has them
\* before its second test, which closes them.
BeforeTest(c) ==
  \/ stage[c] \in {"accepted", "permitted"}
  \/ stage[c] = "leased" /\ acceptPc = "check" /\ acceptOn = c

\* After the copy, what is open was missed by it, will be closed, or was closed
\* in vain.
CloseInv ==
  /\ closePc \in {"copied", "done"} =>
       \A c \in open :
         BeforeTest(c) \/ c \in beyond \/ \E k \in {"raw", "tls"} : <<c, k>> \in toClose
  /\ closePc = "done" => toClose = {}

PermitInv == permits + Cardinality(Admitted) = MaxPending

IInv ==
  /\ TypeOK /\ AcceptInv /\ WorkerInv /\ QueueInv /\ LeaseInv /\ SocketInv
  /\ CloseInv /\ PermitInv

-----------------------------------------------------------------------------
(* Permits: what a change of one connection's stage does to the sum.       *)

\* The connections that hold a permit are finitely many.
LEMMA AdmittedFinite == IsFiniteSet(Admitted) /\ Cardinality(Admitted) \in Nat
<1>1. Admitted \in SUBSET Conns
  BY DEF Admitted
<1>2. IsFiniteSet(Admitted)
  BY <1>1, ConnsAssumption, FS_Subset
<1> QED
  BY <1>2, FS_CardinalityType

\* A connection that moves on with its permit leaves the sum alone.
LEMMA KeepsPermit ==
  ASSUME TypeOK, PermitInv, NEW c \in Conns, NEW s \in Stages,
         stage' = [stage EXCEPT ![c] = s], permits' = permits,
         c \in Admitted <=> s \notin {"new", "accepted", "done"}
  PROVE  PermitInv'
<1>1. Admitted' = Admitted
  BY DEF Admitted, TypeOK
<1> QED
  BY <1>1 DEF PermitInv

\* A permit taken is a connection admitted.
LEMMA TakesPermit ==
  ASSUME TypeOK, PermitInv, NEW c \in Conns, stage[c] = "accepted",
         stage' = [stage EXCEPT ![c] = "permitted"],
         permits > 0, permits' = permits - 1
  PROVE  PermitInv' /\ permits' \in 0..MaxPending
<1>1. Admitted' = Admitted \cup {c} /\ c \notin Admitted
  BY DEF Admitted, TypeOK
<1>2. Cardinality(Admitted') = Cardinality(Admitted) + 1
  BY <1>1, AdmittedFinite, FS_AddElement
<1> QED
  BY <1>2, AdmittedFinite, MaxPendingAssumption DEF PermitInv, TypeOK

\* The release of a connection that holds a permit gives back one.
LEMMA GivesPermitBack ==
  ASSUME TypeOK, PermitInv, NEW c \in Admitted, c \notin released, Release(c)
  PROVE  PermitInv' /\ permits' \in 0..MaxPending
<1>1. c \in Conns
  BY DEF Admitted
<1>2. stage' = [stage EXCEPT ![c] = "done"] /\ permits' = permits + 1
  BY DEF Release
<1>3. Admitted' = Admitted \ {c}
  BY <1>1, <1>2 DEF Admitted, TypeOK
<1>4. IsFiniteSet(Admitted') /\ Cardinality(Admitted') = Cardinality(Admitted) - 1
  BY <1>3, AdmittedFinite, FS_RemoveElement
<1>5. Cardinality(Admitted') \in Nat
  BY <1>4, FS_CardinalityType
<1> QED
  BY <1>2, <1>4, <1>5, AdmittedFinite, MaxPendingAssumption DEF PermitInv, TypeOK

-----------------------------------------------------------------------------
(* A connection that no worker has, and one that is not queued.            *)

InService == {"taken", "wrapping", "wrapped", "serving"}

\* A step that moves a connection no worker has changes nothing for the workers.
LEMMA WorkersKeep ==
  ASSUME TypeOK, WorkerInv, NEW c \in Conns, NEW s \in Stages,
         stage[c] \notin InService, stage' = [stage EXCEPT ![c] = s],
         UNCHANGED workerVars
  PROVE  /\ WorkerInv'
         /\ \A w \in Workers :
              workerPc[w] \in Busy =>
                /\ workerOn[w] # c
                /\ workerOn[w] \in Conns
                /\ stage'[workerOn[w]] = stage[workerOn[w]]
<1>1. ASSUME NEW w \in Workers, workerPc[w] \in Busy
      PROVE  /\ workerOn[w] # c
             /\ workerOn[w] \in Conns
             /\ stage'[workerOn[w]] = stage[workerOn[w]]
  <2>1. workerOn[w] \in Conns /\ stage[workerOn[w]] \in Served(workerPc[w])
    BY <1>1 DEF WorkerInv
  <2>2. Served(workerPc[w]) \subseteq InService
    BY <1>1 DEF Served, Busy, InService
  <2> QED
    BY <2>1, <2>2 DEF TypeOK
<1>2. workerPc' = workerPc /\ workerOn' = workerOn
  BY DEF workerVars
<1> QED
  BY <1>1, <1>2 DEF WorkerInv

\* Nor does a step that moves a connection outside the queue change the queue.
LEMMA QueueKeeps ==
  ASSUME TypeOK, QueueInv, NEW c \in Conns, NEW s \in Stages,
         stage[c] # "queued", stage' = [stage EXCEPT ![c] = s], queue' = queue
  PROVE  QueueInv'
<1>1. \A i \in 1..Len(queue) : queue[i] \in Conns /\ queue[i] # c
  BY DEF TypeOK, QueueInv
<1> QED
  BY <1>1 DEF QueueInv, TypeOK

\* The end of a connection takes at most its own socket out of active.
LEMMA LeaseKeeps ==
  ASSUME TypeOK, LeaseInv, NEW c \in Conns, stage' = [stage EXCEPT ![c] = "done"],
         active \ {<<c, leaseSock[c]>>} \subseteq active', leaseSock' = leaseSock,
         released' \subseteq released \cup {c}
  PROVE  LeaseInv'
<1> SUFFICES ASSUME NEW d \in Conns
             PROVE  LeaseInv!(d)'
  BY DEF LeaseInv
<1>1. CASE d = c
  BY <1>1 DEF TypeOK
<1>2. CASE d # c
  <2>1. stage'[d] = stage[d]
    BY <1>2 DEF TypeOK
  <2>2. \A k \in {"raw", "tls"} : <<d, k>> \in active => <<d, k>> \in active'
    BY <1>2
  <2> QED
    BY <1>2, <2>1, <2>2 DEF LeaseInv
<1> QED
  BY <1>1, <1>2

-----------------------------------------------------------------------------
(* The initial states, and the steps of the accept loop.                   *)

\* A server that was just started satisfies the invariant.
LEMMA InitInv == Init => IInv
<1> SUFFICES ASSUME Init PROVE IInv
  OBVIOUS
<1>1. TypeOK
  BY MaxPendingAssumption DEF Init, TypeOK, Stages
<1>2. AcceptInv /\ WorkerInv /\ QueueInv /\ LeaseInv /\ SocketInv /\ CloseInv
  BY DEF Init, AcceptInv, WorkerInv, QueueInv, LeaseInv, SocketInv, CloseInv, Busy
<1>3. Admitted = {}
  BY DEF Init, Admitted
<1>4. PermitInv
  BY <1>3, FS_EmptySet, MaxPendingAssumption DEF Init, PermitInv
<1> QED
  BY <1>1, <1>2, <1>4 DEF IInv

\* The loop goes on, ends, or finds the server open at its second test.
LEMMA AcceptMovesInv ==
  ASSUME IInv, AcceptLoopTest \/ AcceptFails \/ CheckOpen  PROVE IInv'
<1> USE DEF IInv, AcceptLoopTest, AcceptFails, CheckOpen, closeVars, workerVars,
            leaseVars, Closing
<1>1. TypeOK'
  BY DEF TypeOK
<1>2. AcceptInv' /\ WorkerInv' /\ QueueInv' /\ LeaseInv' /\ SocketInv'
  BY DEF AcceptInv, WorkerInv, QueueInv, LeaseInv, SocketInv
<1>3. CloseInv'
  BY DEF CloseInv, BeforeTest, TypeOK
<1>4. PermitInv'
  BY DEF PermitInv, Admitted
<1> QED
  BY <1>1, <1>2, <1>3, <1>4

\* A connection comes.
LEMMA AcceptedInv ==
  ASSUME IInv, NEW c \in Conns, Accept(c)  PROVE IInv'
<1> USE DEF IInv, Accept, closeVars, workerVars, leaseVars
<1>1. stage[c] = "new" /\ stage' = [stage EXCEPT ![c] = "accepted"]
  OBVIOUS
<1>2. TypeOK'
  BY DEF TypeOK, Stages
<1>3. AcceptInv' /\ LeaseInv' /\ QueueInv'
  BY DEF AcceptInv, LeaseInv, QueueInv, TypeOK
<1>4. WorkerInv' /\ SocketInv'
  BY DEF WorkerInv, SocketInv, Served, Busy, TypeOK
<1>5. CloseInv'
  BY DEF CloseInv, BeforeTest, TypeOK
<1>6. PermitInv'
  BY <1>1, KeepsPermit DEF Admitted, Stages
<1> QED
  BY <1>2, <1>3, <1>4, <1>5, <1>6

\* It gets a permit, then a lease, then a place in the queue.
LEMMA AdmissionInv ==
  ASSUME IInv, Admit \/ Lease \/ Put  PROVE IInv'
<1> USE DEF IInv, Admit, Lease, Put, closeVars, workerVars, leaseVars
<1>1. /\ acceptOn \in Conns
      /\ \/ Admit /\ stage[acceptOn] = "accepted"
            /\ stage' = [stage EXCEPT ![acceptOn] = "permitted"]
         \/ Lease /\ stage[acceptOn] = "permitted"
            /\ stage' = [stage EXCEPT ![acceptOn] = "leased"]
         \/ Put /\ stage[acceptOn] = "leased"
            /\ stage' = [stage EXCEPT ![acceptOn] = "queued"]
  BY DEF AcceptInv
<1>2. PermitInv' /\ permits' \in 0..MaxPending
  <2>1. CASE Admit
    BY <1>1, <2>1, TakesPermit
  <2>2. CASE Lease \/ Put
    BY <1>1, <2>2, KeepsPermit DEF Admitted, Stages, TypeOK
  <2> QED
    BY <2>1, <2>2
<1>3. TypeOK'
  <2>1. CASE Admit
    BY <1>1, <1>2, <2>1 DEF TypeOK, Stages
  <2>2. CASE Lease
    BY <1>1, <1>2, <2>2 DEF TypeOK, Stages, Sockets
  <2>3. CASE Put
    BY <1>1, <1>2, <2>3 DEF TypeOK, Stages
  <2> QED
    BY <2>1, <2>2, <2>3
<1>4. AcceptInv'
  BY <1>1 DEF AcceptInv, TypeOK
<1>5. WorkerInv' /\ SocketInv'
  BY <1>1, WorkersKeep DEF SocketInv, InService, Stages, Busy, TypeOK
<1>6. QueueInv'
  <2>1. CASE Admit \/ Lease
    BY <1>1, <2>1, QueueKeeps DEF Stages
  <2>2. CASE Put
    <3>1. /\ Len(queue') = Len(queue) + 1
          /\ queue'[Len(queue) + 1] = acceptOn
          /\ \A i \in 1..Len(queue) : queue'[i] = queue[i]
      BY <1>1, <2>2 DEF TypeOK
    <3>2. \A i \in 1..Len(queue) :
             queue[i] \in Conns /\ queue[i] # acceptOn /\ stage'[queue[i]] = "queued"
      BY <1>1 DEF QueueInv, TypeOK
    <3>3. stage'[acceptOn] = "queued"
      BY <1>1, <2>2 DEF TypeOK
    <3>4. Len(queue) \in Nat
      BY DEF TypeOK
    <3> QED
      BY <3>1, <3>2, <3>3, <3>4 DEF QueueInv
  <2> QED
    BY <2>1, <2>2
<1>7. LeaseInv'
  <2>1. CASE Admit
    BY <1>1, <2>1 DEF LeaseInv, TypeOK
  <2>2. CASE Lease
    BY <1>1, <2>2 DEF LeaseInv, TypeOK
  <2>3. CASE Put
    BY <1>1, <2>3 DEF LeaseInv, TypeOK
  <2> QED
    BY <2>1, <2>2, <2>3
<1>8. CloseInv'
  BY <1>1 DEF CloseInv, BeforeTest, TypeOK
<1> QED
  BY <1>2, <1>3, <1>4, <1>5, <1>6, <1>7, <1>8

\* It is turned away: for want of a permit, or because the server is closing.
LEMMA TurnedAwayInv ==
  ASSUME IInv, Reject \/ CheckClosing  PROVE IInv'
<1> USE NoConnAssumption
        DEF IInv, Reject, CheckClosing, closeVars, workerVars, leaseVars
<1>1. /\ acceptOn \in Conns
      /\ stage' = [stage EXCEPT ![acceptOn] = "done"]
      /\ stage[acceptOn] \in {"accepted", "leased"}
      /\ open' = open \ {acceptOn}
  BY DEF AcceptInv, LeaseInv, CloseAndRelease, Release, OpenAfterClose, Detached
<1>2. PermitInv' /\ permits' \in 0..MaxPending
  <2>1. CASE Reject
    BY <1>1, <2>1, KeepsPermit DEF Admitted, Stages, TypeOK, AcceptInv
  <2>2. CASE CheckClosing
    BY <1>1, <2>2, GivesPermitBack
       DEF CloseAndRelease, Admitted, AcceptInv, LeaseInv
  <2> QED
    BY <2>1, <2>2
<1>3. /\ active \ {<<acceptOn, leaseSock[acceptOn]>>} \subseteq active'
      /\ active' \subseteq active /\ leaseSock' = leaseSock
      /\ released' \subseteq released \cup {acceptOn}
  BY DEF CloseAndRelease, Release
<1>4. TypeOK'
  BY <1>1, <1>2, <1>3 DEF TypeOK, Stages
<1>5. AcceptInv'
  BY DEF AcceptInv
<1>6. WorkerInv' /\ SocketInv'
  <2>1. /\ WorkerInv'
        /\ \A w \in Workers :
             workerPc[w] \in Busy => stage'[workerOn[w]] = stage[workerOn[w]]
    BY <1>1, WorkersKeep DEF InService, Stages
  <2>2. workerPc' = workerPc /\ workerOn' = workerOn
    OBVIOUS
  <2> QED
    BY <1>1, <2>1, <2>2 DEF SocketInv, Busy, TypeOK
<1>7. QueueInv'
  BY <1>1, QueueKeeps DEF Stages
<1>8. LeaseInv'
  BY <1>1, <1>3, LeaseKeeps
<1>9. CloseInv'
  BY <1>1 DEF CloseInv, BeforeTest, TypeOK
<1> QED
  BY <1>2, <1>4, <1>5, <1>6, <1>7, <1>8, <1>9

-----------------------------------------------------------------------------
(* The steps of the workers.                                               *)

\* The worker alone moves: it leaves, or gives its connection up.
LEMMA WorkerMovesInv ==
  ASSUME IInv, NEW w \in Workers,
         \/ WorkerExits(w) \/ WrapRefused(w) \/ Answered(w) \/ AnswerRefused(w)
         \/ ThreadRefused(w)
  PROVE  IInv'
<1> USE DEF IInv, WorkerExits, WrapRefused, Answered, AnswerRefused, ThreadRefused,
            Worker, closeVars, acceptVars, leaseVars
<1>1. \E to \in {"exited", "drop", "raise", "unstarted"} :
         /\ workerPc' = [workerPc EXCEPT ![w] = to]
         /\ to # "exited" => /\ workerPc[w] \in Busy
                             /\ stage[workerOn[w]] \in Served(to) \ {"wrapping"}
  BY DEF WorkerInv, Busy, Served
<1>2. TypeOK'
  BY <1>1 DEF TypeOK
<1>3. AcceptInv' /\ QueueInv' /\ LeaseInv' /\ CloseInv'
  BY DEF AcceptInv, QueueInv, LeaseInv, CloseInv, BeforeTest
<1>4. WorkerInv' /\ SocketInv'
  BY <1>1 DEF WorkerInv, SocketInv, Busy, TypeOK
<1>5. PermitInv'
  BY DEF PermitInv, Admitted
<1> QED
  BY <1>2, <1>3, <1>4, <1>5

\* The connection at the head of the queue gets its worker.
LEMMA GetInv ==
  ASSUME IInv, NEW w \in Workers, Get(w)  PROVE IInv'
<1> USE DEF IInv, Get, Worker, closeVars, acceptVars, leaseVars
<1> DEFINE c == Head(queue)
<1>1. /\ c \in Conns /\ c = queue[1] /\ Len(queue) \in Nat \ {0}
      /\ Len(queue') = Len(queue) - 1
      /\ \A i \in 1..Len(queue') : queue'[i] = queue[i + 1] /\ i + 1 \in 1..Len(queue)
  BY DEF TypeOK
<1>2. stage[c] = "queued" /\ stage' = [stage EXCEPT ![c] = "taken"]
  BY <1>1 DEF QueueInv
<1> HIDE DEF c
<1>3. TypeOK'
  BY <1>1, <1>2 DEF TypeOK, Stages, c
<1>4. AcceptInv' /\ LeaseInv'
  BY <1>1, <1>2 DEF AcceptInv, LeaseInv, TypeOK
<1>5. QueueInv'
  <2>1. \A i \in 1..Len(queue') :
           queue[i + 1] \in Conns /\ queue[i + 1] # c /\ stage'[queue[i + 1]] = "queued"
    BY <1>1, <1>2 DEF QueueInv, TypeOK
  <2> QED
    BY <1>1, <2>1 DEF QueueInv
<1>6. WorkerInv' /\ SocketInv'
  <2>1. \A v \in Workers : workerPc[v] \in Busy => workerOn[v] # c
    BY <1>1, <1>2 DEF WorkerInv, Served, Busy
  <2>2. /\ workerPc' = [workerPc EXCEPT ![w] = "taken"]
        /\ workerOn' = [workerOn EXCEPT ![w] = c]
    BY DEF c
  <2>3. \A v \in Workers :
           workerPc'[v] \in Busy /\ v # w =>
             /\ workerPc'[v] = workerPc[v] /\ workerOn'[v] = workerOn[v]
             /\ workerOn[v] # c /\ workerOn[v] \in Conns
             /\ stage'[workerOn[v]] = stage[workerOn[v]]
    BY <1>2, <2>1, <2>2 DEF WorkerInv, TypeOK
  <2>4. /\ workerPc'[w] = "taken" /\ workerOn'[w] = c /\ stage'[c] = "taken"
        /\ Served("taken") = {"taken"}
    BY <1>1, <1>2, <2>2 DEF TypeOK, Served
  <2>5. WorkerInv'
    BY <1>1, <2>3, <2>4 DEF WorkerInv
  <2>6. SocketInv'
    BY <1>1, <1>2, <2>3, <2>4 DEF SocketInv, TypeOK, Busy
  <2> QED
    BY <2>5, <2>6
<1>7. CloseInv'
  BY <1>1, <1>2 DEF CloseInv, BeforeTest, TypeOK
<1>8. PermitInv'
  BY <1>1, <1>2, KeepsPermit DEF Admitted, Stages
<1> QED
  BY <1>3, <1>4, <1>5, <1>6, <1>7, <1>8

\* A worker's connection goes on: to the TLS handshake, through it, to the
\* reading of its request, or to a link thread.
LEMMA WorkerServesInv ==
  ASSUME IInv, NEW w \in Workers,
         Wrap(w) \/ HandshakeDone(w) \/ Replace(w) \/ Upgrade(w)
  PROVE  IInv'
<1> USE NoConnAssumption
        DEF IInv, Wrap, HandshakeDone, Replace, Upgrade, Worker, Staged,
            closeVars, acceptVars, leaseVars
<1> DEFINE c == workerOn[w]
<1>1. /\ workerPc[w] \in Busy /\ c \in Conns
      /\ stage[c] = workerPc[w]
      /\ \A v \in Workers \ {w} : workerPc[v] \in Busy => workerOn[v] # c
  BY DEF WorkerInv, Busy, Served
<1>2. \/ /\ stage[c] = "taken" /\ stage' = [stage EXCEPT ![c] = "wrapping"]
         /\ workerPc' = [workerPc EXCEPT ![w] = "wrapping"] /\ workerOn' = workerOn
      \/ /\ stage[c] = "wrapping" /\ stage' = [stage EXCEPT ![c] = "wrapped"]
         /\ workerPc' = [workerPc EXCEPT ![w] = "wrapped"] /\ workerOn' = workerOn
      \/ /\ stage[c] = "wrapped" /\ stage' = [stage EXCEPT ![c] = "serving"]
         /\ workerPc' = [workerPc EXCEPT ![w] = "serving"] /\ workerOn' = workerOn
         /\ leaseSock' = [leaseSock EXCEPT ![c] = "tls"]
         /\ active' = (active \ {<<c, leaseSock[c]>>}) \cup {<<c, "tls">>}
      \/ /\ stage[c] = "serving" /\ stage' = [stage EXCEPT ![c] = "link"]
         /\ workerPc' = [workerPc EXCEPT ![w] = "get"]
         /\ workerOn' = [workerOn EXCEPT ![w] = NoConn]
  BY <1>1
<1>3. stage[c] = "wrapped" \/ (leaseSock' = leaseSock /\ active' = active)
  <2>1. CASE Replace(w)
    BY <1>1, <2>1
  <2>2. CASE Wrap(w) \/ HandshakeDone(w) \/ Upgrade(w)
    BY <2>2
  <2> QED
    BY <2>1, <2>2
<1>4. /\ permits' = permits /\ released' = released /\ open' = open
      /\ queue' = queue /\ UNCHANGED closeVars /\ UNCHANGED acceptVars
  OBVIOUS
<1> HIDE DEF c, Wrap, HandshakeDone, Replace, Upgrade
<1>5. TypeOK'
  <2>1. /\ workerPc' \in [Workers -> {"get", "taken", "wrapping", "wrapped", "serving",
                                     "drop", "raise", "unstarted", "exited"}]
        /\ workerOn' \in [Workers -> Conns \cup {NoConn}]
    BY <1>2 DEF TypeOK
  <2>2. stage' \in [Conns -> Stages]
    BY <1>2 DEF TypeOK, Stages
  <2>3. leaseSock' \in [Conns -> {"none", "raw", "tls"}] /\ active' \subseteq Sockets
    BY <1>1, <1>2, <1>3 DEF TypeOK, Sockets
  <2> QED
    BY <1>4, <2>1, <2>2, <2>3 DEF TypeOK
<1>6. AcceptInv'
  BY <1>1, <1>2, <1>4 DEF AcceptInv, TypeOK
<1>7. QueueInv'
  BY <1>1, <1>2, <1>4, QueueKeeps DEF Stages
<1>8. LeaseInv'
  <2>1. ASSUME NEW d \in Conns \ {c}
        PROVE  /\ stage'[d] = stage[d] /\ leaseSock'[d] = leaseSock[d]
               /\ \A k \in {"raw", "tls"} : <<d, k>> \in active => <<d, k>> \in active'
    BY <1>1, <1>2, <1>3 DEF TypeOK
  <2>2. CASE stage[c] = "wrapped"
    <3>1. stage'[c] = "serving" /\ leaseSock'[c] = "tls" /\ <<c, "tls">> \in active'
      BY <1>1, <1>2, <2>2 DEF TypeOK
    <3> QED
      BY <1>4, <2>1, <2>2, <3>1 DEF LeaseInv
  <2>3. CASE stage[c] # "wrapped"
    <3>1. /\ leaseSock' = leaseSock /\ active' = active
          /\ \/ stage[c] \in {"taken", "wrapping"} /\ stage'[c] \in {"wrapping", "wrapped"}
             \/ stage[c] = "serving" /\ stage'[c] = "link"
      BY <1>1, <1>2, <1>3, <2>3 DEF TypeOK
    <3> QED
      BY <1>4, <2>1, <3>1 DEF LeaseInv
  <2> QED
    BY <2>2, <2>3
<1>9. WorkerInv' /\ SocketInv'
  <2>1. \A v \in Workers \ {w} :
           workerPc'[v] \in Busy =>
             /\ workerPc'[v] = workerPc[v] /\ workerOn'[v] = workerOn[v]
             /\ workerOn[v] # c /\ workerOn[v] \in Conns
             /\ stage'[workerOn[v]] = stage[workerOn[v]]
    BY <1>1, <1>2 DEF WorkerInv, TypeOK
  <2>2. \/ /\ workerPc'[w] \in {"wrapping", "wrapped", "serving"} /\ workerOn'[w] = c
           /\ stage'[c] = workerPc'[w]
        \/ workerPc'[w] = "get"
    BY <1>1, <1>2 DEF TypeOK, c
  <2>3. WorkerInv'
    BY <1>1, <2>1, <2>2 DEF WorkerInv, Served, Busy
  <2>4. SocketInv'
    BY <1>1, <1>2, <1>4, <2>1, <2>2 DEF SocketInv, TypeOK, Busy
  <2> QED
    BY <2>3, <2>4
<1>10. CloseInv'
  BY <1>1, <1>2, <1>4 DEF CloseInv, BeforeTest, TypeOK
<1>11. PermitInv'
  BY <1>1, <1>2, <1>4, KeepsPermit DEF Admitted, Stages
<1> QED
  BY <1>5, <1>6, <1>7, <1>8, <1>9, <1>10, <1>11

\* The handshake fails, and has closed the descriptor.
LEMMA HandshakeFailsInv ==
  ASSUME IInv, NEW w \in Workers, HandshakeFails(w)  PROVE IInv'
<1> USE DEF IInv, HandshakeFails, Worker, closeVars, acceptVars, leaseVars
<1>1. /\ stage[workerOn[w]] = "wrapping" /\ workerPc[w] = "wrapping"
      /\ workerPc' = [workerPc EXCEPT ![w] = "drop"]
  BY DEF WorkerInv, Busy, Served
<1>2. TypeOK'
  BY <1>1 DEF TypeOK
<1>3. AcceptInv' /\ QueueInv' /\ LeaseInv' /\ CloseInv'
  BY DEF AcceptInv, QueueInv, LeaseInv, CloseInv, BeforeTest
<1>4. WorkerInv'
  <2>1. \A v \in Workers :
           workerPc'[v] \in Busy =>
             /\ workerPc[v] \in Busy
             /\ Served(workerPc[v]) \subseteq Served(workerPc'[v])
    BY <1>1 DEF TypeOK, Served, Busy
  <2> QED
    BY <2>1 DEF WorkerInv
<1>5. SocketInv'
  <2>1. \A v \in Workers : workerPc'[v] = "drop" => v = w \/ workerPc[v] = "drop"
    BY <1>1 DEF TypeOK
  <2> QED
    BY <2>1 DEF SocketInv
<1>6. PermitInv'
  BY DEF PermitInv, Admitted
<1> QED
  BY <1>2, <1>3, <1>4, <1>5, <1>6

-----------------------------------------------------------------------------
(* The end of a connection, and close.                                     *)

\* A connection ends with its worker or its link, and its descriptor is closed.
LEMMA ConnectionEndsInv ==
  ASSUME IInv, NEW c \in Conns,
         \/ \E w \in Workers : Drop(w) /\ c = workerOn[w]
         \/ LinkEnds(c)
  PROVE  IInv'
<1> USE NoConnAssumption
        DEF IInv, Drop, LinkEnds, CloseAndRelease, closeVars, acceptVars
<1>1. stage[c] \in {"taken", "wrapping", "serving", "link"} /\ Release(c)
  BY DEF WorkerInv, Worker, Busy, Served
<1>2. open' = open \ {c}
  <2>1. CASE LinkEnds(c)
    BY <2>1
  <2>2. ASSUME NEW w \in Workers, Drop(w), c = workerOn[w]  PROVE open' = open \ {c}
    <3>1. /\ stage[c] = "serving" => leaseSock[c] = "tls"
          /\ stage[c] = "taken" => ~Detached(c)
          /\ stage[c] = "wrapping" => c \notin open
          /\ stage[c] \in {"taken", "wrapping", "serving"}
      BY <2>2 DEF Detached, Worker, WorkerInv, SocketInv, LeaseInv, Busy, Served
    <3> QED
      BY <2>2, <3>1 DEF OpenAfterClose
  <2> QED
    BY <2>1, <2>2
<1>3. /\ stage' = [stage EXCEPT ![c] = "done"]
      /\ active \ {<<c, leaseSock[c]>>} \subseteq active'
      /\ active' \subseteq active
      /\ leaseSock' = leaseSock
      /\ released' = released \cup {c}
      /\ queue' = queue /\ UNCHANGED closeVars /\ UNCHANGED acceptVars
  BY DEF Release
<1>4. \/ UNCHANGED workerVars /\ stage[c] = "link"
      \/ \E w \in Workers, to \in {"get", "exited"} :
           /\ workerPc[w] \in Busy /\ c = workerOn[w]
           /\ workerPc' = [workerPc EXCEPT ![w] = to]
           /\ workerOn' = [workerOn EXCEPT ![w] = NoConn]
  BY DEF Worker, Busy
<1>5. c \in Admitted /\ c \notin released
  BY <1>1 DEF Admitted, LeaseInv
<1>6. PermitInv' /\ permits' \in 0..MaxPending
  BY <1>1, <1>5, GivesPermitBack
<1> HIDE DEF Drop, LinkEnds, CloseAndRelease
<1>7. TypeOK'
  BY <1>2, <1>3, <1>4, <1>6 DEF TypeOK, Stages, workerVars
<1>8. AcceptInv'
  BY <1>1, <1>3 DEF AcceptInv, TypeOK
<1>9. QueueInv'
  BY <1>1, <1>3, QueueKeeps DEF Stages
<1>10. LeaseInv'
  BY <1>3, LeaseKeeps
<1>11. WorkerInv' /\ SocketInv'
  <2>1. CASE UNCHANGED workerVars /\ stage[c] = "link"
    <3>1. /\ WorkerInv'
          /\ \A w \in Workers :
               workerPc[w] \in Busy => stage'[workerOn[w]] = stage[workerOn[w]]
      BY <1>3, <2>1, WorkersKeep DEF InService, Stages
    <3> QED
      BY <1>2, <1>3, <2>1, <3>1 DEF SocketInv, Busy, TypeOK, workerVars
  <2>2. ASSUME NEW w \in Workers, NEW to \in {"get", "exited"},
               workerPc[w] \in Busy, c = workerOn[w],
               workerPc' = [workerPc EXCEPT ![w] = to],
               workerOn' = [workerOn EXCEPT ![w] = NoConn]
        PROVE  WorkerInv' /\ SocketInv'
    <3>1. \A v \in Workers :
             workerPc'[v] \in Busy =>
               /\ v # w /\ workerPc'[v] = workerPc[v] /\ workerPc[v] \in Busy
               /\ workerOn'[v] = workerOn[v] /\ workerOn[v] # c /\ workerOn[v] \in Conns
               /\ stage'[workerOn[v]] = stage[workerOn[v]]
      BY <1>3, <2>2 DEF WorkerInv, TypeOK, Busy
    <3> QED
      BY <1>2, <1>3, <3>1 DEF WorkerInv, SocketInv, TypeOK, Busy
  <2> QED
    BY <1>4, <2>1, <2>2
<1>12. CloseInv'
  BY <1>2, <1>3 DEF CloseInv, BeforeTest, TypeOK
<1> QED
  BY <1>6, <1>7, <1>8, <1>9, <1>10, <1>11, <1>12

\* close of the endpoint, and close_server up to its loop over the copy.
LEMMA CloseMovesInv ==
  ASSUME IInv,
         EndpointCloses \/ CloseSetsEvent \/ CloseCopiesActive \/ CloseServerDone
  PROVE  IInv'
<1> USE DEF IInv, EndpointCloses, CloseSetsEvent, CloseCopiesActive,
            CloseServerDone, ClosePc, acceptVars, workerVars, leaseVars
<1>1. TypeOK'
  BY DEF TypeOK
<1>2. AcceptInv' /\ WorkerInv' /\ QueueInv' /\ LeaseInv' /\ SocketInv'
  BY DEF AcceptInv, WorkerInv, QueueInv, LeaseInv, SocketInv
<1>3. CloseInv'
  <2>1. CASE CloseCopiesActive
    <3>1. ASSUME NEW c \in open
          PROVE  BeforeTest(c)' \/ \E k \in {"raw", "tls"} : <<c, k>> \in toClose'
      BY <2>1, <3>1 DEF BeforeTest, LeaseInv, SocketInv, TypeOK, Stages
    <3> QED
      BY <2>1, <3>1 DEF CloseInv
  <2>2. CASE EndpointCloses \/ CloseSetsEvent
    BY <2>2 DEF CloseInv
  <2>3. CASE CloseServerDone
    BY <2>3 DEF CloseInv, BeforeTest
  <2> QED
    BY <2>1, <2>2, <2>3
<1>4. PermitInv'
  BY DEF PermitInv, Admitted
<1> QED
  BY <1>1, <1>2, <1>3, <1>4

\* A copied socket is closed, perhaps in vain.
LEMMA CloseSocketInv ==
  ASSUME IInv, NEW c \in Conns, NEW kind \in {"raw", "tls"}, CloseSocket(c, kind)
  PROVE  IInv'
<1> USE DEF IInv, CloseSocket, acceptVars, workerVars, leaseVars
<1>1. open' \subseteq open
  BY DEF OpenAfterClose
<1>2. TypeOK'
  BY <1>1 DEF TypeOK
<1>3. AcceptInv' /\ WorkerInv' /\ QueueInv' /\ LeaseInv' /\ SocketInv'
  BY <1>1 DEF AcceptInv, WorkerInv, QueueInv, LeaseInv, SocketInv
<1>4. CloseInv'
  BY <1>1 DEF CloseInv, BeforeTest
<1>5. PermitInv'
  BY DEF PermitInv, Admitted
<1> QED
  BY <1>2, <1>3, <1>4, <1>5

\* Every step keeps the invariant.
LEMMA StepInv == IInv /\ [Next]_vars => IInv'
<1> SUFFICES ASSUME IInv, [Next]_vars PROVE IInv'
  OBVIOUS
<1>1. ASSUME UNCHANGED vars PROVE IInv'
  BY <1>1 DEF vars, IInv, TypeOK, AcceptInv, WorkerInv, QueueInv, LeaseInv,
              SocketInv, CloseInv, BeforeTest, PermitInv, Admitted
<1>2. ASSUME Finished PROVE IInv'
  BY <1>1, <1>2 DEF Finished
<1>3. ASSUME AcceptStep PROVE IInv'
  BY <1>3, AcceptMovesInv, AdmissionInv, TurnedAwayInv DEF AcceptStep
<1>4. ASSUME NEW w \in Workers, WorkerStep(w) PROVE IInv'
  <2>1. CASE Drop(w)
    <3>1. workerOn[w] \in Conns
      BY <2>1 DEF IInv, Drop, Worker, WorkerInv, Busy
    <3> QED
      BY <2>1, <3>1, ConnectionEndsInv
  <2>2. CASE ~Drop(w)
    BY <1>4, <2>2, WorkerMovesInv, GetInv, WorkerServesInv, HandshakeFailsInv
       DEF WorkerStep
  <2> QED
    BY <2>1, <2>2
<1>5. ASSUME CloseStep PROVE IInv'
  BY <1>5, CloseMovesInv, CloseSocketInv DEF CloseStep
<1> QED
  BY <1>1, <1>2, <1>3, <1>4, <1>5, AcceptedInv, ConnectionEndsInv, AcceptMovesInv,
     CloseMovesInv DEF Next

\* The invariant holds in every state of every behaviour.
THEOREM Invariant == Spec => []IInv
  BY InitInv, StepInv, PTL DEF Spec

-----------------------------------------------------------------------------
(* What the invariant says of the server.                                  *)

\* Every variable keeps its type; there are never more permits than the cap.
THEOREM TypeCorrect == Spec => []TypeOK
<1>1. IInv => TypeOK
  BY DEF IInv
<1> QED
  BY <1>1, Invariant, PTL

\* No permit is lost or made up, and put_nowait finds room: the queue holds
\* different connections, each with a permit, and the loop has one more.
THEOREM PermitsSumUp == Spec => []PermitsConserved
<1>1. IInv => PermitsConserved
  <2> SUFFICES ASSUME IInv, acceptPc = "put" PROVE Len(queue) < MaxPending
    BY DEF IInv, PermitInv, PermitsConserved
  <2> DEFINE Rest == Admitted \ {acceptOn}
             q == [i \in 1..Len(queue) |-> queue[i]]
  <2>1. acceptOn \in Admitted /\ stage[acceptOn] = "leased"
    BY DEF IInv, AcceptInv, Admitted
  <2>2. IsFiniteSet(Rest) /\ Cardinality(Rest) = Cardinality(Admitted) - 1
    BY <2>1, AdmittedFinite, FS_RemoveElement
  <2>3. \A i \in 1..Len(queue) : queue[i] \in Rest
    BY <2>1 DEF IInv, TypeOK, QueueInv, Admitted
  <2>4. \A i, j \in 1..Len(queue) : queue[i] = queue[j] => i = j
    BY DEF IInv, QueueInv
  <2>5. q \in Injection(1..Len(queue), Rest)
    <3>1. q \in [1..Len(queue) -> Rest]
      BY <2>3
    <3>2. \A i, j \in 1..Len(queue) : q[i] = q[j] => i = j
      BY <2>4
    <3> QED
      BY <3>1, <3>2 DEF Injection, IsInjective
  <2>6. Cardinality(1..Len(queue)) <= Cardinality(Rest)
    BY <2>2, <2>5, FS_Injection
  <2>7. Len(queue) \in Nat /\ Cardinality(1..Len(queue)) = Len(queue)
    <3>1. Len(queue) \in Nat
      BY DEF IInv, TypeOK
    <3>2. Cardinality(1..Len(queue)) = IF 1 > Len(queue) THEN 0 ELSE Len(queue) - 1 + 1
      BY <3>1, FS_Interval
    <3> QED
      BY <3>1, <3>2
  <2>8. Cardinality(Admitted) <= MaxPending
    BY AdmittedFinite, MaxPendingAssumption DEF IInv, PermitInv, TypeOK
  <2> QED
    BY <2>2, <2>6, <2>7, <2>8, AdmittedFinite, MaxPendingAssumption
<1> QED
  BY <1>1, Invariant, PTL

\* A released permit is never that of an open descriptor.
THEOREM CapBoundsSockets == Spec => []NoSocketOutlivesPermit
<1>1. IInv => NoSocketOutlivesPermit
  BY DEF IInv, TypeOK, LeaseInv, SocketInv, NoSocketOutlivesPermit
<1> QED
  BY <1>1, Invariant, PTL

\* What close_server leaves open and did not close in vain is a connection the
\* accept loop has not tested yet.
THEOREM CloseMissesOnlyTheUntested == Spec => []CloseReachesTheRest
<1>1. IInv => CloseReachesTheRest
  BY DEF IInv, CloseInv, BeforeTest, CloseReachesTheRest
<1> QED
  BY <1>1, Invariant, PTL
=============================================================================
