-------------------------- MODULE TcpBearer_proofs --------------------------
(***************************************************************************)
(* For every number of accepted and dialled connections and every stream:  *)
(* a receive thread that ended left nothing behind, close() reaches every  *)
(* socket but those whose set-up closes them itself, and the endpoint is   *)
(* given the frames the peer framed, however the network cuts the stream.  *)
(*                                                                         *)
(* Two invariants that do not need each other: IInv is about the threads,  *)
(* the sockets and the hooks, StreamInv about the bytes.                   *)
(***************************************************************************)
EXTENDS TcpBearer, Induction

Steps == {"new", "connected", "tracked", "registered", "running", "refused"}
RecvPlaces == {"none", "top", "waiting", "parse", "finally", "close", "discard",
               "ended"}

\* The types of what is not a stream.
ControlTypeOK ==
  /\ closePc \in {"open", "closed", "unlistened", "copied", "done"}
  /\ closing \in BOOLEAN
  /\ hooked \subseteq Dialed
  /\ toClose \subseteq Accepted
  /\ listening \in BOOLEAN
  /\ acceptPc \in {"top", "waiting", "test", "register", "start", "exited"}
  /\ acceptOn \in Accepted \cup {NoConn}
  /\ sockets \subseteq Accepted
  /\ sockOpen \subseteq Conns
  /\ setup \in [Conns -> Steps]
  /\ recvPc \in [Conns -> RecvPlaces]
  /\ links \subseteq Conns

\* What the accept loop is doing to its connection.
AcceptInv ==
  /\ acceptPc \in {"test", "register", "start"} => acceptOn \in Accepted
  /\ acceptPc = "test" => setup[acceptOn] = "connected"
  /\ acceptPc = "register" => setup[acceptOn] = "tracked"
  /\ acceptPc = "start" => setup[acceptOn] = "registered"

\* A connection has a receive thread when its set-up is over, and a socket from
\* its first step on.
SetUpInv ==
  \A c \in Conns :
    /\ recvPc[c] # "none" <=> setup[c] = "running"
    /\ setup[c] \in {"new", "refused"} => c \notin sockOpen

\* What the receive thread has given up, step by step.
RecvInv ==
  \A c \in Conns :
    /\ recvPc[c] \in {"close", "discard", "ended"} /\ c \in links => ~EndpointOpen
    /\ recvPc[c] \in {"discard", "ended"} => c \notin sockOpen
    /\ recvPc[c] = "ended" => c \notin sockets

\* Who will close an open socket that is set up: close_all or a hook.
TrackInv ==
  \A c \in sockOpen :
    setup[c] # "connected" =>
      /\ c \in Dialed => c \in hooked
      /\ c \in Accepted => c \in sockets /\ (closing => c \in toClose)

\* How far close() is, as its flag and its lists show.
CloseInv ==
  /\ toClose # {} => closing
  /\ closing <=> closePc \in {"copied", "done"}
  /\ closePc = "done" => toClose = {} /\ hooked = {}

IInv ==
  /\ ControlTypeOK /\ AcceptInv /\ SetUpInv /\ RecvInv /\ TrackInv /\ CloseInv

-----------------------------------------------------------------------------
(* The initial states, and the accept loop.                                *)

\* A listener that was just opened satisfies the invariant.
LEMMA InitInv == Init => IInv
<1> SUFFICES ASSUME Init PROVE IInv
  OBVIOUS
<1>1. ControlTypeOK
  BY DEF Init, ControlTypeOK, Steps, RecvPlaces
<1>2. AcceptInv /\ SetUpInv /\ RecvInv /\ TrackInv /\ CloseInv
  BY DEF Init, AcceptInv, SetUpInv, RecvInv, TrackInv, CloseInv
<1> QED
  BY <1>1, <1>2 DEF IInv

\* The loop waits, or ends.
LEMMA AcceptMovesInv ==
  ASSUME IInv, AcceptWaits \/ AcceptRefused \/ AcceptFails  PROVE IInv'
<1> USE DEF IInv, AcceptWaits, AcceptRefused, AcceptFails, AcceptGoes, closeVars
<1>1. ControlTypeOK'
  BY DEF ControlTypeOK
<1>2. AcceptInv' /\ SetUpInv' /\ RecvInv' /\ TrackInv' /\ CloseInv'
  BY DEF AcceptInv, SetUpInv, RecvInv, EndpointOpen, TrackInv, CloseInv
<1> QED
  BY <1>1, <1>2

\* A connection begins: accepted by the loop, or dialled.
LEMMA ConnectInv ==
  ASSUME IInv, NEW c \in Conns,
         (c \in Accepted /\ AcceptConn(c)) \/ DialConnects(c)
  PROVE  IInv'
<1> USE DEF IInv, AcceptConn, DialConnects, AcceptGoes, SetUp, closeVars, acceptVars
<1>1. /\ setup[c] = "new" /\ setup' = [setup EXCEPT ![c] = "connected"]
      /\ sockOpen' = sockOpen \cup {c} /\ recvPc' = recvPc /\ links' = links
      /\ sockets' = sockets /\ UNCHANGED closeVars
  OBVIOUS
<1>2. \A d \in Conns \ {c} : setup'[d] = setup[d] /\ (d \in sockOpen' <=> d \in sockOpen)
  BY <1>1 DEF ControlTypeOK
<1>3. setup'[c] = "connected" /\ recvPc[c] = "none"
  BY <1>1 DEF ControlTypeOK, SetUpInv
<1>4. ControlTypeOK'
  BY <1>1 DEF ControlTypeOK, Steps
<1>5. AcceptInv'
  BY <1>1, <1>2, <1>3 DEF AcceptInv, Conns
<1>6. SetUpInv' /\ RecvInv' /\ CloseInv'
  BY <1>1, <1>2, <1>3 DEF SetUpInv, RecvInv, EndpointOpen, CloseInv
<1>7. TrackInv'
  BY <1>1, <1>2, <1>3 DEF TrackInv, ControlTypeOK
<1> QED
  BY <1>4, <1>5, <1>6, <1>7

\* close_all will find the socket, or the loop finds its flag; a dial adds its
\* hook, which fires at once on a closed endpoint.
LEMMA TrackedInv ==
  ASSUME IInv, AcceptTracks \/ AcceptTurnsAway \/ \E c \in Dialed : DialHooks(c)
  PROVE  IInv'
<1> USE DisjointAssumption
        DEF IInv, AcceptGoes, SetUp, closeVars, acceptVars, EndpointOpen
<1>1. CASE AcceptTracks
  <2> USE <1>1 DEF AcceptTracks
  <2>1. ControlTypeOK'
    BY DEF ControlTypeOK, AcceptInv, Steps
  <2>2. AcceptInv' /\ CloseInv'
    BY DEF AcceptInv, CloseInv, ControlTypeOK, Conns
  <2>3. SetUpInv' /\ RecvInv'
    BY DEF SetUpInv, RecvInv, AcceptInv, ControlTypeOK, Conns
  <2>4. TrackInv'
    BY DEF TrackInv, AcceptInv, ControlTypeOK, Conns
  <2> QED
    BY <2>1, <2>2, <2>3, <2>4
<1>2. CASE AcceptTurnsAway
  <2> USE <1>2 DEF AcceptTurnsAway
  <2>1. ControlTypeOK'
    BY DEF ControlTypeOK, Steps
  <2>2. AcceptInv' /\ CloseInv'
    BY DEF AcceptInv, CloseInv
  <2>3. SetUpInv' /\ RecvInv' /\ TrackInv'
    BY DEF SetUpInv, RecvInv, TrackInv, AcceptInv, ControlTypeOK, Conns
  <2> QED
    BY <2>1, <2>2, <2>3
<1>3. ASSUME NEW c \in Dialed, DialHooks(c)  PROVE IInv'
  <2> USE <1>3 DEF DialHooks
  <2>1. /\ setup[c] = "connected" /\ setup' = [setup EXCEPT ![c] = "tracked"]
        /\ \/ closePc = "open" /\ hooked' = hooked \cup {c} /\ sockOpen' = sockOpen
           \/ hooked' = hooked /\ sockOpen' = sockOpen \ {c}
    OBVIOUS
  <2>2. ControlTypeOK'
    BY <2>1 DEF ControlTypeOK, Steps
  <2>3. AcceptInv' /\ CloseInv'
    BY <2>1 DEF AcceptInv, CloseInv, ControlTypeOK, Conns
  <2>4. SetUpInv' /\ RecvInv'
    BY <2>1 DEF SetUpInv, RecvInv, ControlTypeOK, Conns
  <2>5. TrackInv'
    BY <2>1 DEF TrackInv, ControlTypeOK, Conns
  <2> QED
    BY <2>2, <2>3, <2>4, <2>5
<1> QED
  BY <1>1, <1>2, <1>3

\* The link is registered, then its receive thread started.
LEMMA SetUpEndsInv ==
  ASSUME IInv,
         \/ AcceptRegisters \/ AcceptStarts
         \/ \E c \in Dialed : DialRegisters(c) \/ DialStarts(c)
  PROVE  IInv'
<1> USE DEF IInv, AcceptGoes, SetUp, closeVars, acceptVars
<1>1. PICK c \in Conns :
        /\ \/ /\ setup[c] = "tracked" /\ setup' = [setup EXCEPT ![c] = "registered"]
              /\ links' \in {links, links \cup {c}} /\ recvPc' = recvPc
           \/ /\ setup[c] = "registered" /\ setup' = [setup EXCEPT ![c] = "running"]
              /\ recvPc' = [recvPc EXCEPT ![c] = "top"] /\ links' = links
        /\ \/ /\ c = acceptOn /\ c \in Accepted /\ acceptOn' = c
              /\ acceptPc' = "start" /\ setup'[c] = "registered"
           \/ acceptPc' = "top" /\ acceptOn' = NoConn
           \/ c \in Dialed /\ UNCHANGED acceptVars
  BY DEF AcceptRegisters, AcceptStarts, DialRegisters, DialStarts, RegisterLink,
         StartReceiver, Conns, AcceptInv, ControlTypeOK
<1>2. UNCHANGED closeVars /\ sockets' = sockets /\ sockOpen' = sockOpen
  BY DEF AcceptRegisters, AcceptStarts, DialRegisters, DialStarts
<1>3. /\ recvPc[c] = "none"
      /\ \A d \in Conns \ {c} : setup'[d] = setup[d] /\ recvPc'[d] = recvPc[d]
                                /\ (d \in links' <=> d \in links)
  BY <1>1 DEF SetUpInv, ControlTypeOK
<1>4. \/ setup'[c] = "registered" /\ recvPc'[c] = "none"
      \/ setup'[c] = "running" /\ recvPc'[c] = "top"
  BY <1>1, <1>3 DEF ControlTypeOK
<1>5. ControlTypeOK'
  BY <1>1, <1>2 DEF ControlTypeOK, Steps, RecvPlaces
<1>6. AcceptInv'
  BY <1>1, <1>3, <1>4, DisjointAssumption DEF AcceptInv, Conns
<1>7. SetUpInv'
  BY <1>1, <1>2, <1>3, <1>4 DEF SetUpInv
<1>8. RecvInv'
  BY <1>2, <1>3, <1>4 DEF RecvInv, EndpointOpen
<1>9. TrackInv' /\ CloseInv'
  BY <1>1, <1>2, <1>3, <1>4 DEF TrackInv, CloseInv, ControlTypeOK
<1> QED
  BY <1>5, <1>6, <1>7, <1>8, <1>9

-----------------------------------------------------------------------------
(* The receive threads, and close().                                       *)

\* A receive thread works on its stream.
LEMMA ReceiveInv ==
  ASSUME IInv, NEW c \in Conns,
         \/ RecvWaits(c) \/ RecvRefused(c) \/ RecvChunk(c) \/ RecvEof(c)
         \/ DeliverFrame(c) \/ NeedMore(c) \/ TooLong(c)
  PROVE  IInv'
<1>1. RecvOnly
  BY DEF RecvWaits, RecvRefused, RecvChunk, RecvEof, DeliverFrame, NeedMore, TooLong
<1>2. \E to \in {"top", "waiting", "parse", "finally"} :
         /\ recvPc[c] \in {"top", "waiting", "parse"}
         /\ recvPc' = [recvPc EXCEPT ![c] = to]
  BY DEF RecvWaits, RecvRefused, RecvChunk, RecvEof, DeliverFrame, NeedMore, TooLong,
         RecvGoes, IInv, ControlTypeOK
<1> USE DEF IInv, RecvOnly, closeVars, acceptVars
<1>3. ControlTypeOK'
  BY <1>1, <1>2 DEF ControlTypeOK, RecvPlaces
<1>4. AcceptInv' /\ TrackInv' /\ CloseInv'
  BY <1>1 DEF AcceptInv, TrackInv, CloseInv
<1>5. SetUpInv' /\ RecvInv'
  BY <1>1, <1>2 DEF SetUpInv, RecvInv, EndpointOpen, ControlTypeOK
<1> QED
  BY <1>3, <1>4, <1>5

\* It ends: the link goes down, the socket is closed, and then forgotten.
LEMMA ReceiveEndsInv ==
  ASSUME IInv, NEW c \in Conns, LinkDown(c) \/ CloseOwn(c) \/ Discard(c)
  PROVE  IInv'
<1> USE DEF IInv, LinkDown, CloseOwn, Discard, RecvGoes, closeVars, acceptVars
<1>1. ControlTypeOK'
  BY DEF ControlTypeOK, RecvPlaces
<1>2. AcceptInv' /\ CloseInv'
  BY DEF AcceptInv, CloseInv
<1>3. SetUpInv'
  BY DEF SetUpInv, ControlTypeOK
<1>4. RecvInv'
  <2>1. CASE LinkDown(c)
    BY <2>1 DEF RecvInv, EndpointOpen, ControlTypeOK
  <2>2. CASE CloseOwn(c)
    BY <2>2 DEF RecvInv, EndpointOpen, ControlTypeOK
  <2>3. CASE Discard(c)
    BY <2>3 DEF RecvInv, EndpointOpen, ControlTypeOK
  <2> QED
    BY <2>1, <2>2, <2>3
<1>5. TrackInv'
  BY DEF TrackInv, RecvInv, ControlTypeOK
<1> QED
  BY <1>1, <1>2, <1>3, <1>4, <1>5

\* close(), and the hooks it runs.
LEMMA CloseStepInv ==
  ASSUME IInv, EndpointCloses \/ CloseStep  PROVE IInv'
<1> USE DEF IInv, EndpointCloses, CloseStep, CloseListener, CloseAllCopies,
            CloseAllCloses, CloseDialed, CloseDone, CloseGoes, CloseOnly, acceptVars,
            EndpointOpen
<1>1. /\ sockOpen' \subseteq sockOpen
      /\ sockets' = sockets /\ setup' = setup /\ recvPc' = recvPc /\ links' = links
      /\ UNCHANGED acceptVars
      /\ closePc' # "open"
  BY DEF CloseInv, ControlTypeOK
<1>2. ControlTypeOK'
  BY DEF ControlTypeOK
<1>3. AcceptInv' /\ SetUpInv' /\ RecvInv'
  BY <1>1 DEF AcceptInv, SetUpInv, RecvInv
<1>4. TrackInv'
  BY DEF TrackInv
<1>5. CloseInv'
  BY DEF CloseInv
<1> QED
  BY <1>2, <1>3, <1>4, <1>5

\* Every step keeps the invariant.
LEMMA StepInv == IInv /\ [Next]_vars => IInv'
<1> SUFFICES ASSUME IInv, [Next]_vars PROVE IInv'
  OBVIOUS
<1>1. CASE UNCHANGED vars \/ Finished
  BY <1>1 DEF Finished, vars, IInv, ControlTypeOK, AcceptInv, SetUpInv, RecvInv,
              EndpointOpen, TrackInv, CloseInv
<1>2. CASE AcceptStep \/ AcceptFails
  BY <1>2, AcceptMovesInv, TrackedInv, SetUpEndsInv DEF AcceptStep
<1>3. ASSUME NEW c \in Accepted, AcceptConn(c)  PROVE IInv'
  BY <1>3, ConnectInv DEF Conns
<1>4. ASSUME NEW c \in Dialed, DialConnects(c) \/ DialStep(c)  PROVE IInv'
  BY <1>4, ConnectInv, TrackedInv, SetUpEndsInv DEF DialStep, Conns
<1>5. ASSUME NEW c \in Conns, RecvStep(c) \/ RecvChunk(c) \/ RecvEof(c)  PROVE IInv'
  BY <1>5, ReceiveInv, ReceiveEndsInv DEF RecvStep
<1> QED
  BY <1>1, <1>2, <1>3, <1>4, <1>5, CloseStepInv DEF Next

\* The invariant holds in every state of every behaviour.
THEOREM Invariant == Spec => []IInv
  BY InitInv, StepInv, PTL DEF Spec

-----------------------------------------------------------------------------
(* The bytes.  First, where the frames of a stream are.                    *)

\* FrameEnd is what its recursion says, and its values are offsets.
LEMMA FrameEnds ==
  ASSUME NEW c \in Conns
  PROVE  /\ FrameEnd(c) \in [0..Len(Stream[c]) -> Nat]
         /\ FrameEnd(c)[0] = 0
         /\ \A i \in 1..Len(Stream[c]) :
              FrameEnd(c)[i] = FrameEnd(c)[i - 1] + HeaderBytes + Stream[c][i]
<1> DEFINE n == Len(Stream[c])
           next == [x \in (1..n) \X Nat |-> x[2] + HeaderBytes + Stream[c][x[1]]]
           Ends(f) == f = [i \in 0..n |-> IF i = 0 THEN 0
                                          ELSE f[i - 1] + HeaderBytes + Stream[c][i]]
<1>1. n \in Nat /\ HeaderBytes \in Nat /\ \A i \in 1..n : Stream[c][i] \in Nat
  BY StreamAssumption, BytesAssumption
<1>2. next \in [(1..n) \X Nat -> Nat]
  BY <1>1
<1>3. \A i \in 1..n, t \in Nat : next[<<i, t>>] = t + HeaderBytes + Stream[c][i]
  OBVIOUS
<1> HIDE DEF n, next
<1>4. PICK f \in [0..n -> Nat] : Follows(f, n, 0, next)
  BY <1>1, <1>2, Recursion
<1>5. \A i \in 1..n : f[i] = f[i - 1] + HeaderBytes + Stream[c][i]
  <2>1. \A i \in 1..n : f[i - 1] \in Nat
    BY <1>1, <1>4
  <2> QED
    BY <1>3, <1>4, <2>1 DEF Follows
<1>6. f[0] = 0
  BY <1>4 DEF Follows
<1>7. Ends(f)
  BY <1>1, <1>5, <1>6
<1>8. FrameEnd(c) = CHOOSE g : Ends(g)
  BY Zenon DEF FrameEnd, n
<1>9. Ends(FrameEnd(c))
  BY <1>7, <1>8, Zenon
<1> DEFINE E == FrameEnd(c)
<1>10. /\ E = [i \in 0..n |-> E[i]]
       /\ E[0] = 0
       /\ \A i \in 1..n : E[i] = E[i - 1] + HeaderBytes + Stream[c][i]
  <2> HIDE DEF E
  <2> QED
    BY <1>1, <1>9 DEF E
<1> DEFINE Nats == {i \in Nat : i \in 0..n => E[i] \in Nat}
<1> HIDE DEF E
<1>11. 0 \in Nats
  BY <1>10
<1>12. ASSUME NEW i \in Nat, i \in Nats  PROVE i + 1 \in Nats
  <2> SUFFICES ASSUME i + 1 \in 0..n  PROVE E[i + 1] \in Nat
    OBVIOUS
  <2>1. i + 1 \in 1..n /\ (i + 1) - 1 = i /\ E[i] \in Nat
    BY <1>12, <1>1
  <2>2. E[i + 1] = E[(i + 1) - 1] + HeaderBytes + Stream[c][i + 1]
    BY <1>10, <2>1
  <2> QED
    BY <1>1, <2>1, <2>2
<1> HIDE DEF Nats
<1>13. Nat \subseteq Nats
  BY <1>11, <1>12, SetInduction
<1>14. \A i \in 0..n : E[i] \in Nat
  BY <1>1, <1>13 DEF Nats
<1> QED
  BY <1>10, <1>14 DEF E, n

\* A frame ends behind the one before it.
LEMMA FrameEndsGrow ==
  ASSUME NEW c \in Conns
  PROVE  \A j \in 0..Len(Stream[c]) : \A i \in 0..(j - 1) : FrameEnd(c)[i] < FrameEnd(c)[j]
<1> DEFINE n == Len(Stream[c])
           E == FrameEnd(c)
           Grows == {j \in Nat : j \in 0..n => \A i \in 0..(j - 1) : E[i] < E[j]}
<1>1. /\ n \in Nat /\ HeaderBytes \in Nat \ {0} /\ \A i \in 1..n : Stream[c][i] \in Nat
      /\ E \in [0..n -> Nat]
      /\ \A i \in 1..n : E[i] = E[i - 1] + HeaderBytes + Stream[c][i]
  BY FrameEnds, StreamAssumption, BytesAssumption
<1> HIDE DEF n, E
<1>2. 0 \in Grows
  OBVIOUS
<1>3. ASSUME NEW j \in Nat, j \in Grows  PROVE j + 1 \in Grows
  <2> SUFFICES ASSUME j + 1 \in 0..n, NEW i \in 0..j  PROVE E[i] < E[j + 1]
    BY <1>1
  <2>1. j + 1 \in 1..n /\ (j + 1) - 1 = j /\ j \in 0..n
    BY <1>1
  <2>2. E[j + 1] = E[(j + 1) - 1] + HeaderBytes + Stream[c][j + 1]
    BY <1>1, <2>1
  <2>3. E[j] < E[j + 1]
    BY <1>1, <2>1, <2>2
  <2>4. i = j \/ E[i] < E[j]
    BY <1>3, <2>1
  <2>5. E[i] \in Nat /\ E[j] \in Nat /\ E[j + 1] \in Nat
    BY <1>1, <2>1
  <2>6. \A u, v, w \in Nat : v < w /\ u < v => u < w
    OBVIOUS
  <2> QED
    BY <2>3, <2>4, <2>5, <2>6
<1> HIDE DEF Grows
<1>4. Nat \subseteq Grows
  BY <1>2, <1>3, SetInduction
<1> QED
  BY <1>1, <1>4 DEF Grows, n, E

\* At the end of a frame the next one's length is read, and nothing else.
LEMMA NextLength ==
  ASSUME NEW c \in Conns, NEW k \in 0..(Len(Stream[c]) - 1)
  PROVE  LengthAt(c, FrameEnd(c)[k]) = {Stream[c][k + 1]}
<1> DEFINE n == Len(Stream[c])
           frames == {i \in DOMAIN Stream[c] : FrameEnd(c)[i - 1] = FrameEnd(c)[k]}
<1>1. n \in Nat /\ DOMAIN Stream[c] = 1..n /\ k + 1 \in 1..n /\ (k + 1) - 1 = k
  BY StreamAssumption
<1>2. ASSUME NEW i \in 1..n, i # k + 1  PROVE FrameEnd(c)[i - 1] # FrameEnd(c)[k]
  <2>1. i - 1 \in 0..n /\ k \in 0..n
    BY <1>1
  <2>2. i - 1 \in 0..(k - 1) \/ k \in 0..((i - 1) - 1)
    BY <1>1, <1>2
  <2>3. FrameEnd(c)[i - 1] \in Nat /\ FrameEnd(c)[k] \in Nat
    BY <2>1, FrameEnds
  <2> QED
    BY <2>1, <2>2, <2>3, FrameEndsGrow
<1>3. frames = {k + 1}
  BY <1>1, <1>2
<1> QED
  BY <1>3, Zenon DEF LengthAt

-----------------------------------------------------------------------------
(* What has been cut off a buffer is a number of whole frames.             *)

\* The first k frames of c are cut off, and each of them was delivered while the
\* endpoint was open.
FramesCut(c, k) ==
  /\ parsed[c] = FrameEnd(c)[k]
  /\ Len(delivered[c]) <= k
  /\ EndpointOpen => Len(delivered[c]) = k
  /\ \A i \in 1..Len(delivered[c]) :
       /\ delivered[c][i] = <<FrameEnd(c)[i - 1] + HeaderBytes, Stream[c][i]>>
       /\ Stream[c][i] <= MaxFrame

StreamInv ==
  /\ got \in [Conns -> Nat] /\ parsed \in [Conns -> Nat]
  /\ delivered \in [Conns -> Seq(Nat \X Nat)]
  /\ \A c \in Conns :
       /\ parsed[c] <= got[c] /\ got[c] <= StreamBytes(c)
       /\ \E k \in 0..Len(Stream[c]) : FramesCut(c, k)

\* Before the first chunk.
LEMMA InitStreamInv == Init => StreamInv
<1> SUFFICES ASSUME Init PROVE StreamInv
  OBVIOUS
<1>1. /\ got = [c \in Conns |-> 0] /\ parsed = [c \in Conns |-> 0]
      /\ delivered = [c \in Conns |-> <<>>]
  BY DEF Init
<1>2. ASSUME NEW c \in Conns  PROVE StreamBytes(c) \in Nat /\ FramesCut(c, 0)
  <2>1. FrameEnd(c)[0] = 0 /\ FrameEnd(c)[Len(Stream[c])] \in Nat
    BY FrameEnds, StreamAssumption
  <2> QED
    BY <1>1, <2>1 DEF FramesCut, StreamBytes
<1>3. \A c \in Conns : 0 \in 0..Len(Stream[c])
  BY StreamAssumption
<1> QED
  BY <1>1, <1>2, <1>3 DEF StreamInv

\* A chunk adds bytes the peer sent.
LEMMA ChunkStreamInv ==
  ASSUME StreamInv, NEW c \in Conns, RecvChunk(c)  PROVE StreamInv'
<1>1. PICK upTo \in (got[c] + 1)..StreamBytes(c) : got' = [got EXCEPT ![c] = upTo]
  BY DEF RecvChunk
<1>2. UNCHANGED <<parsed, delivered, closePc>>
  BY DEF RecvChunk, RecvOnly, closeVars
<1>3. ASSUME NEW d \in Conns  PROVE StreamBytes(d) \in Nat
  <2>1. FrameEnd(d) \in [0..Len(Stream[d]) -> Nat]
    BY FrameEnds
  <2>2. Len(Stream[d]) \in 0..Len(Stream[d])
    BY StreamAssumption
  <2> QED
    BY <2>1, <2>2 DEF StreamBytes
<1>4. /\ got' \in [Conns -> Nat]
      /\ \A d \in Conns : parsed[d] <= got'[d] /\ got'[d] <= StreamBytes(d)
  BY <1>1, <1>3 DEF StreamInv
<1>5. \A d \in Conns, k \in Nat : FramesCut(d, k)' <=> FramesCut(d, k)
  BY <1>2 DEF FramesCut, EndpointOpen
<1> QED
  BY <1>2, <1>4, <1>5 DEF StreamInv

\* A frame that is cut off is the next one of the stream, and all of it is there.
LEMMA DeliverStreamInv ==
  ASSUME StreamInv, NEW c \in Conns, DeliverFrame(c)  PROVE StreamInv'
<1> DEFINE H == HeaderBytes
           E == FrameEnd(c)
<1>1. PICK n \in LengthAt(c, parsed[c]) :
        /\ n <= MaxFrame /\ got[c] - parsed[c] >= H + n
        /\ parsed' = [parsed EXCEPT ![c] = @ + H + n]
        /\ delivered' = IF EndpointOpen
                        THEN [delivered EXCEPT ![c] = Append(@, <<parsed[c] + H, n>>)]
                        ELSE delivered
  BY DEF DeliverFrame
<1>2. UNCHANGED <<got, closePc>> /\ got[c] - parsed[c] >= H
  BY DEF DeliverFrame, HasHeader, RecvOnly, closeVars
<1>3. PICK k \in 0..Len(Stream[c]) : FramesCut(c, k)
  BY DEF StreamInv
<1>4. k # Len(Stream[c])
  BY <1>2, <1>3, BytesAssumption DEF StreamInv, FramesCut, StreamBytes
<1>5. /\ k + 1 \in 1..Len(Stream[c]) /\ (k + 1) - 1 = k
      /\ k \in 0..(Len(Stream[c]) - 1) /\ k \in Nat
  BY <1>4, StreamAssumption
<1>6. n = Stream[c][k + 1] /\ n \in Nat /\ H \in Nat
  <2>1. LengthAt(c, E[k]) = {Stream[c][k + 1]}
    BY <1>5, NextLength
  <2> QED
    BY <1>1, <1>3, <1>5, <2>1, StreamAssumption, BytesAssumption DEF FramesCut
<1>7. parsed[c] = E[k] /\ E[k + 1] = E[k] + H + n /\ E[k] \in Nat
  BY <1>3, <1>5, <1>6, FrameEnds DEF FramesCut
<1>8. /\ parsed' \in [Conns -> Nat] /\ parsed'[c] = E[k + 1] /\ parsed'[c] <= got[c]
      /\ \A d \in Conns \ {c} : parsed'[d] = parsed[d]
  <2>1. parsed \in [Conns -> Nat] /\ got[c] \in Nat
    BY DEF StreamInv
  <2>2. parsed' = [parsed EXCEPT ![c] = E[k] + H + n]
    BY <1>1, <1>7
  <2> HIDE DEF E, H
  <2>3. E[k] + H + n \in Nat /\ E[k] + H + n <= got[c]
    <3>1. got[c] - E[k] >= H + n
      BY <1>1, <1>7
    <3>2. \A e, g, h, m \in Nat : g - e >= h + m => e + h + m \in Nat /\ e + h + m <= g
      OBVIOUS
    <3>3. E[k] \in Nat /\ H \in Nat /\ n \in Nat /\ got[c] \in Nat
      BY <1>6, <1>7, <2>1
    <3> QED
      BY <3>1, <3>2, <3>3
  <2> QED
    BY <1>7, <2>1, <2>2, <2>3
<1>9. /\ delivered' \in [Conns -> Seq(Nat \X Nat)]
      /\ \A d \in Conns \ {c} : delivered'[d] = delivered[d]
      /\ delivered'[c] = IF EndpointOpen THEN Append(delivered[c], <<E[k] + H, n>>)
                                         ELSE delivered[c]
  <2> DEFINE frame == <<E[k] + H, n>>
  <2>1. frame \in Nat \X Nat
    BY <1>6, <1>7
  <2>2. delivered' = IF EndpointOpen
                     THEN [delivered EXCEPT ![c] = Append(@, frame)]
                     ELSE delivered
    BY <1>1, <1>7
  <2>3. delivered \in [Conns -> Seq(Nat \X Nat)]
    BY DEF StreamInv
  <2> HIDE DEF frame
  <2>4. Append(delivered[c], frame) \in Seq(Nat \X Nat)
    BY <2>1, <2>3
  <2>5. /\ delivered' \in [Conns -> Seq(Nat \X Nat)]
        /\ \A d \in Conns \ {c} : delivered'[d] = delivered[d]
        /\ delivered'[c] = IF EndpointOpen THEN Append(delivered[c], frame)
                                           ELSE delivered[c]
    BY <2>2, <2>3, <2>4
  <2> QED
    BY <2>5 DEF frame
<1>10. FramesCut(c, k + 1)'
  <2>1. CASE EndpointOpen
    <3>1. Len(delivered[c]) = k /\ delivered[c] \in Seq(Nat \X Nat)
      BY <1>3, <2>1 DEF FramesCut, StreamInv
    <3>2. delivered'[c] = Append(delivered[c], <<E[k] + H, n>>)
      BY <1>9, <2>1
    <3>3. /\ Len(delivered'[c]) = k + 1
          /\ delivered'[c][k + 1] = <<E[(k + 1) - 1] + H, Stream[c][k + 1]>>
          /\ \A i \in 1..k : delivered'[c][i] = delivered[c][i]
      BY <1>5, <1>6, <3>1, <3>2
    <3>4. \A i \in 1..(k + 1) : i = k + 1 \/ i \in 1..k
      BY <1>5
    <3>5. ASSUME NEW i \in 1..(k + 1)
          PROVE  /\ delivered'[c][i] = <<E[i - 1] + H, Stream[c][i]>>
                 /\ Stream[c][i] <= MaxFrame
      <4>1. CASE i = k + 1
        BY <1>1, <1>6, <3>3, <4>1, Zenon
      <4>2. CASE i \in 1..k
        BY <1>3, <3>1, <3>3, <4>2 DEF FramesCut
      <4> QED
        BY <3>4, <4>1, <4>2
    <3>6. parsed'[c] = E[k + 1] /\ k + 1 \in Nat
      BY <1>5, <1>8
    <3> HIDE DEF E, H
    <3> QED
      BY <3>3, <3>5, <3>6 DEF FramesCut, E, H
  <2>2. CASE ~EndpointOpen
    <3>1. delivered'[c] = delivered[c] /\ ~EndpointOpen'
      BY <1>2, <1>9, <2>2 DEF EndpointOpen
    <3>2. Len(delivered[c]) \in Nat
      BY DEF StreamInv
    <3> QED
      BY <1>3, <1>5, <1>8, <3>1, <3>2 DEF FramesCut
  <2> QED
    BY <2>1, <2>2
<1>11. k + 1 \in 0..Len(Stream[c])
  BY <1>5
<1>12. \A d \in Conns \ {c}, j \in Nat : FramesCut(d, j) => FramesCut(d, j)'
  BY <1>2, <1>8, <1>9 DEF FramesCut, EndpointOpen
<1>13. ASSUME NEW d \in Conns
       PROVE  /\ parsed'[d] <= got'[d] /\ got'[d] <= StreamBytes(d)
              /\ \E j \in 0..Len(Stream[d]) : FramesCut(d, j)'
  <2>1. PICK j \in 0..Len(Stream[d]) : FramesCut(d, j)
    BY DEF StreamInv
  <2>2. j \in Nat /\ parsed[d] <= got[d] /\ got[d] <= StreamBytes(d)
    BY StreamAssumption DEF StreamInv
  <2>3. d # c => FramesCut(d, j)'
    BY <1>12, <2>1, <2>2
  <2> QED
    BY <1>2, <1>8, <1>10, <1>11, <2>2, <2>3
<1>14. got' \in [Conns -> Nat]
  BY <1>2 DEF StreamInv
<1> QED
  BY <1>8, <1>9, <1>13, <1>14 DEF StreamInv

\* Nothing else touches the streams, and a closed endpoint stays closed.
LEMMA OtherStepStreamInv ==
  ASSUME StreamInv, UNCHANGED streamVars, EndpointOpen' => EndpointOpen
  PROVE  StreamInv'
BY DEF StreamInv, FramesCut, streamVars

\* Every step keeps the invariant of the bytes.
LEMMA StepStreamInv == StreamInv /\ [Next]_vars => StreamInv'
<1> SUFFICES ASSUME StreamInv, [Next]_vars PROVE StreamInv'
  OBVIOUS
<1>1. CASE UNCHANGED vars \/ Finished
  BY <1>1, OtherStepStreamInv DEF Finished, vars, streamVars, EndpointOpen
<1>2. CASE AcceptStep \/ AcceptFails \/ \E c \in Accepted : AcceptConn(c)
  BY <1>2, OtherStepStreamInv
     DEF AcceptStep, AcceptFails, AcceptConn, AcceptWaits, AcceptRefused, AcceptTracks,
         AcceptTurnsAway, AcceptRegisters, AcceptStarts, closeVars, EndpointOpen
<1>3. CASE \E c \in Dialed : DialConnects(c) \/ DialStep(c)
  BY <1>3, OtherStepStreamInv
     DEF DialStep, DialConnects, DialHooks, DialRegisters, DialStarts, closeVars,
         EndpointOpen
<1>4. ASSUME NEW c \in Conns, RecvStep(c) \/ RecvChunk(c) \/ RecvEof(c)
      PROVE  StreamInv'
  <2>1. CASE RecvChunk(c)
    BY <2>1, ChunkStreamInv
  <2>2. CASE DeliverFrame(c)
    BY <2>2, DeliverStreamInv
  <2>3. CASE \/ RecvEof(c) \/ RecvWaits(c) \/ RecvRefused(c) \/ NeedMore(c) \/ TooLong(c)
             \/ LinkDown(c) \/ CloseOwn(c) \/ Discard(c)
    BY <2>3, OtherStepStreamInv
       DEF RecvEof, RecvWaits, RecvRefused, NeedMore, TooLong, LinkDown, CloseOwn,
           Discard, RecvOnly, closeVars, EndpointOpen
  <2> QED
    BY <1>4, <2>1, <2>2, <2>3 DEF RecvStep
<1>5. CASE EndpointCloses \/ CloseStep
  BY <1>5, OtherStepStreamInv
     DEF EndpointCloses, CloseStep, CloseListener, CloseAllCopies, CloseAllCloses,
         CloseDialed, CloseDone, CloseGoes, CloseOnly, EndpointOpen
<1> QED
  BY <1>1, <1>2, <1>3, <1>4, <1>5 DEF Next

\* Every buffer begins at the end of a frame, in every state of every behaviour.
THEOREM StreamInvariant == Spec => []StreamInv
  BY InitStreamInv, StepStreamInv, PTL DEF Spec

-----------------------------------------------------------------------------
(* What the invariants say of the bearer.                                  *)

\* However a receive thread ended, no socket, no entry and no live link of its
\* connection is left.
THEOREM EndedLinksAreGone == Spec => []LinkLeavesNothing
<1>1. IInv => LinkLeavesNothing
  BY DEF IInv, RecvInv, LinkLeavesNothing
<1> QED
  BY <1>1, Invariant, PTL

\* After close() the only open sockets are of connections whose set-up will find
\* the endpoint closed, and close them.
THEOREM CloseReachesAll == Spec => []CloseReachesSockets
<1>1. IInv => CloseReachesSockets
  BY DEF IInv, ControlTypeOK, Conns, TrackInv, CloseInv, CloseReachesSockets
<1> QED
  BY <1>1, Invariant, PTL

\* Every variable keeps its type, and no more is cut off than was received, nor
\* received than the peer sent.
THEOREM TypeCorrect == Spec => []TypeOK
<1>1. IInv /\ StreamInv => TypeOK
  BY DEF IInv, ControlTypeOK, Steps, RecvPlaces, StreamInv, TypeOK
<1> QED
  BY <1>1, Invariant, StreamInvariant, PTL

\* For every stream and however the network cuts it into chunks, the endpoint is
\* given the frames the peer framed, in order, none left out, none too long.
THEOREM FramesInOrder == Spec => []DeliveredInOrder
<1>1. StreamInv => DeliveredInOrder
  <2> SUFFICES ASSUME StreamInv, NEW c \in Conns, NEW i \in DOMAIN delivered[c]
               PROVE  /\ i \in DOMAIN Stream[c]
                      /\ delivered[c][i] = <<FrameEnd(c)[i - 1] + HeaderBytes,
                                             Stream[c][i]>>
                      /\ Stream[c][i] <= MaxFrame
    BY Zenon DEF DeliveredInOrder
  <2>1. PICK k \in 0..Len(Stream[c]) : FramesCut(c, k)
    BY DEF StreamInv
  <2>2. i \in 1..Len(delivered[c]) /\ Len(delivered[c]) \in Nat
    BY DEF StreamInv
  <2> QED
    BY <2>1, <2>2, StreamAssumption DEF FramesCut
<1> QED
  BY <1>1, StreamInvariant, PTL
=============================================================================
