--------------------------- MODULE WsLink_proofs ---------------------------
(***************************************************************************)
(* For every peer and every stream:                                        *)
(*   - no dial leaves a connection open behind the back of close();        *)
(*   - a message costs no more than the cap and one read timeout;          *)
(*   - the messages delivered are the peer's, in order and whole, up to a  *)
(*     frame that was not sent whole.                                      *)
(***************************************************************************)
EXTENDS WsLink, Induction, FiniteSetTheorems

\* Before its hook the dial alone knows the socket; from then on an open socket
\* has its hook, which is gone before close() is over.  The reader comes last.
HookInv ==
  /\ dialPc \in DialPcs
  /\ dialPc \in {"idle", "resolve", "connect"} => sock = "none"
  /\ dialPc \in {"idle", "resolve", "connect", "wrap", "hook"} => ~hooked
  /\ dialPc \notin {"wrap", "hook"} /\ sock = "open" => hooked
  /\ hooked => closePc # "done"
  /\ readPc # "none" => dialPc = "dialed"

\* Nothing is dialled yet.
LEMMA InitHook == Init => HookInv
  BY DEF Init, HookInv, DialPcs

\* The steps of the dial.
LEMMA DialHook ==
  ASSUME HookInv, DialBegins \/ DialStep \/ HeadChunk \/ HeadFails  PROVE HookInv'
<1> USE DEF HookInv, DialPcs, DialGoes, DialOnly, closeVars, readVars, EndpointOpen
<1>1. CASE DialBegins \/ Resolve \/ Connect \/ WrapTls
  BY <1>1 DEF DialBegins, Resolve, Connect, WrapTls
<1>2. CASE HookDial \/ Ask
  BY <1>2 DEF HookDial, Ask
<1>3. CASE HeadChunk \/ HeadFails \/ HeadExpires \/ Upgraded \/ StartLink
  BY <1>3 DEF HeadChunk, HeadFails, HeadExpires, Upgraded, StartLink
<1> QED
  BY <1>1, <1>2, <1>3 DEF DialStep

\* The steps of the reader: of the socket they only ever do the closing.
LEMMA ReadHook ==
  ASSUME HookInv, ReadStep \/ RecvSome \/ RecvFails \/ Tick  PROVE HookInv'
<1>1. /\ UNCHANGED closeVars /\ dialPc' = dialPc
      /\ sock' = sock \/ (readPc = "close" /\ sock' = "closed")
      /\ readPc' = readPc \/ readPc # "none"
  BY DEF ReadStep, RegisterLink, BeginMessage, ReadHead, ReadHeadUpTo, ReadBody,
         ReadExpires, LinkDown, CloseOwn, RecvSome, RecvFails, Tick, ReadOnly,
         ReadGoes, Waits, readVars
<1> QED
  BY <1>1 DEF HookInv, closeVars

\* close() runs the hook before it is over.
LEMMA CloseHookInv ==
  ASSUME HookInv, EndpointCloses \/ CloseHook \/ CloseDone  PROVE HookInv'
  BY DEF HookInv, EndpointCloses, EndpointOpen, CloseHook, CloseDone, readVars

\* Once close() is over no dial past its hook holds a connection open: a refused
\* or late answer leaves it to the hook, and a hook that comes late fires at once.
THEOREM DialsReachedByClose == Spec => []ClosedHoldsNoSocket
<1>1. HookInv /\ [Next]_vars => HookInv'
  <2>1. ASSUME HookInv, UNCHANGED vars \/ Finished  PROVE HookInv'
    BY <2>1 DEF HookInv, Finished, vars, closeVars, readVars
  <2> QED
    BY <2>1, DialHook, ReadHook, CloseHookInv DEF Next
<1>2. HookInv => ClosedHoldsNoSocket
  BY DEF HookInv, ClosedHoldsNoSocket
<1> QED
  BY <1>1, <1>2, InitHook, PTL DEF Spec

-----------------------------------------------------------------------------
(* Where the frames of a stream are.                                       *)

\* What arrives from a peer that sends s: a head is that of a frame of s.
Units(s) == {u \in Nat \X Nat : u[2] = 0 => u[1] \in 1..Len(s)}

\* ends[i] is the place behind the i-th frame of s in the stream w: a frame that is
\* not torn has all its units there, and a torn one has its head.
Laid(ends, s, t, w) ==
  /\ ends \in [0..Len(s) -> Nat]
  /\ ends[0] = AnswerUnits /\ ends[Len(s)] = Len(w)
  /\ \A i \in 1..Len(s) :
       /\ ends[i - 1] < ends[i]
       /\ i # t => ends[i] = ends[i - 1] + s[i].len + 1
       /\ \A k \in 1..(ends[i] - ends[i - 1]) : w[ends[i - 1] + k] = <<i, k - 1>>

\* A frame has a length.
LEMMA FrameLength ==
  ASSUME NEW s \in Seq(Frames), NEW i \in 1..Len(s)
  PROVE  s[i] \in Frames /\ s[i].len \in Nat
<1>1. s[i] \in Frames
  OBVIOUS
<1>2. \A h \in Frames : h.len \in Nat
  BY HeadAssumption DEF Frames
<1> QED
  BY <1>1, <1>2

\* Every stream that a peer can send is laid out so.
LEMMA WireLaid ==
  ASSUME NEW s \in Seq(Frames), NEW t \in 0..Len(s), NEW n \in Nat,
         t # 0 => n \in 1..s[t].len
  PROVE  /\ Wire(s, t, n) \in Seq(Units(s))
         /\ \E ends : Laid(ends, s, t, Wire(s, t, n))
<1> DEFINE N == Len(s)
           U == Units(s)
           size(i) == IF i = t THEN n ELSE s[i].len + 1
           units == [i \in 1..N |-> FrameUnits(i, size(i))]
           answer == [k \in 1..AnswerUnits |-> <<0, k>>]
<1>1. N \in Nat /\ AnswerUnits \in Nat
  BY HeadAssumption
<1>2. ASSUME NEW i \in 1..N  PROVE size(i) \in Nat \ {0}
  <2>1. s[i].len \in Nat
    BY FrameLength
  <2> QED
    BY <2>1
<1>3. ASSUME NEW i \in 1..N
      PROVE  /\ units[i] \in Seq(U) /\ Len(units[i]) = size(i)
             /\ \A k \in 1..size(i) : units[i][k] = <<i, k - 1>>
  <2> DEFINE m == size(i)
  <2>1. m \in Nat /\ units[i] = [k \in 1..m |-> <<i, k - 1>>]
    BY <1>2 DEF FrameUnits
  <2> HIDE DEF m
  <2>2. \A k \in 1..m : <<i, k - 1>> \in U
    BY <1>1, <2>1 DEF Units
  <2>3. [k \in 1..m |-> <<i, k - 1>>] \in [1..m -> U]
    BY <2>2
  <2>4. units[i] \in Seq(U) /\ Len(units[i]) = m
    BY <2>1, <2>3
  <2>5. \A k \in 1..m : units[i][k] = <<i, k - 1>>
    BY <2>1
  <2> QED
    BY <2>4, <2>5 DEF m
<1> HIDE DEF size
<1>4. units \in Seq(Seq(U)) /\ Len(units) = N
  <2> DEFINE V == Seq(U)
  <2>1. units \in [1..N -> V]
    BY <1>3
  <2> HIDE DEF V, N, units
  <2>2. units \in Seq(V) /\ Len(units) = N
    BY <1>1, <2>1
  <2> QED
    BY <2>2 DEF V
<1>5. answer \in Seq(U) /\ Len(answer) = AnswerUnits
  <2>1. \A k \in 1..AnswerUnits : <<0, k>> \in U
    BY <1>1 DEF Units
  <2>2. answer \in [1..AnswerUnits -> U]
    BY <2>1
  <2> QED
    BY <1>1, <2>2
<1>6. Wire(s, t, n) = answer \o FlattenSeq(units)
  BY Zenon DEF Wire, size
<1> HIDE DEF N, U, units, answer
<1>7. PICK f \in [0..N -> Seq(U)] : IsFlattening(f, units)
  BY <1>4, FlattenExists
<1>8. FlattenSeq(units) = f[N]
  BY <1>4, <1>7, FlattenDef
<1> DEFINE ends == [i \in 0..N |-> AnswerUnits + Len(f[i])]
           w == Wire(s, t, n)
<1>9. \A i \in 0..N : f[i] \in Seq(U) /\ Len(f[i]) \in Nat
  BY <1>7
<1>10. f[0] = <<>>
  BY <1>7 DEF IsFlattening
<1>11. w = answer \o f[N] /\ N \in 0..N /\ f[N] \in Seq(U)
  BY <1>1, <1>6, <1>8, <1>9
<1> HIDE DEF w
<1>12. /\ w \in Seq(U) /\ Len(w) = AnswerUnits + Len(f[N])
       /\ \A x \in 1..Len(f[N]) : w[AnswerUnits + x] = f[N][x]
  BY <1>1, <1>5, <1>11
<1>13. \A i \in 1..N :
          /\ Len(f[i]) = Len(f[i - 1]) + Len(units[i])
          /\ Len(f[i]) <= Len(f[N])
          /\ \A k \in 1..Len(units[i]) : f[N][Len(f[i - 1]) + k] = units[i][k]
  <2> SUFFICES ASSUME NEW i \in 1..N
               PROVE  /\ Len(f[i]) = Len(f[i - 1]) + Len(units[i])
                      /\ Len(f[i]) <= Len(f[N])
                      /\ \A k \in 1..Len(units[i]) :
                            f[N][Len(f[i - 1]) + k] = units[i][k]
    BY Zenon
  <2>1. f \in [0..Len(units) -> Seq(U)] /\ i \in 1..Len(units) /\ Len(units) = N
    BY <1>4, <1>7, Zenon
  <2>2. PlacedIn(f, units, i)
    BY <1>4, <1>7, <2>1, FlattenPlaces
  <2> QED
    BY <2>1, <2>2, Zenon DEF PlacedIn
<1>14. ASSUME NEW i \in 1..N
       PROVE  /\ ends[i - 1] < ends[i]
              /\ i # t => ends[i] = ends[i - 1] + s[i].len + 1
              /\ \A k \in 1..(ends[i] - ends[i - 1]) : w[ends[i - 1] + k] = <<i, k - 1>>
  <2> DEFINE a == Len(f[i - 1])
             m == size(i)
  <2>1. /\ i \in 0..N /\ i - 1 \in 0..N
        /\ a \in Nat /\ m \in Nat \ {0}
        /\ Len(f[i]) = a + m /\ a + m <= Len(f[N]) /\ Len(f[N]) \in Nat
    <3>1. i \in 0..N /\ i - 1 \in 0..N
      BY <1>1
    <3>2. m \in Nat \ {0} /\ Len(units[i]) = m
      BY <1>2, <1>3
    <3>3. a \in Nat /\ Len(f[N]) \in Nat
      BY <1>9, <1>11, <3>1
    <3>4. Len(f[i]) = a + Len(units[i]) /\ Len(f[i]) <= Len(f[N])
      BY <1>13
    <3> HIDE DEF a, m
    <3> QED
      BY <3>1, <3>2, <3>3, <3>4
  <2>2. ends[i - 1] = AnswerUnits + a /\ ends[i] = AnswerUnits + a + m
    <3>1. ends[i - 1] = AnswerUnits + Len(f[i - 1]) /\ ends[i] = AnswerUnits + Len(f[i])
      BY <2>1
    <3> HIDE DEF ends, m
    <3> QED
      BY <1>1, <2>1, <3>1
  <2>3. ASSUME NEW k \in 1..m  PROVE w[AnswerUnits + a + k] = <<i, k - 1>>
    <3>1. a + k \in 1..Len(f[N])
      BY <2>1
    <3>2. f[N][a + k] = units[i][k] /\ units[i][k] = <<i, k - 1>>
      BY <1>3, <1>13
    <3>3. w[AnswerUnits + (a + k)] = f[N][a + k]
      BY <1>12, <3>1
    <3>4. AnswerUnits + a + k = AnswerUnits + (a + k)
      BY <1>1, <2>1
    <3> QED
      BY <3>2, <3>3, <3>4
  <2>4. i # t => m = s[i].len + 1
    BY DEF size
  <2>5. i # t => s[i].len \in Nat
    BY FrameLength DEF N
  <2> HIDE DEF m, ends
  <2>6. ends[i] - ends[i - 1] = m /\ ends[i - 1] < ends[i]
    BY <1>1, <2>1, <2>2
  <2>7. i # t => ends[i] = ends[i - 1] + s[i].len + 1
    <3> DEFINE l == s[i].len
    <3>1. i # t => m = l + 1 /\ l \in Nat
      BY <2>4, <2>5
    <3> HIDE DEF a, l
    <3>2. i # t => ends[i] = ends[i - 1] + l + 1
      BY <1>1, <2>1, <2>2, <3>1
    <3> QED
      BY <3>2 DEF l
  <2>8. \A k \in 1..(ends[i] - ends[i - 1]) : w[ends[i - 1] + k] = <<i, k - 1>>
    <3> HIDE DEF a
    <3> QED
      BY <2>2, <2>3, <2>6
  <2> QED
    BY <2>6, <2>7, <2>8
<1>15. ends \in [0..N -> Nat] /\ ends[0] = AnswerUnits /\ ends[N] = Len(w)
  <2>1. \A i \in 0..N : AnswerUnits + Len(f[i]) \in Nat
    BY <1>1, <1>9
  <2>2. AnswerUnits + Len(f[0]) = AnswerUnits
    BY <1>1, <1>10
  <2> QED
    BY <1>1, <1>12, <2>1, <2>2
<1> HIDE DEF ends
<1>16. Laid(ends, s, t, w)
  BY <1>14, <1>15 DEF Laid, N
<1> QED
  BY <1>12, <1>16 DEF w, U

-----------------------------------------------------------------------------
(* Types, and what a message may cost.                                     *)

\* The types, those of the stream and of the messages with them.
TypeInv ==
  /\ TypeOK
  /\ stream \in Seq(Units(script))
  /\ chunks \in Seq(Nat \X Nat)
  /\ delivered \in Seq(Seq(Nat \X Nat))

\* The time a message has used and the time it has left are the read timeout; its
\* payload, with that of a frame whose body is awaited, is within the cap.
CostInv ==
  /\ readPc \in {"head", "body"} => age + left = ReadTimeout
  /\ readPc = "head" => Len(chunks) <= MaxMessage
  /\ readPc = "body" => Len(chunks) + frame.len <= MaxMessage

ReaderInv == HookInv /\ TypeInv /\ CostInv

\* Whatever stands where a head is read, a head is read.
LEMMA HeadIsFrame ==
  ASSUME TypeInv, got > used
  PROVE  ReadAsHead(stream[used + 1]) \subseteq Frames
<1>1. used + 1 \in 1..Len(stream)
  BY DEF TypeInv, TypeOK
<1>2. stream[used + 1] \in Units(script) /\ script \in Seq(Frames)
  BY <1>1, ScriptsAssumption DEF TypeInv, TypeOK
<1>3. CASE stream[used + 1][2] = 0
  <2>1. stream[used + 1][1] \in 1..Len(script)
    BY <1>2, <1>3 DEF Units
  <2>2. script[stream[used + 1][1]] \in Frames
    BY <1>2, <2>1
  <2> QED
    BY <1>3, <2>2 DEF ReadAsHead
<1> QED
  BY <1>3 DEF ReadAsHead

\* The body that is awaited.
Body == SubSeq(stream, used + 1, used + frame.len)

\* Its units are those that stand in the stream.
LEMMA BodyUnits ==
  ASSUME TypeInv, readPc = "body", ~Waits
  PROVE  /\ used + frame.len \in 0..got /\ frame.len \in Nat
         /\ Body \in Seq(Nat \X Nat) /\ Len(Body) = frame.len
         /\ \A k \in 1..frame.len : Body[k] = stream[used + k]
<1> DEFINE m == frame.len
           body == SubSeq(stream, used + 1, used + m)
<1>1. /\ used \in Nat /\ got \in Nat /\ used <= got /\ got <= Len(stream)
      /\ frame \in Frames
  BY DEF TypeInv, TypeOK
<1>2. m \in Nat
  <2>1. \A h \in Frames : h.len \in Nat
    BY HeadAssumption DEF Frames
  <2> QED
    BY <1>1, <2>1
<1>3. used + m <= got
  <2>1. ~(got - used < m)
    BY DEF Waits, Needed
  <2> HIDE DEF m
  <2> QED
    BY <1>1, <1>2, <2>1
<1>4. stream \in Seq(Nat \X Nat)
  <2>1. Units(script) \subseteq Nat \X Nat
    BY DEF Units
  <2>2. stream \in Seq(Units(script))
    BY DEF TypeInv
  <2> QED
    BY <2>1, <2>2
<1> HIDE DEF m
<1>5. body \in Seq(Nat \X Nat) /\ Len(body) = m
  BY <1>1, <1>2, <1>3, <1>4
<1>6. \A k \in 1..m : body[k] = stream[used + k]
  BY <1>1, <1>2, <1>3, <1>4
<1>7. Body = body
  BY DEF Body, m
<1>8. used + m \in 0..got
  BY <1>1, <1>2, <1>3
<1> HIDE DEF body
<1> QED
  BY <1>2, <1>5, <1>6, <1>7, <1>8 DEF m

\* A dial that has not begun.
LEMMA InitReader == Init => ReaderInv
<1> SUFFICES ASSUME Init  PROVE ReaderInv
  OBVIOUS
<1>1. script \in Seq(Frames) /\ torn \in 0..Len(script)
  BY ScriptsAssumption DEF Init
<1>2. stream \in Seq(Units(script))
  <2>1. CASE torn = 0 /\ stream = Wire(script, 0, 0)
    <3>1. 0 \in 0..Len(script) /\ 0 \in Nat
      BY <1>1
    <3> QED
      BY <1>1, <2>1, <3>1, WireLaid
  <2>2. ASSUME NEW n \in 1..script[torn].len, stream = Wire(script, torn, n),
               torn \in DOMAIN script
        PROVE  stream \in Seq(Units(script))
    <3>1. torn \in 1..Len(script)
      BY <1>1, <2>2
    <3>2. n \in Nat
      BY <1>1, <3>1, FrameLength
    <3> QED
      BY <1>1, <2>2, <3>2, WireLaid
  <2> QED
    BY <2>1, <2>2 DEF Init
<1>3. NoFrame \in Frames
  BY HeadAssumption DEF NoFrame, Frames, Opcodes
<1>4. TypeOK
  <2>1. left \in 0..HandshakeTimeout \cup 0..ReadTimeout
    BY TimeoutAssumption DEF Init
  <2>2. Len(stream) \in Nat
    BY <1>2
  <2>3. got \in 0..Len(stream) /\ used \in 0..got /\ frame \in Frames
        /\ parts \in Nat /\ age \in Nat
    BY <1>3, <2>2 DEF Init
  <2>4. /\ script \in Scripts /\ accepted \in BOOLEAN /\ hooked \in BOOLEAN
        /\ linkUp \in BOOLEAN /\ closePc \in {"open", "closed", "done"}
        /\ dialPc \in DialPcs /\ readPc \in ReadPcs /\ sock \in {"none", "open", "closed"}
    BY DEF Init, DialPcs, ReadPcs
  <2> QED
    BY <1>1, <2>1, <2>3, <2>4 DEF TypeOK
<1> QED
  BY <1>2, <1>4, InitHook DEF ReaderInv, TypeInv, CostInv, Init

\* The dial takes of the stream what is there, and gives the reader what it took too
\* much of.
LEMMA DialReader ==
  ASSUME ReaderInv, DialBegins \/ DialStep \/ HeadChunk \/ HeadFails  PROVE ReaderInv'
<1>1. HookInv'
  BY DialHook DEF ReaderInv
<1>2. /\ UNCHANGED <<script, torn, stream, accepted, closePc, linkUp>>
      /\ UNCHANGED <<msgVars, delivered, age>>
      /\ UNCHANGED readPc \/ (readPc' = "register" /\ UNCHANGED bufVars)
      /\ UNCHANGED left \/ (left' = HandshakeTimeout /\ dialPc = "ask" /\ UNCHANGED readPc)
      /\ \/ UNCHANGED bufVars
         \/ UNCHANGED used /\ got' \in got..Len(stream)
         \/ UNCHANGED got /\ used' = AnswerUnits /\ got >= AnswerUnits
      /\ UNCHANGED sock \/ sock' \in {"open", "closed"}
      /\ hooked' \in {hooked, TRUE}
  <2> USE DEF ReaderInv, TypeInv, TypeOK, DialGoes, DialOnly, peerVars, closeVars, readVars,
              bufVars, msgVars, timeVars
  <2>1. CASE DialBegins \/ Resolve \/ Connect \/ WrapTls \/ HookDial \/ Ask
    BY <2>1 DEF DialBegins, Resolve, Connect, WrapTls, HookDial, Ask
  <2>2. CASE HeadFails \/ HeadExpires \/ Upgraded \/ StartLink
    BY <2>2 DEF HeadFails, HeadExpires, Upgraded, StartLink, HeadComplete
  <2>3. CASE HeadChunk
    <3>1. PICK n \in 1..RecvUnits : got + n <= Len(stream) /\ got' = got + n
      BY <2>3 DEF HeadChunk
    <3>2. n \in Nat /\ n > 0 /\ got \in Nat
      BY <3>1, HeadAssumption
    <3>3. Len(stream) \in Nat
      BY DEF ReaderInv, TypeInv
    <3>4. got' \in got..Len(stream)
      BY <3>1, <3>2, <3>3
    <3> QED
      BY <2>3, <3>4 DEF HeadChunk
  <2> QED
    BY <2>1, <2>2, <2>3 DEF DialStep
<1>3. TypeInv'
  <2>1. got' \in 0..Len(stream) /\ used' \in 0..got'
    <3>1. got \in 0..Len(stream) /\ used \in 0..got /\ Len(stream) \in Nat
      BY DEF ReaderInv, TypeInv, TypeOK
    <3>2. AnswerUnits \in Nat
      BY HeadAssumption
    <3> QED
      BY <1>2, <3>1, <3>2 DEF bufVars
  <2>2. left' \in 0..HandshakeTimeout \cup 0..ReadTimeout
    BY <1>2, TimeoutAssumption DEF ReaderInv, TypeInv, TypeOK
  <2>3. dialPc' \in DialPcs /\ readPc' \in ReadPcs
    BY <1>1, <1>2 DEF ReaderInv, TypeInv, TypeOK, HookInv, ReadPcs
  <2> QED
    BY <1>2, <2>1, <2>2, <2>3 DEF ReaderInv, TypeInv, TypeOK, msgVars
<1>4. CostInv'
  BY <1>2 DEF ReaderInv, CostInv, HookInv, msgVars
<1> QED
  BY <1>1, <1>3, <1>4 DEF ReaderInv

\* The steps of a reader that change no part of the message under assembly.
LEMMA WaitingReader ==
  ASSUME ReaderInv,
         RegisterLink \/ BeginMessage \/ ReadExpires \/ LinkDown \/ CloseOwn
         \/ RecvSome \/ RecvFails \/ Tick
  PROVE  ReaderInv'
<1>1. HookInv'
  BY ReadHook DEF ReaderInv, ReadStep
<1>2. /\ UNCHANGED <<peerVars, closeVars, dialPc, frame, delivered, used>>
      /\ readPc' \in ReadPcs /\ linkUp' \in BOOLEAN /\ sock' \in {sock, "closed"}
      /\ readPc' = "head" => readPc = "head" \/ BeginMessage
      /\ readPc' = "body" => readPc = "body"
      /\ ~RecvSome => UNCHANGED got
      /\ ~Tick /\ ~BeginMessage => UNCHANGED timeVars
      /\ ~BeginMessage => UNCHANGED <<parts, chunks>>
      /\ Tick => UNCHANGED readPc
  BY DEF RegisterLink, BeginMessage, ReadExpires, LinkDown, CloseOwn, RecvSome, RecvFails,
         Tick, ReadGoes, ReadOnly, readVars, msgVars, bufVars, timeVars, ReaderInv, TypeInv,
         TypeOK, ReadPcs, EndpointOpen
<1>3. got' \in 0..Len(stream) /\ used' \in 0..got'
  <2>1. got \in 0..Len(stream) /\ used \in 0..got /\ Len(stream) \in Nat
    BY DEF ReaderInv, TypeInv, TypeOK
  <2>2. CASE RecvSome
    <3>1. PICK n \in 1..(Needed - (got - used)) : got + n <= Len(stream) /\ got' = got + n
      BY <2>2 DEF RecvSome
    <3>2. n \in Nat
      OBVIOUS
    <3> QED
      BY <1>2, <2>1, <3>1, <3>2
  <2> QED
    BY <1>2, <2>1, <2>2
<1>4. /\ left' \in 0..HandshakeTimeout \cup 0..ReadTimeout /\ age' \in Nat
      /\ readPc' \in {"head", "body"} => age' + left' = ReadTimeout
  <2>1. /\ left \in 0..HandshakeTimeout \cup 0..ReadTimeout /\ age \in Nat
        /\ readPc \in {"head", "body"} => age + left = ReadTimeout
        /\ HandshakeTimeout \in Nat /\ ReadTimeout \in Nat
    BY TimeoutAssumption DEF ReaderInv, TypeInv, TypeOK, CostInv
  <2>2. CASE BeginMessage
    BY <2>1, <2>2 DEF BeginMessage
  <2>3. CASE Tick
    BY <1>2, <2>1, <2>3 DEF Tick
  <2>4. CASE ~BeginMessage /\ ~Tick
    BY <1>2, <2>1, <2>4 DEF timeVars
  <2> QED
    BY <2>2, <2>3, <2>4
<1>5. /\ parts' \in Nat /\ chunks' \in Seq(Nat \X Nat)
      /\ readPc' = "head" => Len(chunks') <= MaxMessage
      /\ readPc' = "body" => Len(chunks') + frame'.len <= MaxMessage
  <2>1. CASE BeginMessage
    <3>1. parts' = 0 /\ chunks' = <<>> /\ readPc' = "head"
      BY <2>1 DEF BeginMessage, ReadGoes
    <3> QED
      BY <3>1, HeadAssumption
  <2>2. CASE ~BeginMessage
    BY <1>2, <2>2 DEF ReaderInv, TypeInv, TypeOK, CostInv
  <2> QED
    BY <2>1, <2>2
<1> QED
  BY <1>1, <1>2, <1>3, <1>4, <1>5
  DEF ReaderInv, TypeInv, TypeOK, CostInv, peerVars, closeVars

\* A head whose length the message has no room for ends the link; the body of any
\* other one is within the cap.
LEMMA HeadReader ==
  ASSUME ReaderInv, ReadHead  PROVE ReaderInv'
<1>1. HookInv'
  BY ReadHook DEF ReaderInv, ReadStep
<1>2. /\ UNCHANGED <<peerVars, closeVars, dialPc, sock, linkUp, parts, chunks, delivered, got>>
      /\ UNCHANGED timeVars /\ readPc = "head"
      /\ got > used /\ used' = used + 1
  BY DEF ReadHead, ReadHeadUpTo, ReadOnly
<1>3. PICK h \in ReadAsHead(stream[used + 1]) :
        /\ frame' = h
        /\ readPc' = IF h.ok /\ h.len <= MaxMessage - Len(chunks) THEN "body" ELSE "finally"
  BY Zenon DEF ReadHead, ReadHeadUpTo
<1>4. frame' \in Frames
  BY <1>2, <1>3, HeadIsFrame DEF ReaderInv
<1>5. readPc' = "body" => Len(chunks') + frame'.len <= MaxMessage
  <2>1. frame'.len \in Nat /\ MaxMessage \in Nat
    <3>1. \A x \in Frames : x.len \in Nat
      BY HeadAssumption DEF Frames
    <3> QED
      BY <1>4, <3>1, HeadAssumption
  <2>2. Len(chunks) \in Nat /\ chunks' = chunks
    BY <1>2 DEF ReaderInv, TypeInv
  <2>3. readPc' = "body" => frame'.len <= MaxMessage - Len(chunks)
    BY <1>3
  <2> QED
    BY <2>1, <2>2, <2>3
<1>6. readPc' \in {"body", "finally"}
  BY <1>3
<1>7. got' \in 0..Len(stream) /\ used' \in 0..got'
  BY <1>2 DEF ReaderInv, TypeInv, TypeOK
<1> QED
  BY <1>1, <1>2, <1>4, <1>5, <1>6, <1>7
  DEF ReaderInv, TypeInv, TypeOK, CostInv, peerVars, closeVars, timeVars, ReadPcs

\* Where a frame takes the reader, and what it takes it with.
LEMMA BodyReader ==
  ASSUME ReaderInv, ReadBody  PROVE ReaderInv'
<1>1. HookInv'
  BY ReadHook DEF ReaderInv, ReadStep
<1>2. /\ UNCHANGED <<peerVars, closeVars, dialPc, sock, linkUp, frame, got, timeVars>>
      /\ readPc = "body" /\ ~Waits
      /\ used' = used + frame.len /\ parts' = parts + 1
      /\ chunks' \in {chunks, chunks \o Body}
      /\ delivered' \in {delivered, Append(delivered, chunks')}
      /\ readPc' \in {"top", "head", "finally"}
  BY DEF ReadBody, ReadOnly, AfterFrame, Body
<1>3. /\ used + frame.len \in 0..got /\ frame.len \in Nat
      /\ Body \in Seq(Nat \X Nat) /\ Len(Body) = frame.len
  BY <1>2, BodyUnits DEF ReaderInv
<1>4. /\ chunks' \in Seq(Nat \X Nat) /\ Len(chunks') <= Len(chunks) + frame.len
  <2>1. chunks \in Seq(Nat \X Nat)
    BY DEF ReaderInv, TypeInv
  <2> DEFINE P == Nat \X Nat
             l == frame.len
             c == chunks \o Body
  <2>2. chunks \in Seq(P) /\ Body \in Seq(P) /\ Len(Body) = l /\ l \in Nat
    BY <1>3, <2>1
  <2> HIDE DEF P, l
  <2>3. c \in Seq(P) /\ Len(c) = Len(chunks) + l /\ Len(chunks) \in Nat
    BY <2>2
  <2>4. chunks' \in {chunks, c}
    BY <1>2
  <2> HIDE DEF c
  <2>5. chunks' \in Seq(P) /\ Len(chunks') <= Len(chunks) + l
    BY <2>2, <2>3, <2>4
  <2> QED
    BY <2>5 DEF P, l
<1>5. readPc' = "head" => Len(chunks') <= MaxMessage
  <2>1. Len(chunks) + frame.len <= MaxMessage /\ MaxMessage \in Nat
    BY <1>2, HeadAssumption DEF ReaderInv, CostInv
  <2>2. Len(chunks) \in Nat /\ Len(chunks') \in Nat
    BY <1>4 DEF ReaderInv, TypeInv
  <2> QED
    BY <1>3, <1>4, <2>1, <2>2
<1>6. delivered' \in Seq(Seq(Nat \X Nat))
  <2> DEFINE Q == Seq(Nat \X Nat)
  <2>1. delivered \in Seq(Q) /\ chunks' \in Q
    BY <1>4 DEF ReaderInv, TypeInv
  <2> HIDE DEF Q
  <2>2. Append(delivered, chunks') \in Seq(Q)
    BY <2>1
  <2>3. delivered' \in Seq(Q)
    BY <1>2, <2>1, <2>2, Zenon
  <2> QED
    BY <2>3 DEF Q
<1>7. got' \in 0..Len(stream) /\ used' \in 0..got' /\ parts' \in Nat
  BY <1>2, <1>3 DEF ReaderInv, TypeInv, TypeOK
<1>8. TypeInv'
  BY <1>2, <1>4, <1>6, <1>7
  DEF ReaderInv, TypeInv, TypeOK, peerVars, closeVars, timeVars, ReadPcs
<1>9. CostInv'
  BY <1>2, <1>5 DEF ReaderInv, CostInv, timeVars
<1> QED
  BY <1>1, <1>8, <1>9 DEF ReaderInv

\* close() does nothing to the reader but take its socket.
LEMMA CloseReader ==
  ASSUME ReaderInv, EndpointCloses \/ CloseHook \/ CloseDone  PROVE ReaderInv'
<1>1. HookInv'
  BY CloseHookInv DEF ReaderInv
<1>2. /\ UNCHANGED <<peerVars, dialPc, readVars, bufVars, timeVars>>
      /\ closePc' \in {"closed", "done"} \cup {closePc}
      /\ hooked' \in BOOLEAN /\ sock' \in {sock, "closed"}
  BY DEF EndpointCloses, CloseHook, CloseDone, ReaderInv, TypeInv, TypeOK
<1> QED
  BY <1>1, <1>2
  DEF ReaderInv, TypeInv, TypeOK, CostInv, peerVars, readVars, msgVars, bufVars, timeVars

\* Every step keeps the types and the cost.
LEMMA StepReader == ReaderInv /\ [Next]_vars => ReaderInv'
<1>1. ASSUME ReaderInv, UNCHANGED vars \/ Finished  PROVE ReaderInv'
  BY <1>1 DEF ReaderInv, HookInv, TypeInv, TypeOK, CostInv, Finished, vars, peerVars,
              closeVars, readVars, msgVars, bufVars, timeVars
<1> QED
  BY <1>1, DialReader, WaitingReader, HeadReader, BodyReader, CloseReader
  DEF Next, ReadStep

\* What the reader keeps holds in every state.
THEOREM ReaderInvariant == Spec => []ReaderInv
  BY InitReader, StepReader, PTL DEF Spec

\* The type invariant: used <= got <= Len(stream) with it, recv_exact never takes
\* from the buffer what did not arrive.
THEOREM TypeCorrect == Spec => []TypeOK
<1>1. ReaderInv => TypeOK
  BY DEF ReaderInv, TypeInv
<1> QED
  BY <1>1, ReaderInvariant, PTL

\* However many frames a peer cuts a message into, its payload stays within the cap
\* and its time within one read timeout: begin_read sets the one deadline, and
\* _read_message gives each frame what the message has left.
THEOREM AssemblyIsBounded == Spec => []AssemblyBounded
<1>1. ReaderInv => AssemblyBounded
  <2>1. ReaderInv => /\ left \in Nat /\ age \in Nat /\ ReadTimeout \in Nat
    BY TimeoutAssumption DEF ReaderInv, TypeInv, TypeOK
  <2>2. ReaderInv => Len(chunks) \in Nat
    BY DEF ReaderInv, TypeInv
  <2> QED
    BY <2>1, <2>2 DEF ReaderInv, CostInv, AssemblyBounded
<1> QED
  BY <1>1, ReaderInvariant, PTL

-----------------------------------------------------------------------------
(* The messages of a script.                                               *)

\* They stay what they are while the script does.
LEMMA SameMessages ==
  ASSUME UNCHANGED script, NEW i, NEW j
  PROVE  /\ Message(i, j)' <=> Message(i, j)
         /\ MessagesUpTo(j)' = MessagesUpTo(j)
         /\ Payload(i, j)' = Payload(i, j)
<1>1. Message(i, j)' <=> Message(i, j)
  BY DEF Message
<1>2. MessagesUpTo(j)' = MessagesUpTo(j)
  BY DEF MessagesUpTo, Message
<1>3. Payload(i, j)' = Payload(i, j)
  BY DEF Payload, FramePayload
<1> QED
  BY <1>1, <1>2, <1>3

\* Before the first frame no message is over; with each frame at most one more is.
LEMMA MessagesCount ==
  /\ MessagesUpTo(0) = 0
  /\ \A q \in Nat :
       /\ MessagesUpTo(q) \in Nat
       /\ (\E i \in 1..(q + 1) : Message(i, q + 1)) =>
            MessagesUpTo(q + 1) = MessagesUpTo(q) + 1
       /\ ~(\E i \in 1..(q + 1) : Message(i, q + 1)) =>
            MessagesUpTo(q + 1) = MessagesUpTo(q)
<1> DEFINE ends(k) == \E i \in 1..k : Message(i, k)
           over(q) == {k \in 1..q : ends(k)}
<1>1. \A q : MessagesUpTo(q) = Cardinality(over(q))
  BY Zenon DEF MessagesUpTo
<1> HIDE DEF ends
<1>2. over(0) = {}
  OBVIOUS
<1>3. ASSUME NEW q \in Nat
      PROVE  /\ IsFiniteSet(over(q)) /\ Cardinality(over(q)) \in Nat
             /\ ends(q + 1) => Cardinality(over(q + 1)) = Cardinality(over(q)) + 1
             /\ ~ends(q + 1) => over(q + 1) = over(q)
  <2>1. IsFiniteSet(1..q)
    BY FS_Interval
  <2>2. IsFiniteSet(over(q))
    <3>1. over(q) \subseteq 1..q
      OBVIOUS
    <3> HIDE DEF over
    <3> QED
      BY <2>1, <3>1, FS_Subset
  <2>3. q + 1 \notin over(q)
    OBVIOUS
  <2>4. ends(q + 1) => over(q + 1) = over(q) \cup {q + 1}
    OBVIOUS
  <2>5. ~ends(q + 1) => over(q + 1) = over(q)
    OBVIOUS
  <2> HIDE DEF over
  <2>6. ends(q + 1) => Cardinality(over(q + 1)) = Cardinality(over(q)) + 1
    BY <2>2, <2>3, <2>4, FS_AddElement
  <2>7. Cardinality(over(q)) \in Nat
    BY <2>2, FS_CardinalityType
  <2> QED
    BY <2>2, <2>5, <2>6, <2>7
<1>4. Cardinality(over(0)) = 0
  BY <1>2, FS_EmptySet
<1> HIDE DEF over
<1>5. \A q \in Nat :
        /\ MessagesUpTo(q) \in Nat
        /\ ends(q + 1) => MessagesUpTo(q + 1) = MessagesUpTo(q) + 1
        /\ ~ends(q + 1) => MessagesUpTo(q + 1) = MessagesUpTo(q)
  BY <1>1, <1>3
<1> QED
  BY <1>1, <1>4, <1>5 DEF ends

\* The payload of no frame is empty, and that of one frame more is appended.
LEMMA PayloadGrows ==
  ASSUME script \in Seq(Frames), NEW p \in 0..Len(script)
  PROVE  /\ Payload(p + 1, p) = <<>>
         /\ p # Len(script) =>
              \A i \in 1..(p + 1) : Payload(i, p + 1) = Payload(i, p) \o FramePayload(p + 1)
<1>1. Payload(p + 1, p) = <<>>
  <2> DEFINE none == [k \in 1..(p - (p + 1) + 1) |-> FramePayload(p + 1 + k - 1)]
  <2>1. none = <<>> /\ Len(none) = 0
    OBVIOUS
  <2> HIDE DEF none
  <2>2. FlattenSeq(none) = <<>>
    BY <2>1 DEF FlattenSeq
  <2> QED
    BY <2>2, Zenon DEF Payload, none
<1>2. ASSUME NEW k \in 1..Len(script)  PROVE FramePayload(k) \in Seq(Nat \X Nat)
  <2> DEFINE l == script[k].len
             body == [u \in 1..l |-> <<k, u>>]
  <2>1. l \in Nat
    BY FrameLength
  <2> HIDE DEF l
  <2>2. body \in [1..l -> Nat \X Nat]
    OBVIOUS
  <2>3. body \in Seq(Nat \X Nat)
    BY <2>1, <2>2
  <2> QED
    BY <2>3 DEF FramePayload, l
<1>3. ASSUME p # Len(script), NEW i \in 1..(p + 1)
      PROVE  Payload(i, p + 1) = Payload(i, p) \o FramePayload(p + 1)
  <2> DEFINE m == p - i + 1
             F(k) == FramePayload(i + k - 1)
             ss == [k \in 1..m |-> F(k)]
             all == [k \in 1..(p + 1 - i + 1) |-> F(k)]
             T == Seq(Nat \X Nat)
  <2>1. m \in Nat /\ p + 1 - i + 1 = m + 1 /\ i + (m + 1) - 1 = p + 1
    OBVIOUS
  <2>2. \A k \in 1..(m + 1) : F(k) \in T
    <3> SUFFICES ASSUME NEW k \in 1..(m + 1)  PROVE F(k) \in T
      OBVIOUS
    <3>1. i + k - 1 \in 1..Len(script)
      BY <1>3, <2>1
    <3> QED
      BY <1>2, <3>1
  <2>3. F(m + 1) = FramePayload(p + 1)
    BY <2>1
  <2>4. all = [k \in 1..(m + 1) |-> F(k)]
    BY <2>1
  <2>5. Payload(i, p) = FlattenSeq(ss) /\ Payload(i, p + 1) = FlattenSeq(all)
    <3>1. Payload(i, p) = FlattenSeq(ss)
      BY DEF Payload
    <3>2. Payload(i, p + 1) = FlattenSeq(all)
      BY DEF Payload
    <3> QED
      BY <3>1, <3>2
  <2> HIDE DEF T, F, m, all
  <2>6. ss \in Seq(T) /\ F(m + 1) \in T /\ all = Append(ss, F(m + 1))
    BY <2>1, <2>2, <2>4
  <2> HIDE DEF ss
  <2>7. FlattenSeq(all) = FlattenSeq(ss) \o F(m + 1)
    BY <2>6, FlattenAppend DEF T
  <2> QED
    BY <2>3, <2>5, <2>7
<1> QED
  BY <1>1, <1>3

-----------------------------------------------------------------------------
(* The reader is in step with the frames until it comes to the torn one.   *)

\* The message under assembly has the frames i to p.
Assembled(i, p) ==
  /\ i \in 1..(p + 1) /\ parts = p + 1 - i
  /\ chunks = Payload(i, p)
  /\ \A k \in i..p : /\ ~script[k].fin
                     /\ script[k].op = IF k = i THEN "binary" ELSE "continuation"

\* p frames are read, none of them torn, and all the messages that were over with
\* them are delivered, unless the endpoint was closed meanwhile.
InStep(ends, i, p) ==
  /\ p \in 0..Len(script) /\ (torn # 0 => p < torn)
  /\ EndpointOpen => Len(delivered) = MessagesUpTo(p)
  /\ readPc \in {"top", "head"} => used = ends[p]
  /\ readPc = "body" => /\ used = ends[p] + 1
                        /\ p # Len(script) /\ frame = script[p + 1]
  /\ readPc \in {"head", "body"} => Assembled(i, p)

\* The reader took the torn frame for a whole one.
OutOfStep ==
  torn # 0 /\ (EndpointOpen => Len(delivered) >= MessagesUpTo(torn - 1))

Reading == {"top", "head", "body"}

\* Before the reader's first step the frames begin where its buffer does.
IntactInv(ends) ==
  /\ Laid(ends, script, torn, stream)
  /\ dialPc = "start" \/ readPc = "register" => used = AnswerUnits
  /\ readPc \in {"none", "register"} => delivered = <<>>
  /\ readPc \in Reading => OutOfStep \/ \E i, p \in Nat : InStep(ends, i, p)
  /\ DeliveredIntact

\* Nothing of this is about the dial.
LEMMA SameIntact ==
  ASSUME UNCHANGED <<script, torn, delivered>>, DeliveredIntact
  PROVE  DeliveredIntact'
<1> SUFFICES ASSUME NEW n \in DOMAIN delivered
             PROVE  \/ \E i, j \in DOMAIN script :
                         /\ Message(i, j)' /\ MessagesUpTo(j)' = n
                         /\ delivered[n] = Payload(i, j)'
                    \/ torn # 0 /\ n > MessagesUpTo(torn - 1)'
  BY DEF DeliveredIntact
<1>1. CASE torn # 0 /\ n > MessagesUpTo(torn - 1)
  <2>1. MessagesUpTo(torn - 1)' = MessagesUpTo(torn - 1)
    BY DEF MessagesUpTo, Message
  <2> QED
    BY <1>1, <2>1
<1>2. CASE \E i, j \in DOMAIN script :
             Message(i, j) /\ MessagesUpTo(j) = n /\ delivered[n] = Payload(i, j)
  <2>1. PICK i \in DOMAIN script, j \in DOMAIN script :
           Message(i, j) /\ MessagesUpTo(j) = n /\ delivered[n] = Payload(i, j)
    BY <1>2
  <2> QED
    BY <2>1, SameMessages
<1> QED
  BY <1>1, <1>2 DEF DeliveredIntact

\* A step that reads nothing and delivers nothing, and does not reopen the endpoint.
LEMMA SameStep ==
  ASSUME NEW ends, NEW i, NEW p,
         UNCHANGED <<peerVars, msgVars, delivered, used>>, EndpointOpen' => EndpointOpen
  PROVE  /\ OutOfStep => OutOfStep'
         /\ Laid(ends, script, torn, stream) => Laid(ends, script, torn, stream)'
         /\ readPc' \in {readPc, "register", "finally", "close", "ended"}
              => (InStep(ends, i, p) => InStep(ends, i, p)')
<1>1. OutOfStep => OutOfStep'
  <2>1. MessagesUpTo(torn - 1)' = MessagesUpTo(torn - 1)
    BY DEF MessagesUpTo, Message, peerVars
  <2> QED
    BY <2>1 DEF OutOfStep, peerVars
<1>2. Laid(ends, script, torn, stream) => Laid(ends, script, torn, stream)'
  BY DEF Laid, peerVars
<1>3. Assembled(i, p) => Assembled(i, p)'
  BY SameMessages DEF Assembled, peerVars, msgVars
<1>4. ASSUME readPc' \in {readPc, "register", "finally", "close", "ended"}, InStep(ends, i, p)
      PROVE  InStep(ends, i, p)'
  BY <1>3, <1>4, SameMessages DEF InStep, peerVars, msgVars
<1> QED
  BY <1>1, <1>2, <1>4

\* The dial leaves the reader its buffer at the first frame.
LEMMA DialIntact ==
  ASSUME ReaderInv, NEW ends, IntactInv(ends),
         DialBegins \/ DialStep \/ HeadChunk \/ HeadFails
  PROVE  IntactInv(ends)'
<1>1. /\ UNCHANGED <<peerVars, msgVars, delivered>>
      /\ readPc = "none" /\ readPc' \in {"none", "register"}
      /\ dialPc' = "start" => used' = AnswerUnits
      /\ readPc' = "register" => dialPc = "start" /\ UNCHANGED used
  <2> USE DEF ReaderInv, HookInv, DialGoes, DialOnly, peerVars, readVars, bufVars
  <2>1. CASE DialBegins \/ Resolve \/ Connect \/ WrapTls \/ HookDial \/ Ask
    BY <2>1 DEF DialBegins, Resolve, Connect, WrapTls, HookDial, Ask
  <2>2. CASE HeadChunk \/ HeadFails \/ HeadExpires \/ Upgraded \/ StartLink
    BY <2>2 DEF HeadChunk, HeadFails, HeadExpires, Upgraded, StartLink, HeadComplete
  <2> QED
    BY <2>1, <2>2 DEF DialStep
<1>2. DeliveredIntact'
  BY <1>1, SameIntact DEF IntactInv, peerVars
<1>3. Laid(ends, script, torn, stream)'
  BY <1>1 DEF IntactInv, Laid, peerVars
<1> QED
  BY <1>1, <1>2, <1>3 DEF IntactInv, Reading

\* The link is up and no frame is read.
LEMMA RegisterIntact ==
  ASSUME ReaderInv, NEW ends, IntactInv(ends), RegisterLink  PROVE IntactInv(ends)'
<1>1. /\ UNCHANGED <<peerVars, closeVars, dialPc, msgVars, delivered, used>>
      /\ readPc = "register" /\ readPc' = "top"
      /\ delivered = <<>> /\ used = AnswerUnits /\ dialPc # "start"
  BY DEF RegisterLink, ReadGoes, ReadOnly, bufVars, IntactInv, ReaderInv, HookInv
<1>2. InStep(ends, 1, 0)'
  <2>1. torn \in Nat /\ Len(script) \in Nat
    BY ScriptsAssumption DEF ReaderInv, TypeInv, TypeOK
  <2>2. MessagesUpTo(0)' = 0
    BY <1>1, MessagesCount, SameMessages DEF peerVars
  <2>3. ends[0] = AnswerUnits
    BY DEF IntactInv, Laid
  <2>4. Len(delivered') = 0
    BY <1>1
  <2> QED
    BY <1>1, <2>1, <2>2, <2>3, <2>4 DEF InStep, peerVars
<1>3. DeliveredIntact' /\ Laid(ends, script, torn, stream)'
  BY <1>1, SameIntact DEF IntactInv, peerVars, Laid
<1>4. \E i, p \in Nat : InStep(ends, i, p)'
  BY <1>2
<1> QED
  BY <1>1, <1>3, <1>4 DEF IntactInv, Reading

\* A message begins with no frame of it read.
LEMMA BeginIntact ==
  ASSUME ReaderInv, NEW ends, IntactInv(ends), BeginMessage  PROVE IntactInv(ends)'
<1>1. /\ UNCHANGED <<peerVars, closeVars, dialPc, frame, delivered, used>>
      /\ readPc = "top" /\ readPc' = "head"
      /\ parts' = 0 /\ chunks' = <<>> /\ dialPc # "start"
  BY DEF BeginMessage, ReadGoes, ReadOnly, bufVars, ReaderInv, HookInv
<1>2. ASSUME NEW i \in Nat, NEW p \in Nat, InStep(ends, i, p)
      PROVE  InStep(ends, p + 1, p)'
  <2>1. script \in Seq(Frames) /\ p \in 0..Len(script)
    BY <1>2, ScriptsAssumption DEF ReaderInv, TypeInv, TypeOK, InStep
  <2>2. Payload(p + 1, p)' = <<>> /\ MessagesUpTo(p)' = MessagesUpTo(p)
    BY <1>1, <2>1, PayloadGrows, SameMessages DEF peerVars
  <2>3. Assembled(p + 1, p)'
    BY <1>1, <2>1, <2>2 DEF Assembled
  <2> QED
    BY <1>1, <1>2, <2>1, <2>2, <2>3 DEF InStep, peerVars, closeVars, EndpointOpen
<1>3. OutOfStep => OutOfStep'
  <2>1. MessagesUpTo(torn - 1)' = MessagesUpTo(torn - 1)
    BY <1>1 DEF MessagesUpTo, Message, peerVars
  <2> QED
    BY <1>1, <2>1 DEF OutOfStep, peerVars, closeVars, EndpointOpen
<1>4. DeliveredIntact' /\ Laid(ends, script, torn, stream)'
  BY <1>1, SameIntact DEF IntactInv, peerVars, Laid
<1>5. OutOfStep' \/ \E i, p \in Nat : InStep(ends, i, p)'
  <2>1. \A p \in Nat : p + 1 \in Nat
    OBVIOUS
  <2> QED
    BY <1>1, <1>2, <1>3, <2>1 DEF IntactInv, Reading
<1> QED
  BY <1>1, <1>4, <1>5 DEF IntactInv, Reading

\* Waiting, ending and closing.
LEMMA WaitingIntact ==
  ASSUME ReaderInv, NEW ends, IntactInv(ends),
         \/ ReadExpires \/ LinkDown \/ CloseOwn \/ RecvSome \/ RecvFails \/ Tick
         \/ EndpointCloses \/ CloseHook \/ CloseDone \/ Finished \/ UNCHANGED vars
  PROVE  IntactInv(ends)'
<1>1. /\ UNCHANGED <<peerVars, dialPc, msgVars, delivered, used>>
      /\ EndpointOpen' => EndpointOpen
      /\ readPc' = readPc \/ readPc' \in {"finally", "close", "ended"}
  BY DEF ReadExpires, LinkDown, CloseOwn, RecvSome, RecvFails, Tick, EndpointCloses,
         CloseHook, CloseDone, Finished, ReadGoes, ReadOnly, readVars, bufVars, closeVars,
         EndpointOpen, vars
<1>2. DeliveredIntact'
  BY <1>1, SameIntact DEF IntactInv, peerVars
<1>3. Laid(ends, script, torn, stream)'
  BY <1>1, SameStep DEF IntactInv
<1>4. readPc' \in Reading => OutOfStep' \/ \E i, p \in Nat : InStep(ends, i, p)'
  <2>1. CASE OutOfStep
    BY <1>1, <2>1, SameStep
  <2>2. ASSUME NEW i \in Nat, NEW p \in Nat, InStep(ends, i, p)
        PROVE  InStep(ends, i, p)'
    BY <1>1, <2>2, SameStep
  <2> QED
    BY <1>1, <2>1, <2>2 DEF IntactInv, Reading
<1> QED
  BY <1>1, <1>2, <1>3, <1>4 DEF IntactInv

\* What the reader takes for a head in step with the frames is the next one's.
LEMMA HeadIntact ==
  ASSUME ReaderInv, NEW ends, IntactInv(ends), ReadHead  PROVE IntactInv(ends)'
<1>1. /\ UNCHANGED <<peerVars, closeVars, dialPc, parts, chunks, delivered>>
      /\ readPc = "head" /\ readPc' \in {"body", "finally"}
      /\ got > used /\ used' = used + 1
      /\ frame' \in ReadAsHead(stream[used + 1])
  BY DEF ReadHead, ReadHeadUpTo, ReadOnly
<1>2. ASSUME NEW i \in Nat, NEW p \in Nat, InStep(ends, i, p)
      PROVE  InStep(ends, i, p)'
  <2>1. /\ script \in Seq(Frames) /\ p \in 0..Len(script) /\ used = ends[p]
        /\ Assembled(i, p)
    BY <1>1, <1>2, ScriptsAssumption DEF ReaderInv, TypeInv, TypeOK, InStep
  <2>2. p # Len(script)
    <3>1. got <= ends[Len(script)] /\ got \in Nat
      BY DEF ReaderInv, TypeInv, TypeOK, IntactInv, Laid
    <3>2. ends[p] \in Nat /\ ends[Len(script)] \in Nat
      BY <2>1 DEF IntactInv, Laid
    <3> QED
      BY <1>1, <2>1, <3>1, <3>2
  <2>3. stream[used + 1] = <<p + 1, 0>>
    <3> DEFINE q == p + 1
    <3>1. q \in 1..Len(script) /\ q - 1 = p /\ q \in 0..Len(script)
      BY <2>1, <2>2
    <3> HIDE DEF q
    <3>2. ends[p] < ends[q] /\ ends[p] \in Nat /\ ends[q] \in Nat
      <4>1. ends[q - 1] < ends[q]
        BY <3>1 DEF IntactInv, Laid
      <4>2. ends[p] \in Nat /\ ends[q] \in Nat
        BY <2>1, <3>1 DEF IntactInv, Laid
      <4> QED
        BY <3>1, <4>1, <4>2
    <3>3. 1 \in 1..(ends[q] - ends[p])
      BY <3>2
    <3>4. stream[ends[p] + 1] = <<q, 1 - 1>>
      BY <3>1, <3>3 DEF IntactInv, Laid
    <3> QED
      BY <2>1, <3>4 DEF q
  <2>4. frame' = script[p + 1]
    BY <1>1, <2>3 DEF ReadAsHead
  <2>5. Assembled(i, p)' /\ MessagesUpTo(p)' = MessagesUpTo(p)
    BY <1>1, <2>1, SameMessages DEF Assembled, peerVars
  <2> QED
    BY <1>1, <1>2, <2>1, <2>2, <2>4, <2>5 DEF InStep, peerVars, closeVars, EndpointOpen
<1>3. OutOfStep => OutOfStep'
  <2>1. MessagesUpTo(torn - 1)' = MessagesUpTo(torn - 1)
    BY <1>1 DEF MessagesUpTo, Message, peerVars
  <2> QED
    BY <1>1, <2>1 DEF OutOfStep, peerVars, closeVars, EndpointOpen
<1>4. DeliveredIntact' /\ Laid(ends, script, torn, stream)'
  BY <1>1, SameIntact DEF IntactInv, peerVars, Laid
<1>5. OutOfStep' \/ \E i, p \in Nat : InStep(ends, i, p)'
  BY <1>1, <1>2, <1>3 DEF IntactInv, Reading
<1> QED
  BY <1>1, <1>4, <1>5 DEF IntactInv, Reading, ReaderInv, HookInv

\* A body that is complete adds a whole frame of the peer to what was read.
LEMMA BodyIsPayload ==
  ASSUME ReaderInv, NEW ends, IntactInv(ends), ReadBody,
         NEW i \in Nat, NEW p \in Nat, InStep(ends, i, p), p + 1 # torn
  PROVE  /\ p + 1 \in 1..Len(script) /\ frame = script[p + 1]
         /\ used' = ends[p + 1]
         /\ frame.op \notin Controls => Body = FramePayload(p + 1)
<1> DEFINE q == p + 1
           l == frame.len
<1>1. /\ readPc = "body" /\ ~Waits /\ used' = used + l
  BY DEF ReadBody
<1>2. /\ script \in Seq(Frames) /\ p \in 0..Len(script) /\ used = ends[p] + 1
      /\ frame = script[q] /\ p # Len(script)
  BY <1>1, ScriptsAssumption DEF ReaderInv, TypeInv, TypeOK, InStep
<1>3. q \in 1..Len(script) /\ q - 1 = p
  BY <1>2
<1>4. /\ l \in Nat /\ Body \in Seq(Nat \X Nat) /\ Len(Body) = l
      /\ \A k \in 1..l : Body[k] = stream[used + k]
  BY <1>1, BodyUnits DEF ReaderInv
<1>5. ends[q] = ends[p] + l + 1 /\ ends[p] \in Nat
  BY <1>2, <1>3 DEF IntactInv, Laid
<1>6. used' = ends[q]
  <2> HIDE DEF q, l
  <2> QED
    BY <1>1, <1>2, <1>4, <1>5
<1>7. ASSUME NEW k \in 1..l  PROVE Body[k] = <<q, k>>
  <2>1. ends[q] - ends[p] = l + 1 /\ k + 1 \in 1..(l + 1) /\ (k + 1) - 1 = k
        /\ used + k = ends[p] + (k + 1)
    <3> DEFINE a == ends[p]
               b == ends[q]
    <3>1. a \in Nat /\ l \in Nat /\ b = a + l + 1 /\ used = a + 1 /\ k \in 1..l
      BY <1>2, <1>4, <1>5
    <3> HIDE DEF q, l, a, b
    <3>2. b - a = l + 1 /\ k + 1 \in 1..(l + 1) /\ (k + 1) - 1 = k /\ used + k = a + (k + 1)
      BY <3>1
    <3> QED
      BY <3>2 DEF a, b
  <2>2. stream[ends[p] + (k + 1)] = <<q, (k + 1) - 1>>
    BY <1>3, <2>1 DEF IntactInv, Laid
  <2> QED
    BY <1>4, <2>1, <2>2
<1>8. Body = [u \in 1..l |-> <<q, u>>]
  <2> HIDE DEF q, l
  <2> QED
    BY <1>4, <1>7
<1> QED
  BY <1>2, <1>3, <1>6, <1>8 DEF FramePayload

\* A message that is given to the endpoint is the next of the peer's, or the stream
\* was out of step before it.
LEMMA DeliverIntact ==
  ASSUME ReaderInv, DeliveredIntact, UNCHANGED <<script, torn>>,
         delivered' = Append(delivered, chunks'), chunks' \in Seq(Nat \X Nat),
         \/ \E i, j \in DOMAIN script :
              /\ Message(i, j) /\ MessagesUpTo(j) = Len(delivered) + 1
              /\ chunks' = Payload(i, j)
         \/ torn # 0 /\ Len(delivered) + 1 > MessagesUpTo(torn - 1)
  PROVE  DeliveredIntact'
<1> DEFINE m == Len(delivered)
<1>1. /\ m \in Nat /\ DOMAIN delivered = 1..m
      /\ DOMAIN delivered' = 1..(m + 1) /\ delivered'[m + 1] = chunks'
      /\ \A n \in 1..m : delivered'[n] = delivered[n]
  <2> DEFINE Q == Seq(Nat \X Nat)
             c == chunks'
  <2>1. delivered \in Seq(Q) /\ c \in Q /\ delivered' = Append(delivered, c)
    BY DEF ReaderInv, TypeInv
  <2> HIDE DEF Q, c
  <2>2. /\ m \in Nat /\ DOMAIN delivered = 1..m
        /\ DOMAIN Append(delivered, c) = 1..(m + 1) /\ Append(delivered, c)[m + 1] = c
        /\ \A n \in 1..m : Append(delivered, c)[n] = delivered[n]
    BY <2>1
  <2> HIDE DEF m
  <2> QED
    BY <2>1, <2>2 DEF c
<1> HIDE DEF m
<1>2. MessagesUpTo(torn - 1)' = MessagesUpTo(torn - 1)
  BY DEF MessagesUpTo, Message
<1>3. ASSUME NEW n \in 1..(m + 1)
      PROVE  \/ \E i, j \in DOMAIN script :
                  /\ Message(i, j) /\ MessagesUpTo(j) = n
                  /\ delivered'[n] = Payload(i, j)
             \/ torn # 0 /\ n > MessagesUpTo(torn - 1)
  <2>1. CASE n \in 1..m
    BY <1>1, <2>1 DEF DeliveredIntact
  <2>2. CASE n \notin 1..m
    <3>1. n = m + 1
      BY <1>1, <2>2
    <3> QED
      BY <1>1, <3>1 DEF m
  <2> QED
    BY <2>1, <2>2
<1>4. ASSUME NEW n \in 1..(m + 1)
      PROVE  \/ \E i, j \in DOMAIN script :
                  /\ Message(i, j)' /\ MessagesUpTo(j)' = n
                  /\ delivered'[n] = Payload(i, j)'
             \/ torn # 0 /\ n > MessagesUpTo(torn - 1)'
  <2>1. CASE torn # 0 /\ n > MessagesUpTo(torn - 1)
    BY <1>2, <2>1
  <2>2. ASSUME NEW i \in DOMAIN script, NEW j \in DOMAIN script,
               Message(i, j), MessagesUpTo(j) = n, delivered'[n] = Payload(i, j)
        PROVE  /\ Message(i, j)' /\ MessagesUpTo(j)' = n
               /\ delivered'[n] = Payload(i, j)'
    BY <2>2, SameMessages
  <2> QED
    BY <1>3, <2>1, <2>2
<1> QED
  BY <1>1, <1>4 DEF DeliveredIntact

\* Out of step the reader stays out of step.
LEMMA BodyOutOfStep ==
  ASSUME ReaderInv, NEW ends, IntactInv(ends), ReadBody, OutOfStep
  PROVE  OutOfStep' /\ DeliveredIntact'
<1>1. /\ UNCHANGED <<script, torn, closePc>>
      /\ delivered' = delivered \/ (EndpointOpen /\ delivered' = Append(delivered, chunks'))
  BY DEF ReadBody, ReadOnly, peerVars, closeVars
<1>2. chunks' \in Seq(Nat \X Nat)
  BY BodyReader DEF ReaderInv, TypeInv
<1>3. /\ torn # 0 /\ torn - 1 \in Nat
      /\ MessagesUpTo(torn - 1)' = MessagesUpTo(torn - 1) /\ MessagesUpTo(torn - 1) \in Nat
  <2>1. torn # 0 /\ torn \in Nat
    BY DEF OutOfStep, ReaderInv, TypeInv, TypeOK
  <2>2. torn - 1 \in Nat
    BY <2>1
  <2>3. MessagesUpTo(torn - 1)' = MessagesUpTo(torn - 1)
    BY <1>1 DEF MessagesUpTo, Message
  <2> QED
    BY <2>1, <2>2, <2>3, MessagesCount
<1> DEFINE m == Len(delivered)
           b == MessagesUpTo(torn - 1)
<1>4. m \in Nat /\ b \in Nat /\ (EndpointOpen => m >= b)
  BY <1>3 DEF OutOfStep, ReaderInv, TypeInv
<1>5. Len(delivered') \in {m, m + 1}
  BY <1>1, <1>2 DEF ReaderInv, TypeInv
<1> HIDE DEF m, b
<1>6. EndpointOpen => Len(delivered') >= b /\ m + 1 > b
  BY <1>4, <1>5
<1>7. OutOfStep'
  BY <1>1, <1>3, <1>6 DEF OutOfStep, EndpointOpen, b
<1>8. DeliveredIntact'
  <2>1. CASE delivered' = delivered
    BY <1>1, <2>1, SameIntact DEF IntactInv
  <2>2. CASE EndpointOpen /\ delivered' = Append(delivered, chunks')
    BY <1>1, <1>2, <1>3, <1>6, <2>2, DeliverIntact DEF IntactInv, m, b
  <2> QED
    BY <1>1, <2>1, <2>2
<1> QED
  BY <1>7, <1>8

\* In step with the frames a whole frame takes the reader to the end of the link, or
\* it is in step behind it; what is delivered then is the message that ends there.
LEMMA BodyInStep ==
  ASSUME ReaderInv, NEW ends, IntactInv(ends), ReadBody,
         NEW i \in Nat, NEW p \in Nat, InStep(ends, i, p), p + 1 # torn
  PROVE  /\ DeliveredIntact'
         /\ readPc' \in Reading => InStep(ends, i, p + 1)'
<1> DEFINE q == p + 1
<1>1. /\ UNCHANGED <<peerVars, closeVars, frame>> /\ readPc = "body"
      /\ parts' = parts + 1 /\ readPc' = AfterFrame
      /\ chunks' = IF Unexpected \/ frame.op \in Controls THEN chunks ELSE chunks \o Body
      /\ delivered' = IF MessageDone /\ EndpointOpen THEN Append(delivered, chunks')
                                                     ELSE delivered
  BY DEF ReadBody, ReadOnly, Body
<1>2. /\ q \in 1..Len(script) /\ frame = script[q] /\ used' = ends[q]
      /\ frame.op \notin Controls => Body = FramePayload(q)
  BY BodyIsPayload
<1>3. /\ script \in Seq(Frames) /\ p \in 0..Len(script) /\ p # Len(script)
      /\ Assembled(i, p) /\ (torn # 0 => p < torn) /\ torn \in Nat
      /\ EndpointOpen => Len(delivered) = MessagesUpTo(p)
  BY <1>1, ScriptsAssumption DEF ReaderInv, TypeInv, TypeOK, InStep
<1>4. torn # 0 => q < torn
  BY <1>3
<1>5. i \in 1..q /\ parts = q - i /\ q \in Nat
  BY <1>3 DEF Assembled
<1>6. frame.op \in Opcodes /\ frame.fin \in BOOLEAN
  <2>1. \A h \in Frames : h.op \in Opcodes /\ h.fin \in BOOLEAN
    BY DEF Frames
  <2>2. frame \in Frames
    BY DEF ReaderInv, TypeInv, TypeOK
  <2> QED
    BY <2>1, <2>2
<1>7. /\ MessagesUpTo(q)' = MessagesUpTo(q)
      /\ (\E k \in 1..q : Message(k, q)) => MessagesUpTo(q) = MessagesUpTo(p) + 1
      /\ ~(\E k \in 1..q : Message(k, q)) => MessagesUpTo(q) = MessagesUpTo(p)
  BY <1>1, MessagesCount, SameMessages DEF peerVars
<1>8. CASE Unexpected \/ frame.op = "close"
  <2>1. readPc' = "finally" /\ delivered' = delivered
    BY <1>1, <1>8 DEF AfterFrame, MessageDone, Controls
  <2> QED
    BY <1>1, <2>1, SameIntact DEF IntactInv, peerVars, Reading
<1>9. CASE ~Unexpected /\ frame.op = "ping"
  <2>1. readPc' = "top" /\ delivered' = delivered
    BY <1>1, <1>9 DEF AfterFrame, MessageDone, Controls
  <2>2. DeliveredIntact'
    BY <1>1, <2>1, SameIntact DEF IntactInv, peerVars
  <2>3. ~\E k \in 1..q : Message(k, q)
    BY <1>2, <1>9 DEF Message, Controls
  <2>4. InStep(ends, i, q)'
    BY <1>1, <1>2, <1>3, <1>4, <1>7, <2>1, <2>3 DEF InStep, peerVars, closeVars, EndpointOpen
  <2> QED
    BY <2>2, <2>4
<1>10. CASE ~Unexpected /\ frame.op \notin Controls
  <2>1. frame.op = IF q = i THEN "binary" ELSE "continuation"
    <3>1. parts = 0 <=> q = i
      BY <1>5
    <3> QED
      BY <1>6, <1>10, <3>1 DEF Unexpected, Opcodes, Controls
  <2>2. chunks' = Payload(i, q) /\ Payload(i, q)' = Payload(i, q)
    <3>1. Payload(i, q) = Payload(i, p) \o FramePayload(q)
      BY <1>3, <1>5, PayloadGrows
    <3>2. chunks = Payload(i, p)
      BY <1>3 DEF Assembled
    <3>3. Payload(i, q)' = Payload(i, q)
      BY <1>1, SameMessages DEF peerVars
    <3> QED
      BY <1>1, <1>2, <1>10, <3>1, <3>2, <3>3
  <2>3. \A k \in i..p : /\ ~script[k].fin
                        /\ script[k].op = IF k = i THEN "binary" ELSE "continuation"
    BY <1>3 DEF Assembled
  <2>4. CASE frame.fin
    <3>1. readPc' = "top"
          /\ delivered' = IF EndpointOpen THEN Append(delivered, chunks') ELSE delivered
      BY <1>1, <1>10, <2>4 DEF AfterFrame, MessageDone, Controls
    <3>2. Message(i, q)
      <4>1. i <= q /\ q - 1 = p /\ (i # q => i \in i..p)
        BY <1>3, <1>5
      <4>2. script[i].op = "binary"
        BY <1>2, <2>1, <2>3, <4>1
      <4>3. \A k \in i..(q - 1) : ~script[k].fin
        BY <2>3, <4>1
      <4>4. \A k \in (i + 1)..q : script[k].op = "continuation"
        <5> SUFFICES ASSUME NEW k \in (i + 1)..q  PROVE script[k].op = "continuation"
          OBVIOUS
        <5>1. k # i /\ (k = q \/ k \in i..p)
          BY <1>3, <1>5
        <5> QED
          BY <1>2, <2>1, <2>3, <5>1
      <4> QED
        BY <1>2, <1>10, <2>4, <4>1, <4>2, <4>3, <4>4 DEF Message
    <3>3. MessagesUpTo(q) = MessagesUpTo(p) + 1
      BY <1>5, <1>7, <3>2
    <3>4. i \in DOMAIN script /\ q \in DOMAIN script
      <4>1. i \in 1..Len(script) /\ DOMAIN script = 1..Len(script)
        BY <1>2, <1>3, <1>5
      <4> QED
        BY <1>2, <4>1
    <3>5. DeliveredIntact'
      <4>1. CASE EndpointOpen
        <5>1. MessagesUpTo(q) = Len(delivered) + 1 /\ delivered' = Append(delivered, chunks')
          BY <1>3, <3>1, <3>3, <4>1
        <5>2. chunks' \in Seq(Nat \X Nat) /\ UNCHANGED <<script, torn>> /\ DeliveredIntact
          BY <1>1, BodyReader DEF ReaderInv, TypeInv, peerVars, IntactInv
        <5> QED
          BY <2>2, <3>2, <3>4, <5>1, <5>2, DeliverIntact
      <4>2. CASE ~EndpointOpen
        BY <1>1, <3>1, <4>2, SameIntact DEF IntactInv, peerVars
      <4> QED
        BY <4>1, <4>2
    <3>6. EndpointOpen' => Len(delivered') = MessagesUpTo(q)
      <4> SUFFICES ASSUME EndpointOpen  PROVE Len(delivered') = MessagesUpTo(q)
        BY <1>1 DEF closeVars, EndpointOpen
      <4>1. Len(Append(delivered, chunks')) = Len(delivered) + 1
        <5>1. delivered \in Seq(Seq(Nat \X Nat))
          BY DEF ReaderInv, TypeInv
        <5> QED
          BY <5>1
      <4> QED
        BY <1>3, <3>1, <3>3, <4>1
    <3>7. InStep(ends, i, q)'
      BY <1>1, <1>2, <1>4, <1>7, <3>1, <3>6 DEF InStep, peerVars, q
    <3> QED
      BY <3>5, <3>7
  <2>5. CASE ~frame.fin
    <3>1. readPc' = "head" /\ delivered' = delivered
      BY <1>1, <1>10, <2>5 DEF AfterFrame, MessageDone, Controls
    <3>2. DeliveredIntact'
      BY <1>1, <3>1, SameIntact DEF IntactInv, peerVars
    <3>3. MessagesUpTo(q) = MessagesUpTo(p)
      <4>1. ~\E k \in 1..q : Message(k, q)
        BY <1>2, <2>5 DEF Message
      <4> QED
        BY <1>7, <4>1
    <3>4. Assembled(i, q)'
      <4>1. parts' = q + 1 - i /\ i \in 1..(q + 1)
        BY <1>1, <1>5
      <4>2. \A k \in i..q : /\ ~script[k].fin
                            /\ script[k].op = IF k = i THEN "binary" ELSE "continuation"
        <5>1. \A k \in i..q : k = q \/ k \in i..p
          BY <1>3, <1>5
        <5> QED
          BY <1>2, <2>1, <2>3, <2>5, <5>1
      <4> QED
        BY <1>1, <2>2, <4>1, <4>2 DEF Assembled, peerVars
    <3>5. InStep(ends, i, q)'
      BY <1>1, <1>2, <1>3, <1>4, <1>7, <3>1, <3>3, <3>4
      DEF InStep, peerVars, closeVars, EndpointOpen
    <3> QED
      BY <3>2, <3>5
  <2> QED
    BY <1>6, <2>4, <2>5
<1> QED
  BY <1>8, <1>9, <1>10 DEF Controls

\* A frame that is read whole keeps the reader in step; the torn one ends that.
LEMMA BodyIntact ==
  ASSUME ReaderInv, NEW ends, IntactInv(ends), ReadBody  PROVE IntactInv(ends)'
<1>1. /\ UNCHANGED <<peerVars, dialPc>> /\ readPc = "body" /\ dialPc # "start"
      /\ readPc' \notin {"none", "register"}
  BY DEF ReadBody, ReadOnly, AfterFrame, ReaderInv, HookInv
<1>2. Laid(ends, script, torn, stream)'
  BY <1>1 DEF IntactInv, Laid, peerVars
<1>3. OutOfStep => OutOfStep' /\ DeliveredIntact'
  BY BodyOutOfStep
<1>4. ASSUME NEW i \in Nat, NEW p \in Nat, InStep(ends, i, p)
      PROVE  /\ DeliveredIntact'
             /\ readPc' \in Reading => OutOfStep' \/ InStep(ends, i, p + 1)'
  <2>1. CASE p + 1 = torn
    <3>1. torn # 0 /\ torn - 1 = p
      BY <2>1
    <3>2. Len(delivered) \in Nat /\ (EndpointOpen => Len(delivered) = MessagesUpTo(p))
      BY <1>4 DEF InStep, ReaderInv, TypeInv
    <3>3. OutOfStep
      BY <3>1, <3>2 DEF OutOfStep
    <3> QED
      BY <1>3, <3>3
  <2>2. CASE p + 1 # torn
    BY <1>4, <2>2, BodyInStep
  <2> QED
    BY <2>1, <2>2
<1>5. OutOfStep \/ \E i, p \in Nat : InStep(ends, i, p)
  BY <1>1 DEF IntactInv, Reading
<1>6. /\ DeliveredIntact'
      /\ readPc' \in Reading => OutOfStep' \/ \E i, p \in Nat : InStep(ends, i, p)'
  <2>1. \A p \in Nat : p + 1 \in Nat
    OBVIOUS
  <2> QED
    BY <1>3, <1>4, <1>5, <2>1
<1> QED
  BY <1>1, <1>2, <1>6 DEF IntactInv

\* Every stream is laid out, and nothing is read of it yet.
LEMMA InitIntact == Init => \E ends : IntactInv(ends)
<1> SUFFICES ASSUME Init  PROVE \E ends : IntactInv(ends)
  OBVIOUS
<1>1. script \in Seq(Frames)
  BY ScriptsAssumption DEF Init
<1>2. \E ends : Laid(ends, script, torn, stream)
  <2>1. CASE torn = 0 /\ stream = Wire(script, 0, 0)
    <3>1. 0 \in 0..Len(script) /\ 0 \in Nat
      BY <1>1
    <3> QED
      BY <1>1, <2>1, <3>1, WireLaid
  <2>2. ASSUME NEW n \in 1..script[torn].len, stream = Wire(script, torn, n),
               torn \in DOMAIN script
        PROVE  \E ends : Laid(ends, script, torn, stream)
    <3>1. torn \in 1..Len(script)
      BY <1>1, <2>2
    <3>2. n \in Nat
      BY <1>1, <3>1, FrameLength
    <3> QED
      BY <1>1, <2>2, <3>1, <3>2, WireLaid
  <2> QED
    BY <2>1, <2>2 DEF Init
<1>3. PICK ends : Laid(ends, script, torn, stream)
  BY <1>2
<1>4. IntactInv(ends)
  BY <1>3 DEF IntactInv, Init, DeliveredIntact, Reading
<1> QED
  BY <1>4

\* Every step keeps the reader where its frames say.
LEMMA StepIntact ==
  ReaderInv /\ (\E ends : IntactInv(ends)) /\ [Next]_vars => (\E ends : IntactInv(ends))'
<1> SUFFICES ASSUME ReaderInv, NEW ends, IntactInv(ends), [Next]_vars
             PROVE  IntactInv(ends)'
  OBVIOUS
<1> QED
  BY DialIntact, RegisterIntact, BeginIntact, WaitingIntact, HeadIntact, BodyIntact
  DEF Next, ReadStep

\* Whatever the frames, wherever the answer and they are cut into chunks, and
\* whichever of them is torn: _read_message gives _link_message the peer's messages
\* in order, whole and unmixed, up to the torn frame.
THEOREM MessagesIntact == Spec => []DeliveredIntact
<1>1. (\E ends : IntactInv(ends)) => DeliveredIntact
  BY DEF IntactInv
<1> QED
  BY <1>1, InitIntact, StepIntact, ReaderInvariant, PTL DEF Spec

=============================================================================
