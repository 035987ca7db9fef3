------------------------ MODULE EndpointPump_proofs ------------------------
(***************************************************************************)
(* For every set of services, requests, links, frames and threads: what a  *)
(* pass of the pump loses, requests and frames, is explained, and as long  *)
(* as one thread calls the replies, the node is given at most one response *)
(* for a request.                                                          *)
(***************************************************************************)
EXTENDS EndpointPump, TLAPS

\* One thread calls the replies.
OneReplier == \A k, m \in Repliers : k = m

\* A response the node took is marked, or its thread is about to mark it; and a
\* thread past the test replies to a request that has none.
ReplyInv ==
  /\ \A q \in Requests :
       /\ sends[q] <= 1
       /\ sends[q] = 1 =>
            q \in sentFlag \/ \E k \in Repliers : replyPc[k] = "sent" /\ replyTo[k] = q
  /\ \A k \in Repliers : replyPc[k] = "checked" => sends[replyTo[k]] = 0

-----------------------------------------------------------------------------
(* The invariant of the pump.                                              *)

\* A request that found its handler finds it again later: on() only adds.  What a
\* pass has taken and not given to a handler was taken together, with the request
\* whose handler it is calling.
RequestInv ==
  /\ \A q \in served : ServiceOf[q] \in handlers
  /\ \A q \in Requests :
       /\ request[q] = "taken" => pumpPc \in {"dispatch", "handling"}
       /\ request[q] = "handling" => pumpPc = "handling"
  /\ \A p, q \in Requests :
       /\ request[p] = "handling" /\ request[q] = "handling" => p = q
       /\ request[q] = "taken" /\ request[p] \in {"taken", "handling"}
            => p \in takenWith[q]
  /\ LossExplained

\* A frame on its way has its link, unless it was cut off; and what a pass still has
\* to send was drained together, with the frame it is sending.
FrameInv ==
  /\ \A f \in Frames :
       /\ frame[f] \in {"queued", "drained"} => LinkOf[f] \in links \/ f \in cut
       /\ frame[f] = "drained" => pumpPc \in {"frames", "sending"}
       /\ frame[f] = "sending" => pumpPc = "sending"
  /\ \A f, g \in Frames :
       /\ frame[f] = "sending" /\ frame[g] = "sending" => f = g
       /\ frame[f] = "drained" /\ frame[g] \in {"drained", "sending"}
            => g \in drainedWith[f]
  /\ FrameLossExplained

IInv == TypeOK /\ RequestInv /\ FrameInv

\* Moving the elements of one state to another changes no other element.
LEMMA MovedElements ==
  ASSUME NEW S, NEW T, NEW s \in [S -> T], NEW from, NEW to \in T
  PROVE  /\ Moved(s, from, to) \in [S -> T]
         /\ \A x \in S : Moved(s, from, to)[x] = IF s[x] = from THEN to ELSE s[x]
  BY DEF Moved

\* Those that are brought together have each other as companions.
LEMMA TogetherElements ==
  ASSUME NEW S, NEW T, NEW s \in [S -> T], NEW from, NEW c \in [S -> SUBSET S]
  PROVE  /\ Together(c, In(s, from)) \in [S -> SUBSET S]
         /\ \A x \in S : s[x] # from => Together(c, In(s, from))[x] = c[x]
         /\ \A x, y \in S :
              s[x] = from /\ s[y] = from => y \in Together(c, In(s, from))[x]
  BY DEF Together, In

\* The endpoint that was just opened has taken and lost nothing.
LEMMA InitInv == Init => IInv
<1> SUFFICES ASSUME Init PROVE IInv
  OBVIOUS
<1>1. TypeOK
  BY DEF Init, TypeOK, FrameStates, RequestStates
<1>2. RequestInv /\ FrameInv
  BY DEF Init, RequestInv, FrameInv, LossExplained, FrameLossExplained
<1> QED
  BY <1>1, <1>2 DEF IInv

-----------------------------------------------------------------------------
(* Types.                                                                  *)

\* The steps with frames.
LEMMA FrameTypes ==
  ASSUME TypeOK,
         \/ PumpDrain
         \/ \E f \in Frames : \/ NodeEmits(f) \/ PumpDropFrame(f) \/ PumpSend(f)
                              \/ SendReturns(f) \/ SendRaises(f)
  PROVE  TypeOK'
<1> USE DEF TypeOK, serviceVars, requestVars, replyVars, SendOnly
<1>1. CASE PumpDrain
  <2>1. Moved(frame, "queued", "drained") \in [Frames -> FrameStates]
    BY MovedElements DEF FrameStates
  <2>2. Together(drainedWith, In(frame, "queued")) \in [Frames -> SUBSET Frames]
    BY TogetherElements
  <2> QED
    BY <1>1, <2>1, <2>2 DEF PumpDrain
<1>2. ASSUME NEW f \in Frames, SendRaises(f)  PROVE TypeOK'
  <2>1. [frame EXCEPT ![f] = "raised"] \in [Frames -> FrameStates]
    BY DEF FrameStates
  <2>2. Moved([frame EXCEPT ![f] = "raised"], "drained", "lost")
          \in [Frames -> FrameStates]
    BY <2>1, MovedElements DEF FrameStates
  <2> QED
    BY <1>2, <2>2 DEF SendRaises
<1>3. ASSUME NEW f \in Frames,
             NodeEmits(f) \/ PumpDropFrame(f) \/ PumpSend(f) \/ SendReturns(f)
      PROVE  TypeOK'
  <2>1. \E to \in FrameStates : frame' = [frame EXCEPT ![f] = to]
    BY <1>3 DEF NodeEmits, PumpDropFrame, PumpSend, SendReturns, FrameStates
  <2>2. frame' \in [Frames -> FrameStates]
    BY <2>1
  <2> QED
    BY <1>3, <2>2 DEF NodeEmits, PumpDropFrame, PumpSend, SendReturns
<1> QED
  BY <1>1, <1>2, <1>3

\* The steps with requests.
LEMMA RequestTypes ==
  ASSUME TypeOK,
         \/ PumpTake
         \/ \E q \in Requests : \/ RequestArrives(q) \/ PumpSkip(q) \/ PumpCallHandler(q)
                                \/ HandlerReturns(q) \/ HandlerRaises(q) \/ HandlerExits(q)
  PROVE  TypeOK'
<1> USE DEF TypeOK, serviceVars, frameVars, replyVars
<1>1. CASE PumpTake
  <2>1. Moved(request, "queued", "taken") \in [Requests -> RequestStates]
    BY MovedElements DEF RequestStates
  <2>2. Together(takenWith, In(request, "queued")) \in [Requests -> SUBSET Requests]
    BY TogetherElements
  <2> QED
    BY <1>1, <2>1, <2>2 DEF PumpTake
<1>2. ASSUME NEW q \in Requests, HandlerRaises(q) \/ HandlerExits(q)  PROVE TypeOK'
  <2>1. PICK to \in {"raised", "quit"} :
           request' = Moved([request EXCEPT ![q] = to], "taken", "lost")
    BY <1>2 DEF HandlerRaises, HandlerExits
  <2>2. [request EXCEPT ![q] = to] \in [Requests -> RequestStates]
    BY <2>1 DEF RequestStates
  <2>3. request' \in [Requests -> RequestStates]
    BY <2>1, <2>2, MovedElements DEF RequestStates
  <2> QED
    BY <1>2, <2>3 DEF HandlerRaises, HandlerExits
<1>3. ASSUME NEW q \in Requests,
             RequestArrives(q) \/ PumpSkip(q) \/ PumpCallHandler(q) \/ HandlerReturns(q)
      PROVE  TypeOK'
  <2>1. \E to \in RequestStates : request' = [request EXCEPT ![q] = to]
    BY <1>3 DEF RequestArrives, PumpSkip, PumpCallHandler, HandlerReturns, RequestStates
  <2>2. request' \in [Requests -> RequestStates]
    BY <2>1
  <2> QED
    BY <1>3, <2>2 DEF RequestArrives, PumpSkip, PumpCallHandler, HandlerReturns
<1> QED
  BY <1>1, <1>2, <1>3

\* The steps that touch neither.
LEMMA OtherTypes ==
  ASSUME TypeOK,
         \/ PumpExit \/ PumpSendDone \/ PumpTakeRefused \/ PumpDispatched \/ PumpPassDone
         \/ \E s \in Services : Subscribe(s) \/ SetHandler(s)
         \/ \E l \in Links : RegisterLink(l) \/ LinkDown(l)
         \/ \E k \in Repliers :
              \/ \E q \in Requests : ReplyCheck(k, q)
              \/ ReplySend(k) \/ ReplyRaises(k) \/ ReplyMark(k)
         \/ Close \/ Finished
  PROVE  TypeOK'
<1> USE NoRequestAssumption
        DEF TypeOK, serviceVars, frameVars, requestVars, replyVars
<1>1. CASE PumpExit \/ PumpSendDone \/ PumpTakeRefused \/ PumpDispatched \/ PumpPassDone
  BY <1>1 DEF PumpExit, PumpSendDone, PumpTakeRefused, PumpDispatched, PumpPassDone
<1>2. ASSUME NEW s \in Services, Subscribe(s) \/ SetHandler(s)  PROVE TypeOK'
  BY <1>2 DEF Subscribe, SetHandler
<1>3. ASSUME NEW l \in Links, RegisterLink(l) \/ LinkDown(l)  PROVE TypeOK'
  BY <1>3 DEF RegisterLink, LinkDown, Waiting
<1>4. ASSUME NEW k \in Repliers, NEW q \in Requests, ReplyCheck(k, q)  PROVE TypeOK'
  BY <1>4 DEF ReplyCheck
<1>5. ASSUME NEW k \in Repliers, ReplySend(k)  PROVE TypeOK'
  BY <1>5 DEF ReplySend
<1>6. ASSUME NEW k \in Repliers, ReplyRaises(k) \/ ReplyMark(k)  PROVE TypeOK'
  BY <1>6 DEF ReplyRaises, ReplyMark
<1>7. CASE Close \/ Finished
  BY <1>7 DEF Close, Finished, vars
<1> QED
  BY <1>1, <1>2, <1>3, <1>4, <1>5, <1>6, <1>7

\* Every step keeps the types.
LEMMA StepTypes == TypeOK /\ [Next]_vars => TypeOK'
<1> SUFFICES ASSUME TypeOK, [Next]_vars PROVE TypeOK'
  OBVIOUS
<1>1. CASE UNCHANGED vars
  BY <1>1 DEF vars, TypeOK
<1> QED
  BY <1>1, FrameTypes, RequestTypes, OtherTypes DEF Next, PumpStep

-----------------------------------------------------------------------------
(* The requests of a pass.                                                 *)

\* Steps that touch no request, and leave a pass only with all it took handled.
LEMMA RequestsKeep ==
  ASSUME RequestInv, UNCHANGED requestVars, handlers \subseteq handlers',
         \/ pumpPc' = pumpPc
         \/ pumpPc \notin {"dispatch", "handling"}
         \/ pumpPc = "dispatch" /\ \A q \in Requests : request[q] # "taken"
  PROVE  RequestInv'
  BY DEF RequestInv, LossExplained, RequestExcused, requestVars

\* A request comes.
LEMMA ArrivesInv ==
  ASSUME TypeOK, RequestInv, NEW q \in Requests, RequestArrives(q)
  PROVE  RequestInv'
<1> USE DEF RequestArrives, serviceVars
<1>1. /\ request[q] = "new" /\ request'[q] = "queued"
      /\ \A p \in Requests \ {q} : request'[p] = request[p]
  BY DEF TypeOK
<1>2. LossExplained'
  <2> SUFFICES ASSUME NEW p \in Requests, request'[p] \in {"unhandled", "lost"}
               PROVE  RequestExcused(p)'
    BY DEF LossExplained
  <2>1. p # q /\ RequestExcused(p)
    BY <1>1 DEF RequestInv, LossExplained
  <2> QED
    BY <1>1, <2>1 DEF RequestExcused, TypeOK
<1> QED
  BY <1>1, <1>2 DEF RequestInv

\* A batch is taken.
LEMMA TakeInv ==
  ASSUME TypeOK, RequestInv, PumpTake
  PROVE  RequestInv'
<1> USE DEF PumpTake, serviceVars
<1>1. \A p \in Requests :
         request'[p] = IF request[p] = "queued" THEN "taken" ELSE request[p]
  BY DEF Moved, TypeOK
<1>2. /\ \A p \in Requests : request[p] # "queued" => takenWith'[p] = takenWith[p]
      /\ \A p, q \in Requests :
           request[p] = "queued" /\ request[q] = "queued" => q \in takenWith'[p]
  BY DEF Together, In, TypeOK
<1>3. \A p \in Requests : request[p] \notin {"taken", "handling"}
  BY DEF RequestInv
<1>4. LossExplained'
  <2> SUFFICES ASSUME NEW p \in Requests, request'[p] \in {"unhandled", "lost"}
               PROVE  RequestExcused(p)'
    BY DEF LossExplained
  <2>1. request[p] = request'[p] /\ RequestExcused(p) /\ takenWith'[p] = takenWith[p]
    BY <1>1, <1>2 DEF RequestInv, LossExplained
  <2>2. takenWith[p] \subseteq Requests
    BY DEF TypeOK
  <2> QED
    BY <1>1, <2>1, <2>2 DEF RequestExcused
<1>5. \A p, q \in Requests :
         request'[q] = "taken" /\ request'[p] \in {"taken", "handling"}
           => p \in takenWith'[q]
  BY <1>1, <1>2, <1>3
<1> QED
  BY <1>1, <1>3, <1>4, <1>5 DEF RequestInv

\* The pass goes on with a request of its batch.
LEMMA DispatchInv ==
  ASSUME TypeOK, RequestInv, NEW q \in Requests,
         PumpSkip(q) \/ PumpCallHandler(q) \/ HandlerReturns(q)
  PROVE  RequestInv'
<1> USE DEF PumpSkip, PumpCallHandler, HandlerReturns, serviceVars
<1>1. PICK to \in {"unhandled", "handling", "handled"} :
         /\ request' = [request EXCEPT ![q] = to]
         /\ to = "unhandled" => q \notin served
         /\ to = "handling" <=> pumpPc' = "handling"
         /\ to \in {"unhandled", "handling"} => pumpPc = "dispatch" /\ request[q] = "taken"
         /\ to = "handled" => request[q] = "handling"
         /\ pumpPc' \in {"dispatch", "handling"}
  BY DEF RequestInv
<1>2. /\ request'[q] = to
      /\ \A p \in Requests \ {q} : request'[p] = request[p]
      /\ request[q] \notin {"raised", "quit"}
  BY <1>1 DEF TypeOK
<1>3. UNCHANGED <<served, takenWith, handlers>>
  OBVIOUS
<1> HIDE DEF PumpSkip, PumpCallHandler, HandlerReturns
<1>4. LossExplained'
  <2> SUFFICES ASSUME NEW p \in Requests, request'[p] \in {"unhandled", "lost"}
               PROVE  RequestExcused(p)'
    BY DEF LossExplained
  <2>1. CASE p = q
    BY <1>1, <1>2, <1>3, <2>1 DEF RequestExcused
  <2>2. CASE p # q
    <3>1. RequestExcused(p) /\ takenWith[p] \subseteq Requests
      BY <1>2, <2>2 DEF RequestInv, LossExplained, TypeOK
    <3> QED
      BY <1>2, <1>3, <2>2, <3>1 DEF RequestExcused
  <2> QED
    BY <2>1, <2>2
<1>5. /\ \A p \in Requests :
           /\ request'[p] = "taken" => request[p] = "taken"
           /\ request'[p] \in {"taken", "handling"} => request[p] \in {"taken", "handling"}
      /\ \A p \in Requests : request'[p] = "handling" => p = q /\ pumpPc' = "handling"
  <2>1. \A p \in Requests \ {q} : request[p] # "handling"
    BY <1>1 DEF RequestInv
  <2> QED
    BY <1>1, <1>2, <2>1
<1> QED
  BY <1>1, <1>3, <1>4, <1>5 DEF RequestInv

\* A handler raises: what it was taken with and waits behind it is lost.
LEMMA RaisesInv ==
  ASSUME TypeOK, RequestInv, NEW q \in Requests, HandlerRaises(q) \/ HandlerExits(q)
  PROVE  RequestInv'
<1>1. PICK to \in {"raised", "quit"} :
         request' = Moved([request EXCEPT ![q] = to], "taken", "lost")
  BY DEF HandlerRaises, HandlerExits
<1>2. /\ request[q] = "handling"
      /\ UNCHANGED <<served, takenWith, handlers>>
  BY DEF HandlerRaises, HandlerExits, serviceVars
<1>3. /\ request'[q] = to
      /\ \A p \in Requests \ {q} :
           request'[p] = IF request[p] = "taken" THEN "lost" ELSE request[p]
  <2> DEFINE r == [request EXCEPT ![q] = to]
  <2>1. /\ r \in [Requests -> RequestStates] /\ r[q] = to
        /\ \A p \in Requests \ {q} : r[p] = request[p]
    BY DEF TypeOK, RequestStates
  <2>2. \A p \in Requests : request'[p] = IF r[p] = "taken" THEN "lost" ELSE r[p]
    <3> HIDE DEF r
    <3>1. request' = Moved(r, "taken", "lost")
      BY <1>1 DEF r
    <3> QED
      BY <2>1, <3>1 DEF Moved
  <2> QED
    BY <2>1, <2>2
<1>4. LossExplained'
  <2> SUFFICES ASSUME NEW p \in Requests, request'[p] \in {"unhandled", "lost"}
               PROVE  RequestExcused(p)'
    BY DEF LossExplained
  <2>1. CASE request[p] = "taken"
    <3>1. request'[p] = "lost" /\ q \in takenWith'[p]
      BY <1>2, <1>3, <2>1 DEF RequestInv
    <3> QED
      BY <1>3, <3>1 DEF RequestExcused
  <2>2. CASE request[p] # "taken"
    <3>1. p # q /\ request'[p] = request[p] /\ RequestExcused(p)
      BY <1>3, <2>2 DEF RequestInv, LossExplained
    <3>2. \A m \in takenWith[p] :
             request[m] \in {"raised", "quit"} => request'[m] = request[m]
      BY <1>2, <1>3 DEF TypeOK
    <3> QED
      BY <1>2, <3>1, <3>2 DEF RequestExcused
  <2> QED
    BY <2>1, <2>2
<1>5. \A p \in Requests : request'[p] \notin {"taken", "handling"}
  BY <1>2, <1>3 DEF RequestInv
<1> QED
  BY <1>2, <1>4, <1>5 DEF RequestInv

\* Every step keeps the part of the requests.
LEMMA StepRequests == IInv /\ [Next]_vars => RequestInv'
<1> SUFFICES ASSUME IInv, [Next]_vars PROVE RequestInv'
  OBVIOUS
<1> USE DEF IInv
<1>1. CASE UNCHANGED vars \/ Finished
  BY <1>1, RequestsKeep DEF Finished, vars, requestVars
<1>2. CASE PumpStep
  <2>1. CASE \/ PumpExit \/ PumpDrain \/ PumpSendDone \/ PumpTakeRefused
             \/ PumpDispatched \/ PumpPassDone
    BY <2>1, RequestsKeep
       DEF PumpExit, PumpDrain, PumpSendDone, PumpTakeRefused, PumpDispatched,
           PumpPassDone, serviceVars
  <2>2. ASSUME NEW f \in Frames, PumpDropFrame(f) \/ PumpSend(f)  PROVE RequestInv'
    BY <2>2, RequestsKeep DEF PumpDropFrame, PumpSend, SendOnly, serviceVars
  <2> QED
    BY <1>2, <2>1, <2>2, TakeInv, DispatchInv DEF PumpStep
<1>3. ASSUME NEW f \in Frames, NodeEmits(f) \/ SendReturns(f) \/ SendRaises(f)
      PROVE  RequestInv'
  <2>1. CASE NodeEmits(f)
    BY <2>1, RequestsKeep DEF NodeEmits, serviceVars
  <2>2. CASE SendReturns(f) \/ SendRaises(f)
    <3>1. pumpPc = "sending" /\ UNCHANGED requestVars /\ handlers' = handlers
      BY <2>2 DEF SendReturns, SendRaises, SendOnly, serviceVars, FrameInv
    <3> QED
      BY <3>1, RequestsKeep
  <2> QED
    BY <1>3, <2>1, <2>2
<1>4. ASSUME NEW q \in Requests,
             \/ RequestArrives(q) \/ HandlerReturns(q) \/ HandlerRaises(q)
             \/ HandlerExits(q)
      PROVE  RequestInv'
  BY <1>4, ArrivesInv, DispatchInv, RaisesInv
<1>5. ASSUME NEW s \in Services, Subscribe(s) \/ SetHandler(s)  PROVE RequestInv'
  BY <1>5, RequestsKeep DEF Subscribe, SetHandler
<1>6. ASSUME NEW l \in Links, RegisterLink(l) \/ LinkDown(l)  PROVE RequestInv'
  BY <1>6, RequestsKeep DEF RegisterLink, LinkDown, serviceVars
<1>7. ASSUME NEW k \in Repliers,
             \/ \E q \in Requests : ReplyCheck(k, q)
             \/ ReplySend(k) \/ ReplyRaises(k) \/ ReplyMark(k)
      PROVE  RequestInv'
  BY <1>7, RequestsKeep
     DEF ReplyCheck, ReplySend, ReplyRaises, ReplyMark, serviceVars
<1>8. CASE Close
  BY <1>8, RequestsKeep DEF Close, serviceVars
<1> QED
  BY <1>1, <1>2, <1>3, <1>4, <1>5, <1>6, <1>7, <1>8 DEF Next

-----------------------------------------------------------------------------
(* The frames of a pass.                                                   *)

\* Steps that touch no frame and no link, and leave the frames of a pass only with
\* all it drained sent.
LEMMA FramesKeep ==
  ASSUME FrameInv, UNCHANGED frameVars,
         \/ pumpPc' = pumpPc
         \/ pumpPc \notin {"frames", "sending"}
         \/ pumpPc = "frames" /\ \A f \in Frames : frame[f] # "drained"
  PROVE  FrameInv'
  BY DEF FrameInv, FrameLossExplained, FrameExcused, frameVars

\* A link goes or is replaced: the frames on their way to it are cut off.
LEMMA LinksInv ==
  ASSUME TypeOK, FrameInv, NEW l \in Links, RegisterLink(l) \/ LinkDown(l)
  PROVE  FrameInv'
<1> USE DEF RegisterLink, LinkDown
<1>1. /\ cut \subseteq cut'
      /\ UNCHANGED <<frame, drainedWith, pumpPc>>
      /\ \A m \in Links \ {l} : m \in links => m \in links'
      /\ \A f \in Frames : frame[f] \in {"queued", "drained"} /\ LinkOf[f] = l => f \in cut'
  BY DEF Waiting
<1>2. FrameLossExplained'
  BY <1>1 DEF FrameInv, FrameLossExplained, FrameExcused
<1>3. \A f \in Frames :
         frame[f] \in {"queued", "drained"} => LinkOf[f] \in links' \/ f \in cut'
  BY <1>1, LinkOfAssumption DEF FrameInv
<1> QED
  BY <1>1, <1>2, <1>3 DEF FrameInv

\* The node emits a frame for a link that is up.
LEMMA EmitsInv ==
  ASSUME TypeOK, FrameInv, NEW f \in Frames, NodeEmits(f)
  PROVE  FrameInv'
<1>1. /\ frame[f] = "new" /\ frame'[f] = "queued" /\ LinkOf[f] \in links
      /\ \A g \in Frames \ {f} : frame'[g] = frame[g]
      /\ UNCHANGED <<links, cut, drainedWith, pumpPc>>
  BY DEF NodeEmits, TypeOK
<1>2. FrameLossExplained'
  <2> SUFFICES ASSUME NEW g \in Frames, frame'[g] \in {"dropped", "lost"}
               PROVE  FrameExcused(g)'
    BY DEF FrameLossExplained
  <2>1. FrameExcused(g) /\ g # f /\ drainedWith[g] \subseteq Frames
    BY <1>1 DEF FrameInv, FrameLossExplained, TypeOK
  <2> QED
    BY <1>1, <2>1 DEF FrameExcused
<1> QED
  BY <1>1, <1>2 DEF FrameInv

\* A pass drains the node.
LEMMA DrainInv ==
  ASSUME TypeOK, FrameInv, PumpDrain
  PROVE  FrameInv'
<1> USE DEF PumpDrain
<1>1. \A f \in Frames :
         frame'[f] = IF frame[f] = "queued" THEN "drained" ELSE frame[f]
  BY DEF Moved, TypeOK
<1>2. /\ \A f \in Frames : frame[f] # "queued" => drainedWith'[f] = drainedWith[f]
      /\ \A f, g \in Frames :
           frame[f] = "queued" /\ frame[g] = "queued" => g \in drainedWith'[f]
  BY DEF Together, In, TypeOK
<1>3. \A f \in Frames : frame[f] \notin {"drained", "sending"}
  BY DEF FrameInv
<1>4. FrameLossExplained'
  <2> SUFFICES ASSUME NEW f \in Frames, frame'[f] \in {"dropped", "lost"}
               PROVE  FrameExcused(f)'
    BY DEF FrameLossExplained
  <2>1. /\ frame[f] = frame'[f] /\ FrameExcused(f) /\ drainedWith'[f] = drainedWith[f]
        /\ drainedWith[f] \subseteq Frames
    BY <1>1, <1>2 DEF FrameInv, FrameLossExplained, TypeOK
  <2> QED
    BY <1>1, <2>1 DEF FrameExcused
<1>5. \A f, g \in Frames :
         frame'[f] = "drained" /\ frame'[g] \in {"drained", "sending"}
           => g \in drainedWith'[f]
  BY <1>1, <1>2, <1>3
<1> QED
  BY <1>1, <1>3, <1>4, <1>5 DEF FrameInv

\* The pass goes on with a frame it drained.
LEMMA SendInv ==
  ASSUME TypeOK, FrameInv, NEW f \in Frames,
         PumpDropFrame(f) \/ PumpSend(f) \/ SendReturns(f)
  PROVE  FrameInv'
<1> USE DEF PumpDropFrame, PumpSend, SendReturns, SendOnly
<1>1. PICK to \in {"dropped", "sending", "sent"} :
         /\ frame' = [frame EXCEPT ![f] = to]
         /\ to = "dropped" => f \in cut
         /\ to = "sending" <=> pumpPc' = "sending"
         /\ to \in {"dropped", "sending"} => pumpPc = "frames" /\ frame[f] = "drained"
         /\ to = "sent" => frame[f] = "sending"
         /\ pumpPc' \in {"frames", "sending"}
  BY DEF FrameInv
<1>2. /\ frame'[f] = to
      /\ \A g \in Frames \ {f} : frame'[g] = frame[g]
      /\ frame[f] # "raised"
  BY <1>1 DEF TypeOK
<1>3. UNCHANGED <<links, cut, drainedWith>>
  OBVIOUS
<1> HIDE DEF PumpDropFrame, PumpSend, SendReturns
<1>4. FrameLossExplained'
  <2> SUFFICES ASSUME NEW g \in Frames, frame'[g] \in {"dropped", "lost"}
               PROVE  FrameExcused(g)'
    BY DEF FrameLossExplained
  <2>1. CASE g = f
    BY <1>1, <1>2, <1>3, <2>1 DEF FrameExcused
  <2>2. CASE g # f
    <3>1. FrameExcused(g) /\ drainedWith[g] \subseteq Frames
      BY <1>2, <2>2 DEF FrameInv, FrameLossExplained, TypeOK
    <3> QED
      BY <1>2, <1>3, <2>2, <3>1 DEF FrameExcused
  <2> QED
    BY <2>1, <2>2
<1>5. /\ \A g \in Frames :
           /\ frame'[g] = "drained" => frame[g] = "drained"
           /\ frame'[g] = "queued" => frame[g] = "queued"
           /\ frame'[g] \in {"drained", "sending"} => frame[g] \in {"drained", "sending"}
      /\ \A g \in Frames : frame'[g] = "sending" => g = f /\ pumpPc' = "sending"
  <2>1. \A g \in Frames \ {f} : frame[g] # "sending"
    BY <1>1 DEF FrameInv
  <2> QED
    BY <1>1, <1>2, <2>1
<1> QED
  BY <1>1, <1>3, <1>4, <1>5 DEF FrameInv

\* A send raises: what was drained with its frame and waits behind it is lost.
LEMMA SendRaisesInv ==
  ASSUME TypeOK, FrameInv, NEW f \in Frames, SendRaises(f)
  PROVE  FrameInv'
<1>1. /\ frame[f] = "sending"
      /\ UNCHANGED <<links, cut, drainedWith>>
  BY DEF SendRaises, SendOnly
<1>2. /\ frame'[f] = "raised"
      /\ \A g \in Frames \ {f} :
           frame'[g] = IF frame[g] = "drained" THEN "lost" ELSE frame[g]
  <2> DEFINE r == [frame EXCEPT ![f] = "raised"]
  <2>1. /\ r \in [Frames -> FrameStates] /\ r[f] = "raised"
        /\ \A g \in Frames \ {f} : r[g] = frame[g]
    BY DEF TypeOK, FrameStates
  <2>2. \A g \in Frames : frame'[g] = IF r[g] = "drained" THEN "lost" ELSE r[g]
    <3> HIDE DEF r
    <3>1. frame' = Moved(r, "drained", "lost")
      BY DEF SendRaises, r
    <3> QED
      BY <2>1, <3>1 DEF Moved
  <2> QED
    BY <2>1, <2>2
<1>3. FrameLossExplained'
  <2> SUFFICES ASSUME NEW g \in Frames, frame'[g] \in {"dropped", "lost"}
               PROVE  FrameExcused(g)'
    BY DEF FrameLossExplained
  <2>1. CASE frame[g] = "drained"
    <3>1. frame'[g] = "lost" /\ f \in drainedWith'[g]
      BY <1>1, <1>2, <2>1 DEF FrameInv
    <3> QED
      BY <1>2, <3>1 DEF FrameExcused
  <2>2. CASE frame[g] # "drained"
    <3>1. g # f /\ frame'[g] = frame[g] /\ FrameExcused(g)
      BY <1>2, <2>2 DEF FrameInv, FrameLossExplained
    <3>2. \A m \in drainedWith[g] : frame[m] = "raised" => frame'[m] = "raised"
      BY <1>1, <1>2 DEF TypeOK
    <3> QED
      BY <1>1, <3>1, <3>2 DEF FrameExcused
  <2> QED
    BY <2>1, <2>2
<1>4. \A g \in Frames :
         /\ frame'[g] \notin {"drained", "sending"}
         /\ frame'[g] = "queued" => frame[g] = "queued"
  BY <1>1, <1>2 DEF FrameInv
<1> QED
  BY <1>1, <1>3, <1>4 DEF FrameInv

\* Every step keeps the part of the frames.
LEMMA StepFrames == IInv /\ [Next]_vars => FrameInv'
<1> SUFFICES ASSUME IInv, [Next]_vars PROVE FrameInv'
  OBVIOUS
<1> USE DEF IInv
<1>1. CASE UNCHANGED vars \/ Finished
  BY <1>1, FramesKeep DEF Finished, vars, frameVars
<1>2. CASE PumpStep
  <2>1. CASE \/ PumpExit \/ PumpSendDone \/ PumpTake \/ PumpTakeRefused
             \/ PumpDispatched \/ PumpPassDone
    BY <2>1, FramesKeep
       DEF PumpExit, PumpSendDone, PumpTake, PumpTakeRefused, PumpDispatched,
           PumpPassDone
  <2>2. ASSUME NEW q \in Requests, PumpSkip(q) \/ PumpCallHandler(q)  PROVE FrameInv'
    BY <2>2, FramesKeep DEF PumpSkip, PumpCallHandler
  <2> QED
    BY <1>2, <2>1, <2>2, DrainInv, SendInv DEF PumpStep
<1>3. ASSUME NEW f \in Frames, NodeEmits(f) \/ SendReturns(f) \/ SendRaises(f)
      PROVE  FrameInv'
  BY <1>3, EmitsInv, SendInv, SendRaisesInv
<1>4. ASSUME NEW q \in Requests,
             \/ RequestArrives(q) \/ HandlerReturns(q) \/ HandlerRaises(q)
             \/ HandlerExits(q)
      PROVE  FrameInv'
  <2>1. CASE RequestArrives(q)
    BY <2>1, FramesKeep DEF RequestArrives
  <2>2. CASE HandlerReturns(q) \/ HandlerRaises(q) \/ HandlerExits(q)
    <3>1. pumpPc = "handling" /\ UNCHANGED frameVars
      BY <2>2 DEF HandlerReturns, HandlerRaises, HandlerExits, RequestInv
    <3> QED
      BY <3>1, FramesKeep
  <2> QED
    BY <1>4, <2>1, <2>2
<1>5. ASSUME NEW s \in Services, Subscribe(s) \/ SetHandler(s)  PROVE FrameInv'
  BY <1>5, FramesKeep DEF Subscribe, SetHandler
<1>6. ASSUME NEW l \in Links, RegisterLink(l) \/ LinkDown(l)  PROVE FrameInv'
  BY <1>6, LinksInv
<1>7. ASSUME NEW k \in Repliers,
             \/ \E q \in Requests : ReplyCheck(k, q)
             \/ ReplySend(k) \/ ReplyRaises(k) \/ ReplyMark(k)
      PROVE  FrameInv'
  BY <1>7, FramesKeep DEF ReplyCheck, ReplySend, ReplyRaises, ReplyMark
<1>8. CASE Close
  BY <1>8, FramesKeep DEF Close
<1> QED
  BY <1>1, <1>2, <1>3, <1>4, <1>5, <1>6, <1>7, <1>8 DEF Next

-----------------------------------------------------------------------------
(* What the invariant says of the pump.                                    *)

\* The invariant holds in every state of every behaviour.
THEOREM Invariant == Spec => []IInv
<1>1. IInv /\ [Next]_vars => IInv'
  BY StepTypes, StepRequests, StepFrames DEF IInv
<1> QED
  BY <1>1, InitInv, PTL DEF Spec

\* Every variable keeps its type.
THEOREM TypeCorrect == Spec => []TypeOK
<1>1. IInv => TypeOK
  BY DEF IInv
<1> QED
  BY <1>1, Invariant, PTL

\* A request is passed over only if it came before its handler, and lost only behind
\* a handler of its own batch that raised.
THEOREM LossesExplained == Spec => []LossExplained
<1>1. IInv => LossExplained
  BY DEF IInv, RequestInv
<1> QED
  BY <1>1, Invariant, PTL

\* A frame is dropped only if its link went down or was replaced, and lost only
\* behind a send of its own batch that raised.
THEOREM FrameLossesExplained == Spec => []FrameLossExplained
<1>1. IInv => FrameLossExplained
  BY DEF IInv, FrameInv
<1> QED
  BY <1>1, Invariant, PTL

-----------------------------------------------------------------------------
(* Replies.                                                                *)

\* Steps of others change nothing of a reply.
LEMMA OthersKeepReplies ==
  ASSUME Next, \A k \in Repliers :
                 ~(\/ \E q \in Requests : ReplyCheck(k, q)
                   \/ ReplySend(k) \/ ReplyRaises(k) \/ ReplyMark(k))
  PROVE  UNCHANGED replyVars
  BY DEF Next, PumpStep, PumpExit, PumpDrain, PumpDropFrame, PumpSend, PumpSendDone,
         PumpTake, PumpTakeRefused, PumpSkip, PumpCallHandler, PumpDispatched,
         PumpPassDone, NodeEmits, SendReturns, SendRaises, SendOnly, RequestArrives,
         HandlerReturns, HandlerRaises, HandlerExits, Subscribe, SetHandler,
         RegisterLink, LinkDown, Close, Finished, vars, replyVars

\* A step of one thread's reply, when it is the only one.
LEMMA ReplyStep ==
  ASSUME OneReplier, TypeOK, ReplyInv, NEW k \in Repliers,
         \/ \E q \in Requests : ReplyCheck(k, q)
         \/ ReplySend(k) \/ ReplyRaises(k) \/ ReplyMark(k)
  PROVE  ReplyInv'
<1>1. \A m \in Repliers : m = k
  BY DEF OneReplier
<1>2. ASSUME NEW q \in Requests, ReplyCheck(k, q)  PROVE ReplyInv'
  <2>1. sends[q] = 0
    BY <1>1, <1>2 DEF ReplyCheck, ReplyInv, TypeOK
  <2>2. replyPc'[k] = "checked" /\ replyTo'[k] = q /\ sends' = sends
        /\ sentFlag' = sentFlag
    BY <1>2 DEF ReplyCheck, TypeOK
  <2>3. \A p \in Requests : sends[p] = 1 => p \in sentFlag
    BY <1>1, <1>2 DEF ReplyCheck, ReplyInv
  <2> QED
    BY <1>1, <2>1, <2>2, <2>3 DEF ReplyInv
<1>3. CASE ReplySend(k)
  <2>1. replyPc[k] = "checked" /\ replyTo[k] \in Requests /\ sends[replyTo[k]] = 0
    BY <1>3, NoRequestAssumption DEF ReplySend, ReplyInv, TypeOK
  <2>2. PICK accepted \in {0, 1} : sends' = [sends EXCEPT ![replyTo[k]] = @ + accepted]
    BY <1>3 DEF ReplySend
  <2>3. /\ sends'[replyTo[k]] \in {0, 1}
        /\ \A p \in Requests \ {replyTo[k]} : sends'[p] = sends[p]
    BY <2>1, <2>2 DEF TypeOK
  <2>4. replyPc'[k] = "sent" /\ replyTo' = replyTo /\ sentFlag' = sentFlag
    BY <1>3 DEF ReplySend, TypeOK
  <2> QED
    BY <1>1, <2>1, <2>3, <2>4 DEF ReplyInv
<1>4. CASE ReplyRaises(k) \/ ReplyMark(k)
  <2>1. replyPc'[k] = "idle" /\ sends' = sends
    BY <1>4 DEF ReplyRaises, ReplyMark, TypeOK
  <2>2. \/ replyPc[k] = "checked" /\ sentFlag' = sentFlag
        \/ sentFlag' = sentFlag \cup {replyTo[k]}
    BY <1>4 DEF ReplyRaises, ReplyMark
  <2> QED
    BY <1>1, <2>1, <2>2 DEF ReplyInv
<1> QED
  BY <1>2, <1>3, <1>4

\* One thread that calls the replies sends at most one response for a request,
\* also when it tries again after one that raised.
THEOREM OneThreadRepliesOnce ==
  ASSUME OneReplier
  PROVE  Spec => []AtMostOneReply
<1>1. Init => ReplyInv
  BY DEF Init, ReplyInv
<1>2. TypeOK /\ ReplyInv /\ [Next]_vars => ReplyInv'
  <2> SUFFICES ASSUME TypeOK, ReplyInv, [Next]_vars PROVE ReplyInv'
    OBVIOUS
  <2>1. CASE UNCHANGED replyVars
    BY <2>1 DEF replyVars, ReplyInv
  <2>2. CASE ~UNCHANGED replyVars
    <3>1. Next
      BY <2>2 DEF vars, replyVars
    <3> QED
      BY <2>2, <3>1, OthersKeepReplies, ReplyStep
  <2> QED
    BY <2>1, <2>2
<1>3. ReplyInv => AtMostOneReply
  BY DEF ReplyInv, AtMostOneReply
<1> QED
  BY <1>1, <1>2, <1>3, TypeCorrect, PTL DEF Spec
=============================================================================
