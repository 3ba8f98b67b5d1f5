--------------------------- MODULE ArpLinkProofs ---------------------------
(***************************************************************************)
(* What the router does to the stations around it, for any number of       *)
(* packets, stations, retries and frames on their way: nobody is told      *)
(* "host unreachable" before the requests for the host have left and all   *)
(* but one of the exchanges have failed, and packets go to the owner of    *)
(* their next hop's address.                                               *)
(***************************************************************************)
EXTENDS ArpLink, ArpCacheDeliveryProofs

-----------------------------------------------------------------------------
(* How the threads move through handle_arpreq. *)

\* A step of a thread, and not only of the clock.
Runs ==
    (\E p \in Packet : Lookup(p)) \/ (\E r \in AnyReply : Insert(r)) \/ MainStep \/ TimeoutStep

(* A thread that is in handle_arpreq after a step was there, or starts on a       *)
(* request.                                                                       *)
LEMMA ThreadMoves ==
    ASSUME Inv, StepWith(AnyReply), NEW t \in Thread, pc'[t] \in HandlerPC
    PROVE  \/ /\ pc[t] = pc'[t] /\ cur'[t] = cur[t] /\ reg'[t] = reg[t]
              /\ stale'[t] = stale[t] \/ ~Runs
           \/ /\ CheckSent(t) /\ cur'[t] = cur[t] /\ pc'[t] = "tries"
              /\ heap[cur[t]].due /\ ~stale'[t]
           \/ /\ CheckTries(t) /\ cur'[t] = cur[t] /\ stale'[t] = stale[t]
              /\ \/ pc'[t] = "resend"
                 \/ pc'[t] = "giveup" /\ Exhausted(heap[cur[t]])
           \/ Resend(t) /\ pc'[t] = "count" /\ cur'[t] = cur[t]
           \/ pc'[t] = "check"
<1>1. CASE Tick /\ ~Runs
  BY <1>1 DEF Tick
<1>2. CASE \E u \in Thread : u # t /\ HandleArpreq(u)
  <2>1. PICK u \in Thread : u # t /\ HandleArpreq(u)
    BY <1>2
  <2> QED BY <2>1, HandlerMoves
<1>3. CASE HandleArpreq(t)
  <2>1. ~Return(t)
    BY DEF Return, Inv, TypeOK, HandlerPC
  <2>2. CASE CheckSent(t)
    BY <2>1, <2>2 DEF CheckSent, InHandler, Inv, TypeOK
  <2>3. CASE CheckTries(t)
    BY <2>3 DEF CheckTries, InHandler, Inv, TypeOK
  <2>4. CASE Resend(t)
    BY <2>4 DEF Resend, Inv, TypeOK
  <2>5. CASE SendUnreachable(t)
    BY <2>5 DEF SendUnreachable
  <2>6. CASE UseAfterFree(t)
    BY <2>1, <2>6 DEF UseAfterFree
  <2> QED BY <1>3, <2>1, <2>2, <2>3, <2>4, <2>5, <2>6 DEF HandleArpreq, CountSend, Destroy
<1>4. CASE (\E p \in Packet : Lookup(p)) \/ (\E r \in AnyReply : Insert(r))
           \/ ForwardHit \/ QueueReq \/ SendQueued
  <2>1. CASE t = "timeout"
    BY <1>4, <2>1 DEF Lookup, Insert, ForwardHit, QueueReq, SendQueued, handlerVars, Inv,
                      TypeOK, Thread
  <2>2. CASE t = "main"
    <3>1. CASE (\E p \in Packet : Lookup(p)) \/ ForwardHit
      BY <2>2, <3>1 DEF Lookup, ForwardHit, Inv, TypeOK, Thread, HandlerPC
    <3>2. CASE QueueReq
      BY <2>2, <3>2 DEF QueueReq, Inv, TypeOK, Thread
    <3>3. CASE SendQueued
      BY <2>2, <3>3 DEF SendQueued
    <3>4. CASE \E r \in AnyReply : Insert(r)
      BY <2>2, <3>4 DEF Insert, Inv, TypeOK, Thread, HandlerPC
    <3> QED BY <1>4, <3>1, <3>2, <3>3, <3>4
  <2> QED BY <2>1, <2>2 DEF Thread
<1>5. CASE StartSweep \/ SweepRequest \/ FollowNext \/ EndSweep
  <2>1. CASE t = "main"
    BY <1>5, <2>1 DEF StartSweep, SweepRequest, FollowNext, EndSweep, handlerVars, Inv,
                      TypeOK, Thread
  <2>2. CASE t = "timeout"
    BY <1>5, <2>2 DEF StartSweep, SweepRequest, FollowNext, EndSweep, handlerVars, Inv,
                      TypeOK, Thread, HandlerPC
  <2> QED BY <2>1, <2>2 DEF Thread
<1> QED BY <1>1, <1>2, <1>3, <1>4, <1>5 DEF StepWith, Runs, MainStep, TimeoutStep, Thread

(* A thread's step broadcasts a request only for the one that it works on. *)
LEMMA BroadcastIsResend ==
    ASSUME Inv, StepWith(AnyReply), NEW t \in Thread, NEW a, Broadcasts(t, a)
    PROVE  Resend(t) /\ cur[t] = a
<1>1. pc[t] = "resend" /\ pc'[t] = "count" /\ cur[t] = a
  BY DEF Broadcasts
<1>2. \/ pc'[t] = pc[t] \/ pc'[t] \in {"tries", "resend", "giveup", "check"} \/ Resend(t)
  BY <1>1, ThreadMoves DEF HandlerPC
<1> QED BY <1>1, <1>2

(* And when it sends one, that is the only one. *)
LEMMA ResendBroadcasts ==
    ASSUME Inv, NEW t \in Thread, Resend(t)
    PROVE  \A u \in Thread : \A a : Broadcasts(u, a) <=> (u = t /\ a = cur[t])
<1>1. pc[t] = "resend" /\ pc'[t] = "count" /\ \A u \in Thread : u # t => pc'[u] = pc[u]
  BY DEF Resend, InHandler, Inv, TypeOK
<1> QED BY <1>1 DEF Broadcasts

(* A request's times_sent changes by a thread's increment, and starts at 0. *)
LEMMA TimesSent ==
    ASSUME Inv, StepWith(AnyReply), NEW a \in ReqAddr, heap'[a] # Null
    PROVE  \/ heap[a] # Null /\ heap'[a].times_sent = heap[a].times_sent
           \/ heap[a] = Null /\ heap'[a].times_sent = 0
           \/ /\ heap[a] # Null
              /\ \E t \in Thread : /\ CountSend(t) /\ cur[t] = a
                                   /\ heap'[a].times_sent = reg[t] + 1
<1> USE NullFacts
<1>0. heap[a] # Null => heap[a] \in Request
  BY DEF Inv, TypeOK
<1>1. CASE heap'[a] = heap[a]
  BY <1>1
<1>2. CASE Tick
  <2>1. heap[a] # Null /\ heap'[a] = [heap[a] EXCEPT !.due = TRUE]
    BY <1>2 DEF Tick
  <2> QED BY <1>0, <2>1 DEF Request
<1>3. ASSUME NEW t \in Thread, HandleArpreq(t), heap'[a] # heap[a]
      PROVE  \/ heap[a] # Null /\ heap'[a].times_sent = heap[a].times_sent
             \/ /\ heap[a] # Null
                /\ \E u \in Thread : /\ CountSend(u) /\ cur[u] = a
                                     /\ heap'[a].times_sent = reg[u] + 1
  <2>1. heap' # heap
    BY <1>3
  <2>2. CASE Resend(t)
    <3>1. a = cur[t] /\ heap'[a] = [heap[a] EXCEPT !.due = stale[t]] /\ heap[a] # Null
      BY <1>3, <2>2 DEF Resend, InHandler, Inv, TypeOK
    <3> QED BY <1>0, <3>1 DEF Request
  <2>3. CASE CountSend(t)
    <3>1. a = cur[t] /\ heap'[a] = [heap[a] EXCEPT !.times_sent = reg[t] + 1]
          /\ heap[a] # Null
      BY <1>3, <2>3 DEF CountSend, InHandler, Inv, TypeOK
    <3>2. heap'[a].times_sent = reg[t] + 1
      BY <1>0, <3>1 DEF Request
    <3> QED BY <2>3, <3>1, <3>2
  <2>4. CASE Destroy(t)
    BY <1>3, <2>4, DestroyEffect
  <2> QED BY <1>3, <2>1, <2>2, <2>3, <2>4
          DEF HandleArpreq, CheckSent, CheckTries, SendUnreachable, UseAfterFree, cacheVars
<1>4. CASE QueueReq
  BY <1>4, QueueReqEffect
<1>5. CASE heap' = heap
  BY <1>5
<1>6. (\E p \in Packet : Lookup(p)) \/ (\E r \in AnyReply : Insert(r)) \/ ForwardHit
      \/ SendQueued \/ StartSweep \/ SweepRequest \/ FollowNext \/ EndSweep => heap' = heap
  BY DEF Lookup, Insert, ForwardHit, SendQueued, StartSweep, SweepRequest, FollowNext,
         EndSweep, cacheVars
<1> QED BY <1>1, <1>2, <1>3, <1>4, <1>5, <1>6 DEF StepWith, MainStep, TimeoutStep, Thread

(* No address is given out again while a thread is in handle_arpreq. *)
LEMMA NoneReused ==
    ASSUME Inv, StepWith(AnyReply), NEW t \in Thread, pc[t] \in HandlerPC,
           heap'[cur[t]] # Null
    PROVE  cur[t] \in ReqAddr /\ heap[cur[t]] # Null
<1>1. cur[t] \in ReqAddr
  BY DEF Inv, ArgsGiven
<1>2. ~QueueReq
  BY QueueReqEffect DEF HandlerPC, Thread
<1>3. CASE KeepsRequests
  BY <1>1, <1>3 DEF KeepsRequests
<1>4. CASE \E u \in Thread : Destroy(u)
  BY <1>1, <1>4, DestroyEffect
<1> QED BY <1>1, <1>2, <1>3, <1>4, RequestsKept

-----------------------------------------------------------------------------
(* Requests that left, and times_sent. *)

SendsType == sends \in [ReqAddr -> 0 .. MaxCount]

\* times_sent never runs ahead of what was sent, until enough was sent; no request,
\* nothing sent for it.
CountEarned ==
    \A a \in ReqAddr :
        /\ heap[a] = Null => sends[a] = 0
        /\ heap[a] # Null => heap[a].times_sent <= sends[a] \/ sends[a] >= MaxSends

\* Nor does the value that a thread is about to store.
RegEarned ==
    \A t \in Thread :
        pc[t] = "count" /\ heap[cur[t]] # Null =>
            reg[t] + 1 <= sends[cur[t]] \/ sends[cur[t]] >= MaxSends

EarnedInv == SendsType /\ CountEarned /\ RegEarned /\ UnreachableEarned

CountsSends == sends' = [a \in ReqAddr |-> Count(a)]

(* The history counts a request that a thread sends, and starts anew with it. *)
LEMMA SendsStep ==
    ASSUME Inv, SendsType, StepWith(AnyReply), CountsSends
    PROVE  /\ SendsType'
           /\ \A a \in ReqAddr :
                /\ sends[a] \in Nat /\ sends'[a] \in Nat
                /\ heap'[a] = Null => sends'[a] = 0
                /\ heap'[a] # Null => sends'[a] \in {sends[a], Bump(sends[a])}
                                      /\ sends'[a] >= sends[a]
                /\ heap'[a] # Null /\ sends'[a] # sends[a] =>
                     \E t \in Thread : Resend(t) /\ cur[t] = a
           /\ \A t \in Thread : Resend(t) /\ heap'[cur[t]] # Null =>
                sends'[cur[t]] = Bump(sends[cur[t]])
<1>1. MaxCount \in Nat
  BY MaxCountAssumption
<1>2. ASSUME NEW a \in ReqAddr
      PROVE  /\ sends[a] \in 0 .. MaxCount /\ Bump(sends[a]) \in 0 .. MaxCount
             /\ Bump(sends[a]) >= sends[a] /\ sends'[a] = Count(a)
  BY <1>1 DEF SendsType, Bump, CountsSends
<1>3. ASSUME NEW a \in ReqAddr
      PROVE  Count(a) \in {0, sends[a], Bump(sends[a])}
  BY DEF Count
<1>4. SendsType'
  <2>1. \A a \in ReqAddr : Count(a) \in 0 .. MaxCount
    BY <1>1, <1>2, <1>3
  <2> QED BY <2>1 DEF SendsType, CountsSends
<1>5. ASSUME NEW a \in ReqAddr, heap'[a] # Null
      PROVE  /\ sends'[a] \in {sends[a], Bump(sends[a])}
             /\ sends'[a] # sends[a] => \E t \in Thread : Resend(t) /\ cur[t] = a
  BY <1>2, <1>5, BroadcastIsResend DEF Count
<1>6. ASSUME NEW t \in Thread, Resend(t), heap'[cur[t]] # Null
      PROVE  sends'[cur[t]] = Bump(sends[cur[t]])
  <2>1. cur[t] \in ReqAddr /\ Broadcasts(t, cur[t])
    BY <1>6, ResendBroadcasts DEF Resend, InHandler, Inv, ArgsGiven, HandlerPC
  <2> QED BY <1>2, <1>6, <2>1 DEF Count
<1>7. ASSUME NEW a \in ReqAddr
      PROVE  /\ sends[a] \in Nat /\ sends'[a] \in Nat
             /\ heap'[a] = Null => sends'[a] = 0
             /\ heap'[a] # Null => sends'[a] >= sends[a]
  <2>1. sends[a] \in Nat /\ Bump(sends[a]) \in Nat
    BY <1>1, <1>2
  <2>2. heap'[a] = Null => sends'[a] = 0
    BY <1>2 DEF Count
  <2> QED BY <1>2, <1>5, <2>1, <2>2
<1> QED BY <1>4, <1>5, <1>6, <1>7

(* One more request leaves, or enough have. *)
LEMMA BumpEarns ==
    ASSUME NEW n \in 0 .. MaxCount, NEW k \in Nat, k <= n \/ n >= MaxSends
    PROVE  k + 1 <= Bump(n) \/ Bump(n) >= MaxSends
BY MaxCountAssumption, NumAssumption DEF Bump

(* The counter follows the requests that leave, whatever the threads interleave. *)
LEMMA EarnedStep ==
    ASSUME Inv, EarnedInv, StepWith(AnyReply), CountsSends
    PROVE  EarnedInv'
<1>0. MaxSends \in Nat /\ MaxCount \in Nat
  BY NumAssumption, MaxCountAssumption
<1>1. SendsType' /\ SendsType
  BY SendsStep DEF EarnedInv
<1>2. \A a \in ReqAddr :
        /\ sends[a] \in Nat /\ sends'[a] \in Nat
        /\ heap'[a] = Null => sends'[a] = 0
        /\ heap'[a] # Null => sends'[a] >= sends[a]
  BY SendsStep DEF EarnedInv
<1>3. CountEarned'
  <2> SUFFICES ASSUME NEW a \in ReqAddr, heap'[a] # Null
              PROVE  heap'[a].times_sent <= sends'[a] \/ sends'[a] >= MaxSends
    BY <1>2 DEF CountEarned
  <2>1. sends'[a] >= sends[a] /\ sends[a] \in Nat /\ sends'[a] \in Nat
    BY <1>2
  <2>2. CASE heap[a] # Null /\ heap'[a].times_sent = heap[a].times_sent
    <3>1. heap[a].times_sent \in Nat
      BY <2>2 DEF Inv, TypeOK, Request
    <3>2. heap[a].times_sent <= sends[a] \/ sends[a] >= MaxSends
      BY <2>2 DEF EarnedInv, CountEarned
    <3> QED BY <1>0, <2>1, <2>2, <3>1, <3>2
  <2>3. CASE heap'[a].times_sent = 0
    BY <2>1, <2>3
  <2>4. CASE /\ heap[a] # Null
             /\ \E t \in Thread : /\ CountSend(t) /\ cur[t] = a
                                  /\ heap'[a].times_sent = reg[t] + 1
    <3>1. PICK t \in Thread : CountSend(t) /\ cur[t] = a /\ heap'[a].times_sent = reg[t] + 1
      BY <2>4
    <3>2. reg[t] + 1 <= sends[a] \/ sends[a] >= MaxSends
      BY <2>4, <3>1 DEF CountSend, InHandler, EarnedInv, RegEarned
    <3>3. reg[t] \in Nat
      BY DEF Inv, TypeOK
    <3> QED BY <1>0, <2>1, <3>1, <3>2, <3>3
  <2> QED BY <2>2, <2>3, <2>4, TimesSent
<1>4. ASSUME NEW t \in Thread, pc'[t] \in {"count", "giveup"}, heap'[cur'[t]] # Null
      PROVE  \/ pc'[t] = pc[t] /\ cur'[t] = cur[t] /\ reg'[t] = reg[t]
             \/ pc'[t] = "count" /\ Resend(t) /\ cur'[t] = cur[t]
             \/ pc'[t] = "giveup" /\ CheckTries(t) /\ cur'[t] = cur[t]
                /\ Exhausted(heap[cur[t]])
  BY <1>4, ThreadMoves DEF HandlerPC
<1>5. ASSUME NEW t \in Thread, pc'[t] \in {"count", "giveup"}, heap'[cur'[t]] # Null
      PROVE  /\ cur'[t] = cur[t] /\ cur[t] \in ReqAddr /\ heap[cur[t]] # Null
             /\ sends'[cur[t]] >= sends[cur[t]]
             /\ sends[cur[t]] \in Nat /\ sends'[cur[t]] \in Nat
  <2>1. cur'[t] = cur[t] /\ pc[t] \in HandlerPC
    BY <1>4, <1>5 DEF Resend, CheckTries, InHandler, HandlerPC
  <2>2. cur[t] \in ReqAddr /\ heap[cur[t]] # Null
    BY <1>5, <2>1, NoneReused
  <2> QED BY <1>2, <1>5, <2>1, <2>2
<1>6. RegEarned'
  <2> SUFFICES ASSUME NEW t \in Thread, pc'[t] = "count", heap'[cur'[t]] # Null
              PROVE  reg'[t] + 1 <= sends'[cur'[t]] \/ sends'[cur'[t]] >= MaxSends
    BY DEF RegEarned
  <2>1. /\ cur'[t] = cur[t] /\ cur[t] \in ReqAddr /\ heap[cur[t]] # Null
        /\ sends'[cur[t]] >= sends[cur[t]]
        /\ sends[cur[t]] \in Nat /\ sends'[cur[t]] \in Nat
    BY <1>5
  <2>2. CASE pc'[t] = pc[t] /\ reg'[t] = reg[t]
    <3>1. reg[t] + 1 <= sends[cur[t]] \/ sends[cur[t]] >= MaxSends
      BY <2>1, <2>2 DEF EarnedInv, RegEarned
    <3>2. reg[t] \in Nat
      BY DEF Inv, TypeOK
    <3> QED BY <1>0, <2>1, <2>2, <3>1, <3>2
  <2>3. CASE Resend(t)
    <3>1. reg'[t] = heap[cur[t]].times_sent
      BY <2>3 DEF Resend, Inv, TypeOK
    <3>2. heap[cur[t]].times_sent \in Nat
      BY <2>1 DEF Inv, TypeOK, Request
    <3>3. heap[cur[t]].times_sent <= sends[cur[t]] \/ sends[cur[t]] >= MaxSends
      BY <2>1 DEF EarnedInv, CountEarned
    <3>4. sends[cur[t]] \in 0 .. MaxCount
      BY <1>1, <2>1 DEF SendsType
    <3>5. sends'[cur[t]] = Bump(sends[cur[t]])
      BY <1>1, <2>1, <2>3, SendsStep
    <3> QED BY <2>1, <3>1, <3>2, <3>3, <3>4, <3>5, BumpEarns
  <2> QED BY <1>4, <2>2, <2>3
<1>7. UnreachableEarned'
  <2> SUFFICES ASSUME NEW t \in Thread, pc'[t] = "giveup", heap'[cur'[t]] # Null
              PROVE  sends'[cur'[t]] >= MaxSends
    BY DEF UnreachableEarned
  <2>1. /\ cur'[t] = cur[t] /\ cur[t] \in ReqAddr /\ heap[cur[t]] # Null
        /\ sends'[cur[t]] >= sends[cur[t]]
        /\ sends[cur[t]] \in Nat /\ sends'[cur[t]] \in Nat
    BY <1>5
  <2>2. CASE pc'[t] = pc[t]
    <3>1. sends[cur[t]] >= MaxSends
      BY <2>1, <2>2 DEF EarnedInv, UnreachableEarned
    <3> QED BY <1>0, <2>1, <3>1
  <2>3. CASE Exhausted(heap[cur[t]])
    <3>1. heap[cur[t]].times_sent \in Nat /\ heap[cur[t]].times_sent >= MaxSends
      BY <2>1, <2>3 DEF Inv, TypeOK, Request, Exhausted
    <3>2. heap[cur[t]].times_sent <= sends[cur[t]] \/ sends[cur[t]] >= MaxSends
      BY <2>1 DEF EarnedInv, CountEarned
    <3> QED BY <1>0, <2>1, <3>1, <3>2
  <2> QED BY <1>4, <2>2, <2>3
<1> QED BY <1>1, <1>3, <1>6, <1>7 DEF EarnedInv

(* Nothing was sent at the start. *)
LEMMA EarnedInit ==
    ASSUME HistInit
    PROVE  EarnedInv
<1>1. /\ \A a \in ReqAddr : heap[a] = Null /\ sends[a] = 0
      /\ \A t \in Thread : pc[t] \in {"idle", "sleep"}
      /\ SendsType
  BY MaxCountAssumption DEF HistInit, Init, SendsType, Thread
<1> QED BY <1>1 DEF EarnedInv, CountEarned, RegEarned, UnreachableEarned

(* Nor does a step in which nothing happens to the cache change what was earned. *)
LEMMA EarnedStutter ==
    ASSUME EarnedInv, UNCHANGED <<vars, sends>>
    PROVE  EarnedInv'
<1>1. UNCHANGED <<heap, pc, cur, reg, sends>>
  BY DEF vars
<1>2. SendsType' /\ CountEarned' /\ RegEarned' /\ UnreachableEarned'
  BY <1>1 DEF EarnedInv, SendsType, CountEarned, RegEarned, UnreachableEarned
<1> QED BY <1>2 DEF EarnedInv

(* UnreachableEarned for any number of retries: the race between the increments   *)
(* of times_sent in main and in the sweep never makes either of them give up      *)
(* before MaxSends requests have left.                                            *)
THEOREM UnreachableIsEarned == HistSpec => []UnreachableEarned
<1>1. HistInit => Inv /\ EarnedInv
  BY EarnedInit, InvInit DEF HistInit
<1>2. Inv /\ EarnedInv /\ [HistNext]_histVars => Inv' /\ EarnedInv'
  <2> SUFFICES ASSUME Inv, EarnedInv, [HistNext]_histVars PROVE Inv' /\ EarnedInv'
    OBVIOUS
  <2>1. CASE HistNext
    <3>1. StepWith(AnyReply) /\ CountsSends
      BY <2>1, NextIsStep DEF StepWith, HistNext, CountsSends
    <3> QED BY <3>1, InvStep, EarnedStep
  <2>2. CASE UNCHANGED histVars
    <3>1. UNCHANGED <<vars, sends>>
      BY <2>2 DEF histVars
    <3> QED BY <3>1, InvStutter, EarnedStutter
  <2> QED BY <2>1, <2>2
<1>3. EarnedInv => UnreachableEarned
  BY DEF EarnedInv
<1> QED BY <1>1, <1>2, <1>3, PTL DEF HistSpec

-----------------------------------------------------------------------------
(* Bags of frames. *)

Copies(e, B) == IF e \in BagToSet(B) THEN B[e] ELSE 0

(* Frames put on the air. *)
LEMMA BagAdd ==
    ASSUME NEW B, IsABag(B), NEW S
    PROVE  /\ IsABag(B (+) SetToBag(S))
           /\ BagToSet(B (+) SetToBag(S)) = BagToSet(B) \cup S
           /\ \A e : Copies(e, B (+) SetToBag(S)) =
                       Copies(e, B) + (IF e \in S THEN 1 ELSE 0)
<1> DEFINE C == B (+) SetToBag(S)
           n(e) == (IF e \in DOMAIN B THEN B[e] ELSE 0) + (IF e \in S THEN 1 ELSE 0)
<1>1. \A e \in DOMAIN B : B[e] \in Nat /\ B[e] > 0
  BY DEF IsABag
<1>2. C = [e \in DOMAIN B \cup S |-> n(e)]
  BY DEF (+), SetToBag
<1>3. \A e \in DOMAIN B \cup S : n(e) \in Nat /\ n(e) > 0
  BY <1>1
<1>4. IsABag(C) /\ BagToSet(C) = BagToSet(B) \cup S
  <2> HIDE DEF C, n
  <2>1. DOMAIN C = DOMAIN B \cup S /\ \A e \in DOMAIN C : C[e] = n(e)
    BY <1>2
  <2>2. C = [e \in DOMAIN C |-> C[e]]
    BY <1>2
  <2> QED BY <1>3, <2>1, <2>2 DEF IsABag, BagToSet
<1>5. ASSUME NEW e
      PROVE  Copies(e, C) = Copies(e, B) + (IF e \in S THEN 1 ELSE 0)
  <2>1. CASE e \in DOMAIN B \cup S
    <3>1. e \in DOMAIN C /\ C[e] = n(e)
      BY <1>2, <2>1
    <3> HIDE DEF C
    <3> QED BY <3>1 DEF Copies, BagToSet
  <2>2. CASE e \notin DOMAIN B \cup S
    <3>1. e \notin DOMAIN C
      BY <1>2, <2>2
    <3> HIDE DEF C
    <3> QED BY <2>2, <3>1 DEF Copies, BagToSet
  <2> QED BY <2>1, <2>2
<1> QED BY <1>4, <1>5

(* A frame taken off the air. *)
LEMMA BagTake ==
    ASSUME NEW B, IsABag(B), NEW f \in BagToSet(B)
    PROVE  /\ IsABag(B (-) SetToBag({f}))
           /\ BagToSet(B (-) SetToBag({f})) \subseteq BagToSet(B)
           /\ Copies(f, B) \in Nat /\ Copies(f, B) > 0
           /\ Copies(f, B (-) SetToBag({f})) = Copies(f, B) - 1
           /\ \A e : e # f => Copies(e, B (-) SetToBag({f})) = Copies(e, B)
<1> DEFINE C == B (-) SetToBag({f})
           n(e) == IF e = f THEN B[e] - 1 ELSE B[e]
<1>1. \A e \in DOMAIN B : B[e] \in Nat /\ B[e] > 0
  BY DEF IsABag
<1>2. f \in DOMAIN B /\ B[f] \in Nat /\ B[f] > 0
  BY <1>1 DEF BagToSet
<1>3. C = [e \in {d \in DOMAIN B : n(d) > 0} |-> n(e)]
  BY DEF (-), SetToBag
<1>4. \A e \in DOMAIN B : n(e) \in Nat
  BY <1>1, <1>2
<1>5. /\ DOMAIN C = {d \in DOMAIN B : n(d) > 0}
      /\ \A e \in DOMAIN C : C[e] = n(e)
      /\ C = [e \in DOMAIN C |-> C[e]]
  <2> HIDE DEF C, n
  <2> QED BY <1>3
<1>6. IsABag(C) /\ BagToSet(C) \subseteq BagToSet(B)
  <2> HIDE DEF C, n
  <2> QED BY <1>4, <1>5 DEF IsABag, BagToSet
<1>7. Copies(f, B) = B[f] /\ Copies(f, C) = B[f] - 1
  <2>1. Copies(f, B) = B[f]
    BY <1>2 DEF Copies, BagToSet
  <2>2. CASE B[f] = 1
    <3>1. f \notin DOMAIN C
      <4> HIDE DEF C
      <4> QED BY <1>5, <2>2
    <3> HIDE DEF C
    <3> QED BY <2>1, <2>2, <3>1 DEF Copies, BagToSet
  <2>3. CASE B[f] > 1
    <3>1. f \in DOMAIN C /\ C[f] = B[f] - 1
      <4> HIDE DEF C
      <4> QED BY <1>2, <1>5, <2>3
    <3> HIDE DEF C
    <3> QED BY <2>1, <3>1 DEF Copies, BagToSet
  <2> QED BY <1>2, <2>2, <2>3
<1>8. ASSUME NEW e, e # f
      PROVE  Copies(e, C) = Copies(e, B)
  <2>1. e \in DOMAIN C <=> e \in DOMAIN B
    <3> HIDE DEF C
    <3> QED BY <1>1, <1>5, <1>8
  <2>2. e \in DOMAIN C => C[e] = B[e]
    <3> HIDE DEF C
    <3> QED BY <1>5, <1>8
  <2> HIDE DEF C
  <2> QED BY <2>1, <2>2 DEF Copies, BagToSet
<1> QED BY <1>2, <1>6, <1>7, <1>8

(* How many copies there are is a number. *)
LEMMA CopiesNat ==
    ASSUME NEW B, IsABag(B), NEW e
    PROVE  Copies(e, B) \in Nat /\ (e \notin BagToSet(B) => Copies(e, B) = 0)
BY DEF IsABag, Copies, BagToSet

-----------------------------------------------------------------------------
(* The frames on the links, and the router between them. *)

\* The router's question about ip, and the only answer there is to it.
RequestFor(ip) ==
    [op |-> "request", sip |-> Null, sha |-> RouterMac[Link[ip]], tip |-> ip,
     link |-> Link[ip]]
ReplyFrom(ip) ==
    [op |-> "reply", sip |-> ip, sha |-> Owner[ip], tip |-> Null, link |-> Link[ip]]

AirSound ==
    /\ IsABag(air)
    /\ \A f \in BagToSet(air) : \E ip \in IP : f = RequestFor(ip) \/ f = ReplyFrom(ip)

LostType == lost \in [IP -> 0 .. MaxCount]

\* What the stations say of themselves.
TrueReplies == {[ip |-> ip, mac |-> Owner[ip], iface |-> Link[ip]] : ip \in IP}

RouterInv == Inv /\ EarnedInv /\ HopInv(TrueReplies)

(* The frames about two addresses, questions and answers, are all different. *)
LEMMA FramesDiffer ==
    ASSUME NEW ip \in IP, NEW other \in IP
    PROVE  /\ RequestFor(ip).op = "request" /\ RequestFor(ip).tip = ip
           /\ RequestFor(ip).sip = Null /\ RequestFor(ip).link = Link[ip]
           /\ ReplyFrom(ip).op = "reply" /\ ReplyFrom(ip).sip = ip
           /\ ReplyFrom(ip).sha = Owner[ip] /\ ReplyFrom(ip).link = Link[ip]
           /\ RequestFor(ip) # ReplyFrom(other)
           /\ RequestFor(ip) = RequestFor(other) => ip = other
           /\ ReplyFrom(ip) = ReplyFrom(other) => ip = other
<1>1. \A i \in IP : /\ RequestFor(i).op = "request" /\ RequestFor(i).tip = i
                    /\ RequestFor(i).sip = Null /\ RequestFor(i).link = Link[i]
                    /\ ReplyFrom(i).op = "reply" /\ ReplyFrom(i).sip = i
                    /\ ReplyFrom(i).sha = Owner[i] /\ ReplyFrom(i).link = Link[i]
  BY DEF RequestFor, ReplyFrom
<1>2. "request" # "reply"
  OBVIOUS
<1>3. RequestFor(ip) # ReplyFrom(other)
  BY <1>1, <1>2
<1> QED BY <1>1, <1>3

(* What the stations say is a reply that the router can take in. *)
LEMMA TrueRepliesSound ==
    /\ TrueReplies \subseteq AnyReply
    /\ \A r \in TrueReplies : r.mac = Owner[r.ip] /\ r.iface = Link[r.ip]
BY LinkAssumption DEF TrueReplies, AnyReply

(* A request that a thread works on in handle_arpreq is queued, if it is there. *)
LEMMA HandlerQueued ==
    ASSUME Inv, NEW t \in Thread, pc[t] \in HandlerPC, heap[cur[t]] # Null
    PROVE  cur[t] \in ReqAddr /\ heap[cur[t]] \in Request /\ cur[t] \in Requests
<1>1. PICK a \in ReqAddr : a = cur[t]
  BY DEF Inv, ArgsGiven
<1>2. heap[a] \in Request /\ a \in Allocated
  BY <1>1 DEF Inv, TypeOK, Allocated
<1>3. CASE t = "main"
  <2>1. ~ReplyOwns(a)
    BY <1>3 DEF ReplyOwns, HandlerPC
  <2>2. ReplyOwns(a) = FALSE
    BY <2>1 DEF ReplyOwns
  <2>3. (a \in Requests) # ReplyOwns(a)
    BY <1>2 DEF Inv, NoRequestLeaked
  <2>4. a \notin Requests => (a \in Requests) = FALSE
    OBVIOUS
  <2>5. a \in Requests
    BY <2>2, <2>3, <2>4
  <2> QED BY <1>1, <1>2, <2>5
<1>4. CASE t = "timeout"
  <2>1. /\ Len(requests) - Len(rest) \in DOMAIN requests
        /\ requests[Len(requests) - Len(rest)] = a
    BY <1>1, <1>4 DEF Inv, SweepFollowsQueue, TypeOK
  <2> QED BY <1>1, <1>2, <2>1 DEF Requests
<1> QED BY <1>3, <1>4 DEF Thread

(* create_arp_request asks for the request's address, on the address's link. *)
LEMMA RequestIsFor ==
    ASSUME Inv, QueuedForHop, NEW t \in Thread, Resend(t)
    PROVE  ArpRequest(heap[cur[t]]) = RequestFor(heap[cur[t]].ip) /\ heap[cur[t]].ip \in IP
<1>1. /\ cur[t] \in ReqAddr /\ heap[cur[t]] \in Request /\ cur[t] \in Requests
      /\ heap[cur[t]] # Null
  BY HandlerQueued DEF Resend, InHandler, HandlerPC
<1>2. PICK a \in ReqAddr : a = cur[t]
  BY <1>1
<1>3. heap[a].packets # <<>> /\ Held(a) = heap[a].packets /\ heap[a].ip \in IP
  BY <1>1, <1>2 DEF Requests, Inv, QueueSound, Held, Request
<1>4. /\ Head(heap[a].packets) = heap[a].packets[1] /\ 1 \in DOMAIN heap[a].packets
      /\ heap[a].packets[1] \in Packet
  <2>1. heap[a].packets \in Seq(Packet)
    BY <1>1, <1>2 DEF Request
  <2> QED BY <1>3, <2>1
<1>5. OutIface[Head(heap[a].packets)] = Link[heap[a].ip]
  BY <1>3, <1>4, LinkAssumption DEF QueuedForHop
<1> QED BY <1>2, <1>3, <1>5 DEF ArpRequest, RequestFor

(* What a step of the router puts on the air. *)
LEMMA RouterSends ==
    ASSUME Inv, QueuedForHop, StepWith(AnyReply), NEW f,
           f \in {ArpRequest(heap[a]) :
                    a \in {b \in ReqAddr : \E t \in Thread : Broadcasts(t, b)}}
    PROVE  \E t \in Thread : /\ Resend(t) /\ heap[cur[t]].ip \in IP
                             /\ f = RequestFor(heap[cur[t]].ip)
<1>1. PICK a \in ReqAddr, t \in Thread : Broadcasts(t, a) /\ f = ArpRequest(heap[a])
  OBVIOUS
<1>2. Resend(t) /\ cur[t] = a
  BY <1>1, BroadcastIsResend
<1> QED BY <1>1, <1>2, RequestIsFor

(* A station answers for its own address and for no other. *)
LEMMA AnswersAre ==
    ASSUME NEW ip \in IP
    PROVE  {ArpReply(RequestFor(ip), s) : s \in {i \in IP : ForStation(RequestFor(ip), i)}}
             = {ReplyFrom(ip)}
<1>1. {i \in IP : ForStation(RequestFor(ip), i)} = {ip}
  BY FramesDiffer DEF ForStation
<1>2. ArpReply(RequestFor(ip), ip) = ReplyFrom(ip)
  BY DEF ArpReply, RequestFor, ReplyFrom
<1> QED BY <1>1, <1>2

(* The router's state moves as in ArpCache, with the replies of the stations. *)
LEMMA LinkMoves ==
    ASSUME RouterInv, AirSound, LinkNext
    PROVE  \/ StepWith(TrueReplies) /\ StepWith(AnyReply) /\ CountsSends
           \/ UNCHANGED <<vars, sends>>
<1>1. CASE RouterStep
  BY <1>1 DEF RouterStep, StepWith, CountsSends
<1>2. CASE ReceiveReply
  <2>1. PICK f \in BagToSet(air) :
          /\ f.op = "reply"
          /\ Insert([ip |-> f.sip, mac |-> f.sha, iface |-> f.link])
    BY <1>2 DEF ReceiveReply
  <2>2. PICK ip \in IP : f = ReplyFrom(ip)
    <3>1. \A ip \in IP : f # RequestFor(ip)
      BY <2>1, FramesDiffer
    <3> QED BY <3>1 DEF AirSound
  <2>3. [ip |-> f.sip, mac |-> f.sha, iface |-> f.link] \in TrueReplies
    BY <2>2, FramesDiffer DEF TrueReplies
  <2>4. StepWith(TrueReplies) /\ StepWith(AnyReply)
    BY <2>1, <2>3, TrueRepliesSound DEF StepWith
  <2> QED BY <1>2, <2>4 DEF ReceiveReply, CountsSends
<1>3. CASE StationsAnswer \/ Lose
  BY <1>3 DEF StationsAnswer, Lose, histVars
<1>4. CASE LinkTick
  <2>1. Tick /\ sends' = sends
    BY <1>4 DEF LinkTick
  <2>2. StepWith(TrueReplies) /\ StepWith(AnyReply)
    BY <2>1 DEF StepWith
  <2>3. ASSUME NEW a \in ReqAddr
        PROVE  sends[a] = Count(a)
    <3>1. \A t \in Thread : ~Broadcasts(t, a)
      BY <2>1 DEF Tick, Broadcasts
    <3>2. heap[a] = Null <=> heap'[a] = Null
      <4>1. ~QueueReq /\ ~\E t \in Thread : Destroy(t)
        <5>1. pc' = pc
          BY <2>1 DEF Tick
        <5>2. QueueReq => pc'["main"] = "check" /\ pc["main"] = "miss"
          BY DEF QueueReq, RouterInv, Inv, TypeOK, Thread
        <5>3. \A t \in Thread : Destroy(t) => pc'[t] \in {"idle", "next"}
                                              /\ pc[t] \in {"giveup", "reply"}
          BY DEF Destroy, Return, InHandler, RouterInv, Inv, TypeOK
        <5> QED BY <5>1, <5>2, <5>3
      <4> QED BY <2>2, <4>1, RequestsKept DEF RouterInv, KeepsRequests
    <3>3. heap[a] = Null => sends[a] = 0
      BY DEF RouterInv, EarnedInv, CountEarned
    <3> QED BY <3>1, <3>2, <3>3 DEF Count
  <2>4. sends = [a \in ReqAddr |-> sends[a]]
    BY DEF RouterInv, EarnedInv, SendsType
  <2>5. CountsSends
    BY <2>1, <2>3, <2>4 DEF CountsSends
  <2> QED BY <2>2, <2>5
<1> QED BY <1>1, <1>2, <1>3, <1>4 DEF LinkNext

(* The router's own invariants hold on its links. *)
LEMMA RouterInvStep ==
    ASSUME RouterInv, AirSound, [LinkNext]_linkVars
    PROVE  RouterInv'
<1>1. CASE StepWith(TrueReplies) /\ StepWith(AnyReply) /\ CountsSends
  BY <1>1, InvStep, EarnedStep, HopStep, TrueRepliesSound DEF RouterInv
<1>2. CASE UNCHANGED <<vars, sends>>
  <2>1. HopInv(TrueReplies)'
    BY <1>2 DEF RouterInv, vars, HopInv, EntriesFrom, QueuedForHop, ArgFrom, HopsFrom, Held,
                Announced, TrueReplies
  <2> QED BY <1>2, <2>1, InvStutter, EarnedStutter DEF RouterInv
<1>3. UNCHANGED linkVars => UNCHANGED <<vars, sends>>
  BY DEF linkVars, histVars
<1> QED BY <1>1, <1>2, <1>3, LinkMoves

(* Only the router's questions and the stations' answers are on the air. *)
LEMMA AirStep ==
    ASSUME RouterInv, AirSound, LinkNext
    PROVE  AirSound'
<1>1. CASE RouterStep
  <2> DEFINE S == {ArpRequest(heap[a]) :
                     a \in {b \in ReqAddr : \E t \in Thread : Broadcasts(t, b)}}
  <2>1. air' = air (+) SetToBag(S)
    BY <1>1 DEF RouterStep, Send
  <2>2. StepWith(AnyReply)
    BY <1>1 DEF RouterStep, StepWith
  <2>3. \A f \in S : \E ip \in IP : f = RequestFor(ip)
    BY <2>2, RouterSends DEF RouterInv, HopInv
  <2> HIDE DEF S
  <2>4. IsABag(air') /\ BagToSet(air') = BagToSet(air) \cup S
    BY <2>1, BagAdd DEF AirSound
  <2> QED BY <2>3, <2>4 DEF AirSound, RequestFor, ReplyFrom
<1>2. ASSUME NEW f \in BagToSet(air), air' = air (-) SetToBag({f})
      PROVE  AirSound'
  <2>1. IsABag(air') /\ BagToSet(air') \subseteq BagToSet(air)
    BY <1>2, BagTake DEF AirSound
  <2> QED BY <2>1 DEF AirSound, RequestFor, ReplyFrom
<1>3. CASE ReceiveReply \/ Lose
  BY <1>2, <1>3 DEF ReceiveReply, Lose
<1>4. CASE StationsAnswer
  <2>1. PICK f \in BagToSet(air) :
          /\ f.op = "request"
          /\ air' = (air (-) SetToBag({f}))
                (+) SetToBag({ArpReply(f, ip) : ip \in {s \in IP : ForStation(f, s)}})
    BY <1>4 DEF StationsAnswer
  <2>2. PICK ip \in IP : f = RequestFor(ip)
    <3>1. \A ip \in IP : f # ReplyFrom(ip)
      BY <2>1, FramesDiffer
    <3> QED BY <3>1 DEF AirSound
  <2> DEFINE B == air (-) SetToBag({f})
  <2>3. air' = B (+) SetToBag({ReplyFrom(ip)})
    BY <2>1, <2>2, AnswersAre
  <2>4. IsABag(B) /\ BagToSet(B) \subseteq BagToSet(air)
    BY BagTake DEF AirSound
  <2> HIDE DEF B
  <2>5. IsABag(air') /\ BagToSet(air') \subseteq BagToSet(air) \cup {ReplyFrom(ip)}
    BY <2>3, <2>4, BagAdd
  <2> QED BY <2>5 DEF AirSound, RequestFor, ReplyFrom
<1>5. CASE LinkTick
  BY <1>5 DEF LinkTick, AirSound, RequestFor, ReplyFrom
<1> QED BY <1>1, <1>3, <1>4, <1>5 DEF LinkNext

(* A frame is about the address that it asks for or comes from. *)
LEMMA AboutWhom ==
    ASSUME NEW ip \in IP
    PROVE  About(RequestFor(ip)) = ip /\ About(ReplyFrom(ip)) = ip
BY FramesDiffer DEF About

(* The losses are counted up to the bound. *)
LEMMA LostStep ==
    ASSUME AirSound, LostType, LinkNext
    PROVE  LostType'
<1>0. MaxCount \in Nat
  BY MaxCountAssumption
<1>1. ASSUME NEW new \in [IP -> 0 .. MaxCount], Losses(new)
      PROVE  LostType'
  BY <1>0, <1>1 DEF Losses, LostType
<1>2. CASE RouterStep \/ ReceiveReply
  BY <1>1, <1>2 DEF RouterStep, ReceiveReply, LostType
<1>3. CASE Lose
  <2>1. PICK f \in BagToSet(air) : Losses([lost EXCEPT ![About(f)] = Bump(@)])
    BY <1>3 DEF Lose
  <2>2. PICK ip \in IP : About(f) = ip
    BY AboutWhom DEF AirSound
  <2>3. Bump(lost[ip]) \in 0 .. MaxCount
    BY <1>0 DEF LostType, Bump
  <2>4. [lost EXCEPT ![About(f)] = Bump(@)] \in [IP -> 0 .. MaxCount]
    BY <2>2, <2>3 DEF LostType
  <2> QED BY <1>1, <2>1, <2>4
<1>4. CASE StationsAnswer \/ LinkTick
  BY <1>4 DEF StationsAnswer, LinkTick, LostType
<1> QED BY <1>2, <1>3, <1>4 DEF LinkNext

-----------------------------------------------------------------------------
AirInv == RouterInv /\ AirSound /\ LostType

(* Everything is quiet at the start. *)
LEMMA AirInit == LinkInit => AirInv
<1> SUFFICES ASSUME LinkInit PROVE AirInv
  OBVIOUS
<1>1. Inv /\ EarnedInv /\ HopInv(TrueReplies)
  BY EarnedInit, InvInit, HopInit DEF LinkInit, HistInit
<1>2. AirSound
  BY DEF LinkInit, AirSound, EmptyBag, SetToBag, IsABag, BagToSet
<1>3. LostType
  BY MaxCountAssumption DEF LinkInit, LostType
<1> QED BY <1>1, <1>2, <1>3 DEF AirInv, RouterInv

(* The invariants of the router, of the air and of the losses carry each other. *)
LEMMA AirNext == AirInv /\ [LinkNext]_linkVars => AirInv'
<1> SUFFICES ASSUME AirInv, [LinkNext]_linkVars PROVE AirInv'
  OBVIOUS
<1>1. RouterInv'
  BY RouterInvStep DEF AirInv
<1>2. CASE LinkNext
  BY <1>1, <1>2, AirStep, LostStep DEF AirInv
<1>3. CASE UNCHANGED linkVars
  <2>1. UNCHANGED <<air, lost>>
    BY <1>3 DEF linkVars
  <2> QED BY <1>1, <2>1 DEF AirInv, AirSound, LostType, RequestFor, ReplyFrom
<1> QED BY <1>2, <1>3

(* LinkTypeOK for any number of stations and frames: every frame on a link is a    *)
(* well-formed ARP frame, with the Ethernet address of the one that sent it.       *)
THEOREM LinkTypeCorrect == LinkSpec => []LinkTypeOK
<1>1. AirInv => LinkTypeOK
  <2> SUFFICES ASSUME AirInv PROVE LinkTypeOK
    OBVIOUS
  <2>1. \A ip \in IP : RequestFor(ip) \in ArpFrame /\ ReplyFrom(ip) \in ArpFrame
    BY LinkAssumption DEF RequestFor, ReplyFrom, ArpFrame
  <2> QED BY <2>1 DEF AirInv, AirSound, LostType, LinkTypeOK
<1> QED BY <1>1, AirInit, AirNext, PTL DEF LinkSpec

(* ReachesOwner for any topology in which a next hop is on the link of the route:  *)
(* a packet leaves for the station that owns its next hop's address, and           *)
(* sr_send_packet never refuses a packet that waited for a reply.                  *)
THEOREM PacketsReachOwner == LinkSpec => []ReachesOwner
<1>1. AirInv => ReachesOwner
  <2> SUFFICES ASSUME AirInv, NEW p \in Packet, NEW i \in DOMAIN outcome[p]
              PROVE  /\ outcome[p][i].how # "dropped"
                     /\ outcome[p][i].how = "forwarded" => outcome[p][i].mac = Owner[Gw[p]]
    BY DEF ReachesOwner
  <2>1. /\ outcome[p][i].how = "forwarded" => Announced(TrueReplies, Gw[p], outcome[p][i].mac)
        /\ outcome[p][i].how = "dropped" =>
              \E r \in TrueReplies : r.ip = Gw[p] /\ r.iface # OutIface[p]
    BY DEF AirInv, RouterInv, HopInv, HopsFrom
  <2> QED BY <2>1, TrueRepliesSound, LinkAssumption DEF Announced
<1> QED BY <1>1, AirInit, AirNext, PTL DEF LinkSpec

-----------------------------------------------------------------------------
(* Where the requests that left have gone. *)

OnAir(ip) == Copies(RequestFor(ip), air) + Copies(ReplyFrom(ip), air)

\* The exchanges for the request at a that failed on the link.
Failed(a) == lost[heap[a].ip]

\* Thread t has found the request at a due, and has not sent it again since.
At(t, a) == cur[t] = a /\ pc[t] \in {"tries", "resend", "giveup"}

\* No second begins between a thread's look at the clock and its use of it.
Fresh == alive => \A t \in Thread : pc[t] \in {"tries", "resend"} => ~stale[t]

\* What left for a queued request is lost or on its way; when the request is due, or
\* both threads have found it due, all of it is lost; and when one has, all but what
\* the other may have sent since.
AccountFor(a) ==
    /\ alive => sends[a] <= Failed(a) + OnAir(heap[a].ip)
    /\ alive /\ heap[a].due => sends[a] <= Failed(a)
    /\ alive /\ (\A t \in Thread : At(t, a)) => sends[a] <= Failed(a)
    /\ (\E t \in Thread : At(t, a)) => sends[a] <= Failed(a) + 1

Account == \A a \in Requests : AccountFor(a)

AccountInv == AirInv /\ Fresh /\ Account

(* A process that runs after a step ran before it. *)
LEMMA AliveBefore ==
    ASSUME StepWith(AnyReply), alive'
    PROVE  alive
BY DEF StepWith, Tick, Lookup, Insert, MainStep, TimeoutStep, ForwardHit, QueueReq, SendQueued,
       StartSweep, SweepRequest, FollowNext, EndSweep, HandleArpreq, CheckSent, CheckTries,
       Resend, CountSend, SendUnreachable, Destroy, UseAfterFree, InHandler

(* A queued request is an allocated one, for an address. *)
LEMMA QueuedType ==
    ASSUME Inv, NEW a \in Requests
    PROVE  a \in ReqAddr /\ heap[a] # Null /\ heap[a] \in Request /\ heap[a].ip \in IP
<1>1. a \in ReqAddr /\ heap[a] # Null
  BY DEF Requests, Inv, TypeOK, QueueSound
<1>2. heap[a] \in Request
  BY <1>1 DEF Inv, TypeOK
<1> QED BY <1>1, <1>2 DEF Request

(* A queued request was queued, or main has just allocated it. *)
LEMMA QueuedBefore ==
    ASSUME Inv, StepWith(AnyReply), NEW a \in Requests'
    PROVE  \/ a \in Requests
           \/ QueueReq /\ a \in ReqAddr /\ heap[a] = Null
<1>1. PICK k \in DOMAIN requests' : requests'[k] = a
  BY DEF Requests
<1>2. CASE requests' = requests
  BY <1>1, <1>2 DEF Requests
<1>3. CASE \E i \in DOMAIN requests : requests' = Unlink(requests, i)
  <2>1. PICK i \in DOMAIN requests : requests' = Unlink(requests, i)
    BY <1>3
  <2>2. requests \in Seq(ReqAddr) /\ i \in 1 .. Len(requests)
    BY DEF Inv, TypeOK
  <2>3. /\ DOMAIN requests = 1 .. Len(requests) /\ Len(requests) \in Nat
        /\ DOMAIN requests' = 1 .. Len(requests) - 1
        /\ requests'[k] = IF k < i THEN requests[k] ELSE requests[k + 1]
    BY <1>1, <2>1, <2>2, UnlinkProperties DEF Unlink
  <2>4. k \in DOMAIN requests /\ k + 1 \in DOMAIN requests
    BY <1>1, <2>3
  <2> QED BY <1>1, <2>3, <2>4 DEF Requests
<1>4. CASE QueueReq
  <2>1. PICK b \in ReqAddr :
           /\ heap[b] # Null => requests' = requests
           /\ heap[b] = Null => requests' = <<b>> \o requests
    BY <1>4, QueueReqEffect
  <2>2. CASE heap[b] = Null
    <3>1. requests \in Seq(ReqAddr) /\ requests' = <<b>> \o requests
      BY <2>1, <2>2 DEF Inv, TypeOK
    <3>2. k = 1 => a = b
      BY <1>1, <3>1
    <3>3. k # 1 => k - 1 \in DOMAIN requests /\ requests[k - 1] = a
      BY <1>1, <3>1
    <3> QED BY <1>4, <2>2, <3>2, <3>3 DEF Requests
  <2> QED BY <1>2, <2>1, <2>2
<1>5. ASSUME NEW t \in Thread, HandleArpreq(t)
      PROVE  requests' = requests \/ \E i \in DOMAIN requests : requests' = Unlink(requests, i)
  BY <1>5 DEF HandleArpreq, CheckSent, CheckTries, Resend, CountSend, SendUnreachable,
              Destroy, UseAfterFree, cacheVars
<1>6. CASE MainStep
  BY <1>2, <1>3, <1>4, <1>5, <1>6 DEF MainStep, ForwardHit, SendQueued, cacheVars, Thread
<1>7. CASE TimeoutStep
  BY <1>2, <1>3, <1>5, <1>7
  DEF TimeoutStep, StartSweep, SweepRequest, FollowNext, EndSweep, cacheVars, Thread
<1>8. CASE Tick \/ (\E p \in Packet : Lookup(p)) \/ (\E r \in AnyReply : Insert(r))
  BY <1>2, <1>3, <1>8 DEF Tick, Lookup, Insert, cacheVars
<1> QED BY <1>6, <1>7, <1>8 DEF StepWith

(* After a reply no request for its address is queued. *)
LEMMA InsertTakes ==
    ASSUME Inv, NEW r \in AnyReply, Insert(r), NEW a \in Requests'
    PROVE  heap[a].ip # r.ip
<1>1. CASE requests' = requests /\ NotQueued(r.ip)
  BY <1>1 DEF Requests, NotQueued
<1>2. CASE \E i \in DOMAIN requests : QueuedAt(r.ip, i) /\ requests' = Unlink(requests, i)
  <2>1. PICK i \in DOMAIN requests : QueuedAt(r.ip, i) /\ requests' = Unlink(requests, i)
    BY <1>2
  <2>2. requests \in Seq(ReqAddr) /\ i \in 1 .. Len(requests)
    BY DEF Inv, TypeOK
  <2>3. \A j, k \in DOMAIN requests : j # k => requests[j] # requests[k]
    BY QueueDistinct DEF Inv
  <2>4. a # requests[i] /\ \E j \in DOMAIN requests : requests[j] = a
    BY <2>1, <2>2, <2>3, UnlinkElements DEF Requests
  <2> QED BY <2>1, <2>4 DEF QueuedAt, Inv, QueueSound
<1> QED BY <1>1, <1>2 DEF Insert

(* A request becomes due when time passes, or when a thread writes an old time. *)
LEMMA DueBefore ==
    ASSUME Inv, StepWith(AnyReply), NEW a \in ReqAddr, heap[a] # Null, heap'[a] # Null,
           heap'[a].due
    PROVE  heap[a].due \/ ~Runs \/ \E t \in Thread : Resend(t) /\ cur[t] = a /\ stale[t]
<1> USE NullFacts
<1>0. heap[a] \in Request
  BY DEF Inv, TypeOK
<1>1. CASE heap'[a] = heap[a]
  BY <1>1
<1>2. ASSUME NEW t \in Thread, HandleArpreq(t), heap'[a] # heap[a]
      PROVE  heap[a].due \/ \E u \in Thread : Resend(u) /\ cur[u] = a /\ stale[u]
  <2>1. heap' # heap
    BY <1>2
  <2>2. CASE Resend(t)
    <3>1. a = cur[t] /\ heap'[a] = [heap[a] EXCEPT !.due = stale[t]]
      BY <1>2, <2>2 DEF Resend, InHandler, Inv, TypeOK
    <3>2. heap'[a].due = stale[t]
      BY <1>0, <3>1 DEF Request
    <3> QED BY <2>2, <3>1, <3>2
  <2>3. CASE CountSend(t)
    <3>1. a = cur[t] /\ heap'[a] = [heap[a] EXCEPT !.times_sent = reg[t] + 1]
      BY <1>2, <2>3 DEF CountSend, InHandler, Inv, TypeOK
    <3>2. heap'[a].due = heap[a].due
      BY <1>0, <3>1 DEF Request
    <3> QED BY <3>2
  <2>4. CASE Destroy(t)
    BY <1>2, <2>4, DestroyEffect
  <2> QED BY <1>2, <2>1, <2>2, <2>3, <2>4
          DEF HandleArpreq, CheckSent, CheckTries, SendUnreachable, UseAfterFree, cacheVars
<1>3. CASE QueueReq
  <2>1. heap'[a].due = heap[a].due \/ heap'[a] = heap[a]
    BY <1>3, QueueReqEffect
  <2> QED BY <2>1
<1>4. CASE heap' = heap
  BY <1>4
<1>5. (\E p \in Packet : Lookup(p)) \/ (\E r \in AnyReply : Insert(r)) \/ ForwardHit
      \/ SendQueued \/ StartSweep \/ SweepRequest \/ FollowNext \/ EndSweep => heap' = heap
  BY DEF Lookup, Insert, ForwardHit, SendQueued, StartSweep, SweepRequest, FollowNext,
         EndSweep, cacheVars
<1> QED BY <1>1, <1>2, <1>3, <1>4, <1>5 DEF Runs, MainStep, TimeoutStep, Thread

(* What is on its way, and what is lost, are numbers. *)
LEMMA AirNat ==
    ASSUME AirInv, NEW ip \in IP
    PROVE  OnAir(ip) \in Nat /\ lost[ip] \in Nat
<1>1. Copies(RequestFor(ip), air) \in Nat /\ Copies(ReplyFrom(ip), air) \in Nat
  BY CopiesNat DEF AirInv, AirSound
<1>2. lost[ip] \in Nat
  BY MaxCountAssumption DEF AirInv, LostType
<1> QED BY <1>1, <1>2 DEF OnAir

(* A thread that has found the request due had found it before, or does so now. *)
LEMMA AtBefore ==
    ASSUME Inv, StepWith(AnyReply), NEW t \in Thread, NEW a, At(t, a)'
    PROVE  At(t, a) \/ (CheckSent(t) /\ cur[t] = a /\ heap[a].due)
<1>1. cur'[t] = a /\ pc'[t] \in {"tries", "resend", "giveup"}
  BY DEF At
<1>2. pc'[t] \in HandlerPC
  BY <1>1 DEF HandlerPC
<1>3. CASE pc[t] = pc'[t] /\ cur'[t] = cur[t]
  BY <1>1, <1>3 DEF At
<1>4. CASE CheckSent(t) /\ cur'[t] = cur[t] /\ heap[cur[t]].due
  BY <1>1, <1>4
<1>5. CASE CheckTries(t) /\ cur'[t] = cur[t]
  BY <1>1, <1>5 DEF CheckTries, InHandler, At
<1> QED BY <1>1, <1>2, <1>3, <1>4, <1>5, ThreadMoves

(* A thread that found a request due works with the time it found it at. *)
LEMMA FreshStep ==
    ASSUME Inv, Fresh, StepWith(AnyReply),
           Runs \/ ~alive \/ (pc["main"] = "idle" /\ pc["timeout"] = "sleep")
    PROVE  Fresh'
<1> SUFFICES ASSUME alive', NEW t \in Thread, pc'[t] \in {"tries", "resend"}
            PROVE  ~stale'[t]
  BY DEF Fresh
<1>1. alive
  BY AliveBefore
<1>2. Runs
  <2>1. Tick /\ ~(pc["main"] = "idle" /\ pc["timeout"] = "sleep") => Runs
    BY <1>1
  <2> QED BY <2>1 DEF StepWith, Runs, Tick, Thread
<1>3. CASE pc[t] = pc'[t] /\ stale'[t] = stale[t]
  BY <1>1, <1>3 DEF Fresh
<1>4. CASE CheckTries(t) /\ stale'[t] = stale[t]
  BY <1>1, <1>4 DEF Fresh, CheckTries, InHandler
<1> QED BY <1>2, <1>3, <1>4, ThreadMoves DEF HandlerPC

(* A step of the router, or a second that begins when all is quiet, keeps the     *)
(* account, if the air keeps what is in it about the requests that stay.          *)
LEMMA AccountMoves ==
    ASSUME AccountInv, AirInv', StepWith(AnyReply), CountsSends,
           \A ip \in IP : (\E a \in ReqAddr : heap'[a] # Null /\ heap'[a].ip = ip)
                          => lost'[ip] = lost[ip],
           \A a \in Requests' : \A ip \in IP : ip = heap'[a].ip => OnAir(ip)' >= OnAir(ip),
           \A t \in Thread : Resend(t) =>
               \A ip \in IP : ip = heap[cur[t]].ip => OnAir(ip)' >= OnAir(ip) + 1,
           \/ Runs \/ ~alive
           \/ /\ pc["main"] = "idle" /\ pc["timeout"] = "sleep"
              /\ \A ip \in IP : OnAir(ip) = 0
    PROVE  Fresh' /\ Account'
<1>1. Inv /\ Inv' /\ EarnedInv /\ Fresh
  BY DEF AccountInv, AirInv, RouterInv
<1>2. Fresh'
  BY <1>1, FreshStep
<1>3. ASSUME NEW a \in Requests'
      PROVE  AccountFor(a)'
  <2>1. a \in ReqAddr /\ heap'[a] # Null /\ heap'[a].ip \in IP
    <3>1. a \in ReqAddr /\ heap'[a] # Null
      BY <1>1 DEF Requests, Inv, TypeOK, QueueSound
    <3>2. heap'[a] \in Request
      BY <1>1, <3>1 DEF Inv, TypeOK
    <3> QED BY <3>1, <3>2 DEF Request
  <2>2. PICK ip \in IP : ip = heap'[a].ip
    BY <2>1
  <2>3. /\ OnAir(ip) \in Nat /\ OnAir(ip)' \in Nat /\ lost[ip] \in Nat
        /\ lost'[ip] = lost[ip] /\ OnAir(ip)' >= OnAir(ip)
    <3>1. Copies(RequestFor(ip), air') \in Nat /\ Copies(ReplyFrom(ip), air') \in Nat
      BY CopiesNat DEF AirInv, AirSound
    <3>2. OnAir(ip)' \in Nat
      BY <3>1 DEF OnAir, Copies, RequestFor, ReplyFrom
    <3>3. OnAir(ip) \in Nat /\ lost[ip] \in Nat
      BY AirNat DEF AccountInv
    <3> QED BY <2>1, <2>2, <3>2, <3>3
  <2>4. /\ sends[a] \in Nat /\ sends'[a] \in Nat
        /\ sends'[a] \in {sends[a], Bump(sends[a])}
        /\ sends'[a] # sends[a] => \E t \in Thread : Resend(t) /\ cur[t] = a
    BY <1>1, <2>1, SendsStep DEF EarnedInv
  <2> SUFFICES /\ alive' => sends'[a] <= lost'[ip] + OnAir(ip)'
               /\ alive' /\ heap'[a].due => sends'[a] <= lost'[ip]
               /\ alive' /\ (\A t \in Thread : At(t, a)') => sends'[a] <= lost'[ip]
               /\ (\E t \in Thread : At(t, a)') => sends'[a] <= lost'[ip] + 1
    BY <2>2 DEF AccountFor, Failed, OnAir
  <2>5. CASE heap[a] = Null
    <3>1. \A t \in Thread : Resend(t) => cur[t] # a
      BY <2>5 DEF Resend, InHandler
    <3>2. sends[a] = 0
      BY <1>1, <2>1, <2>5 DEF EarnedInv, CountEarned
    <3>3. sends'[a] = 0
      BY <2>4, <3>1, <3>2
    <3> QED BY <2>3, <3>3
  <2>6. CASE heap[a] # Null
    <3>1. a \in Requests
      BY <1>1, <2>6, QueuedBefore
    <3>2. heap[a].ip = ip
      <4>1. CASE KeepsRequests
        BY <2>1, <2>2, <2>6, <4>1 DEF KeepsRequests
      <4>2. CASE QueueReq
        BY <1>1, <2>1, <2>2, <2>6, <4>2, QueueReqEffect
      <4>3. CASE \E t \in Thread : Destroy(t)
        BY <1>1, <2>1, <2>2, <4>3, DestroyEffect
      <4> QED BY <1>1, <4>1, <4>2, <4>3, RequestsKept
    <3>3. /\ alive => sends[a] <= lost[ip] + OnAir(ip)
          /\ alive /\ heap[a].due => sends[a] <= lost[ip]
          /\ alive /\ (\A t \in Thread : At(t, a)) => sends[a] <= lost[ip]
          /\ (\E t \in Thread : At(t, a)) => sends[a] <= lost[ip] + 1
      BY <3>1, <3>2 DEF AccountInv, Account, AccountFor, Failed
    <3>4. alive' => alive
      BY AliveBefore
    <3>5. ASSUME NEW t \in Thread, At(t, a)'
          PROVE  At(t, a) \/ (alive /\ heap[a].due)
      BY <1>1, <3>5, AtBefore DEF CheckSent, InHandler
    <3>6. CASE \A t \in Thread : Resend(t) => cur[t] # a
      <4>1. sends'[a] = sends[a]
        BY <2>4, <3>6
      <4>2. alive' /\ heap'[a].due => sends[a] <= lost[ip]
        <5>1. heap'[a].due => heap[a].due \/ ~Runs
          BY <1>1, <2>1, <2>6, <3>6, DueBefore
        <5>2. alive /\ ~Runs => sends[a] <= lost[ip]
          BY <2>3, <2>4, <3>3
        <5> QED BY <3>3, <3>4, <5>1, <5>2
      <4>3. alive' => sends[a] <= lost[ip] + OnAir(ip)'
        BY <2>3, <2>4, <3>3, <3>4
      <4>4. alive' /\ (\A t \in Thread : At(t, a)') => sends[a] <= lost[ip]
        BY <3>3, <3>4, <3>5
      <4>5. (\E t \in Thread : At(t, a)') => sends[a] <= lost[ip] + 1
        <5>1. alive /\ heap[a].due => sends[a] <= lost[ip] + 1
          BY <2>3, <2>4, <3>3
        <5> QED BY <3>3, <3>5, <5>1
      <4> QED BY <2>3, <4>1, <4>2, <4>3, <4>4, <4>5
    <3>7. CASE \E u \in Thread : Resend(u) /\ cur[u] = a
      <4>1. PICK u \in Thread : Resend(u) /\ cur[u] = a
        BY <3>7
      <4>2. alive /\ pc[u] = "resend" /\ pc'[u] = "count"
            /\ (\A t \in Thread : t # u => pc'[t] = pc[t]) /\ cur' = cur
        BY <1>1, <4>1 DEF Resend, InHandler, Inv, TypeOK
      <4>3. ~stale[u]
        BY <1>1, <4>2 DEF Fresh
      <4>4. ~heap'[a].due
        <5>1. heap[a] \in Request /\ heap'[a] = [heap[a] EXCEPT !.due = stale[u]]
          BY <1>1, <2>1, <2>6, <4>1 DEF Resend, Inv, TypeOK
        <5>2. heap'[a].due = stale[u]
          BY <5>1 DEF Request
        <5> QED BY <4>3, <5>2
      <4>5. ~At(u, a)' /\ At(u, a)
        BY <4>1, <4>2 DEF At
      <4>6. sends'[a] <= sends[a] + 1
        BY <2>4 DEF Bump
      <4>7. OnAir(ip)' >= OnAir(ip) + 1
        BY <3>2, <4>1
      <4>8. alive' => sends'[a] <= lost[ip] + OnAir(ip)'
        BY <2>3, <2>4, <3>3, <3>4, <4>6, <4>7
      <4>9. ASSUME NEW t \in Thread, At(t, a)'
            PROVE  sends'[a] <= lost[ip] + 1
        <5>1. t # u /\ At(t, a)
          BY <4>2, <4>5, <4>9 DEF At
        <5>2. \A v \in Thread : At(v, a)
          BY <4>5, <5>1 DEF Thread
        <5>3. sends[a] <= lost[ip]
          BY <3>3, <4>2, <5>2
        <5> QED BY <2>3, <2>4, <4>6, <5>3
      <4> QED BY <2>3, <4>4, <4>5, <4>8, <4>9
    <3> QED BY <3>6, <3>7
  <2> QED BY <2>5, <2>6
<1> QED BY <1>2, <1>3 DEF Account

(* A frame that is answered or lost. *)
LEMMA AccountAir ==
    ASSUME AccountInv, UNCHANGED <<vars, sends>>, AirInv',
           \A ip \in IP : (\E a \in ReqAddr : heap[a] # Null /\ heap[a].ip = ip) =>
               /\ lost'[ip] >= lost[ip]
               /\ lost'[ip] + OnAir(ip)' >= lost[ip] + OnAir(ip) \/ lost'[ip] >= MaxCount
    PROVE  Fresh' /\ Account'
<1>1. UNCHANGED <<requests, heap, pc, cur, stale, alive, sends>>
  BY DEF vars
<1>2. Fresh'
  BY <1>1 DEF AccountInv, Fresh
<1>3. ASSUME NEW a \in Requests
      PROVE  AccountFor(a)'
  <2>1. a \in ReqAddr /\ heap[a] # Null /\ heap[a].ip \in IP
    BY QueuedType DEF AccountInv, AirInv, RouterInv
  <2>2. PICK ip \in IP : ip = heap[a].ip
    BY <2>1
  <2>3. OnAir(ip)' \in Nat /\ lost'[ip] \in Nat
    <3>1. Copies(RequestFor(ip), air') \in Nat /\ Copies(ReplyFrom(ip), air') \in Nat
      BY CopiesNat DEF AirInv, AirSound
    <3>2. lost'[ip] \in Nat
      BY MaxCountAssumption DEF AirInv, LostType
    <3> QED BY <3>1, <3>2 DEF OnAir, Copies, RequestFor, ReplyFrom
  <2>4. OnAir(ip) \in Nat /\ lost[ip] \in Nat
    BY AirNat DEF AccountInv
  <2>5. sends[a] \in Nat /\ sends[a] <= MaxCount /\ MaxCount \in Nat
    BY <2>1, MaxCountAssumption DEF AccountInv, AirInv, RouterInv, EarnedInv, SendsType
  <2>6. /\ lost'[ip] >= lost[ip]
        /\ lost'[ip] + OnAir(ip)' >= lost[ip] + OnAir(ip) \/ lost'[ip] >= MaxCount
    BY <2>1, <2>2
  <2>7. /\ alive => sends[a] <= lost[ip] + OnAir(ip)
        /\ alive /\ heap[a].due => sends[a] <= lost[ip]
        /\ alive /\ (\A t \in Thread : At(t, a)) => sends[a] <= lost[ip]
        /\ (\E t \in Thread : At(t, a)) => sends[a] <= lost[ip] + 1
    BY <2>2 DEF AccountInv, Account, AccountFor, Failed
  <2>8. \A n \in Nat : sends[a] <= lost[ip] + n => sends[a] <= lost'[ip] + n
    BY <2>3, <2>4, <2>5, <2>6
  <2>9. sends[a] <= lost[ip] => sends[a] <= lost'[ip]
    BY <2>3, <2>4, <2>5, <2>6
  <2>10. alive => sends[a] <= lost'[ip] + OnAir(ip)'
    BY <2>3, <2>4, <2>5, <2>6, <2>7
  <2>11. \A t \in Thread : At(t, a)' <=> At(t, a)
    BY <1>1 DEF At
  <2>12. (\E t \in Thread : At(t, a)) => sends[a] <= lost'[ip] + 1
    BY <2>7, <2>8
  <2>13. /\ alive' => sends'[a] <= lost'[ip] + OnAir(ip)'
         /\ alive' /\ heap'[a].due => sends'[a] <= lost'[ip]
         /\ alive' /\ (\A t \in Thread : At(t, a)') => sends'[a] <= lost'[ip]
         /\ (\E t \in Thread : At(t, a)') => sends'[a] <= lost'[ip] + 1
    BY <1>1, <2>7, <2>9, <2>10, <2>11, <2>12
  <2> QED BY <1>1, <2>2, <2>13 DEF AccountFor, Failed, OnAir
<1>4. Requests' = Requests
  BY <1>1 DEF Requests
<1> QED BY <1>2, <1>3, <1>4 DEF Account

(* Queued addresses keep their count of losses. *)
LEMMA LossesKept ==
    ASSUME NEW new, Losses(new), NEW ip \in IP, NEW a \in ReqAddr,
           heap'[a] # Null, heap'[a].ip = ip
    PROVE  lost'[ip] = new[ip]
BY DEF Losses

(* What the router asks is on the air. *)
LEMMA AccountRouter ==
    ASSUME AccountInv, AirInv', RouterStep
    PROVE  Fresh' /\ Account'
<1> DEFINE S == {ArpRequest(heap[a]) :
                   a \in {b \in ReqAddr : \E t \in Thread : Broadcasts(t, b)}}
<1>1. /\ air' = air (+) SetToBag(S) /\ IsABag(air)
      /\ StepWith(AnyReply) /\ Runs /\ CountsSends /\ Losses(lost)
      /\ Inv /\ QueuedForHop
  BY DEF RouterStep, Send, StepWith, Runs, CountsSends, AccountInv, AirInv, AirSound,
         RouterInv, HopInv
<1>2. ASSUME NEW t \in Thread, Resend(t)
      PROVE  RequestFor(heap[cur[t]].ip) \in S
  <2>1. cur[t] \in ReqAddr /\ Broadcasts(t, cur[t])
    BY <1>1, <1>2, ResendBroadcasts DEF Resend, InHandler, Inv, ArgsGiven, HandlerPC
  <2>2. ArpRequest(heap[cur[t]]) \in S
    BY <2>1
  <2>3. ArpRequest(heap[cur[t]]) = RequestFor(heap[cur[t]].ip)
    BY <1>1, <1>2, RequestIsFor
  <2> HIDE DEF S
  <2> QED BY <2>2, <2>3
<1> HIDE DEF S
<1>3. ASSUME NEW ip \in IP
      PROVE  /\ OnAir(ip) \in Nat /\ OnAir(ip)' >= OnAir(ip)
             /\ RequestFor(ip) \in S => OnAir(ip)' >= OnAir(ip) + 1
  <2>1. /\ Copies(RequestFor(ip), air') =
             Copies(RequestFor(ip), air) + (IF RequestFor(ip) \in S THEN 1 ELSE 0)
        /\ Copies(ReplyFrom(ip), air') =
             Copies(ReplyFrom(ip), air) + (IF ReplyFrom(ip) \in S THEN 1 ELSE 0)
    BY <1>1, BagAdd
  <2>2. Copies(RequestFor(ip), air) \in Nat /\ Copies(ReplyFrom(ip), air) \in Nat
    BY <1>1, CopiesNat
  <2>3. OnAir(ip)' = Copies(RequestFor(ip), air') + Copies(ReplyFrom(ip), air')
    BY DEF OnAir, Copies, RequestFor, ReplyFrom
  <2>4. OnAir(ip) = Copies(RequestFor(ip), air) + Copies(ReplyFrom(ip), air)
    BY DEF OnAir
  <2> QED BY <2>1, <2>2, <2>3, <2>4
<1>4. \A ip \in IP : (\E a \in ReqAddr : heap'[a] # Null /\ heap'[a].ip = ip)
                     => lost'[ip] = lost[ip]
  BY <1>1, LossesKept
<1> QED BY <1>1, <1>2, <1>3, <1>4, AccountMoves

(* An answer that comes back ends the account of the request that it is for. *)
LEMMA AccountReply ==
    ASSUME AccountInv, AirInv', ReceiveReply
    PROVE  Fresh' /\ Account'
<1>1. PICK f \in BagToSet(air) :
        /\ f.op = "reply"
        /\ Insert([ip |-> f.sip, mac |-> f.sha, iface |-> f.link])
        /\ air' = air (-) SetToBag({f})
        /\ CountsSends /\ Losses(lost)
  BY DEF ReceiveReply, CountsSends
<1>2. PICK from \in IP : f = ReplyFrom(from)
  <2>1. \A ip \in IP : f # RequestFor(ip)
    BY <1>1, FramesDiffer
  <2> QED BY <2>1 DEF AccountInv, AirInv, AirSound
<1>3. PICK r \in AnyReply : r = [ip |-> f.sip, mac |-> f.sha, iface |-> f.link]
  <2>1. f.sip \in IP /\ f.sha \in Mac /\ f.link \in Iface
    BY <1>2, FramesDiffer, LinkAssumption
  <2>2. [ip |-> f.sip, mac |-> f.sha, iface |-> f.link] \in AnyReply
    BY <2>1 DEF AnyReply
  <2> QED BY <2>2
<1>4. r.ip = from /\ Insert(r) /\ StepWith(AnyReply) /\ Runs /\ Inv
  BY <1>1, <1>2, <1>3, FramesDiffer DEF StepWith, Runs, AccountInv, AirInv, RouterInv
<1>5. \A t \in Thread : ~Resend(t)
  <2>1. pc' = pc \/ pc' = [pc EXCEPT !["main"] = "reply"]
    BY <1>4 DEF Insert
  <2>2. pc["main"] = "idle" /\ pc["timeout"] = "sleep"
    BY <1>4, MainLocked DEF Insert
  <2> QED BY <2>2 DEF Resend, InHandler, Thread
<1>6. ASSUME NEW ip \in IP, ip # from
      PROVE  OnAir(ip)' = OnAir(ip)
  <2>1. RequestFor(ip) # f /\ ReplyFrom(ip) # f
    BY <1>2, <1>6, FramesDiffer
  <2>2. /\ Copies(RequestFor(ip), air') = Copies(RequestFor(ip), air)
        /\ Copies(ReplyFrom(ip), air') = Copies(ReplyFrom(ip), air)
    BY <1>1, <2>1, BagTake DEF AccountInv, AirInv, AirSound
  <2>3. OnAir(ip)' = Copies(RequestFor(ip), air') + Copies(ReplyFrom(ip), air')
    BY DEF OnAir, Copies, RequestFor, ReplyFrom
  <2> QED BY <2>2, <2>3 DEF OnAir
<1>7. \A a \in Requests' : \A ip \in IP : ip = heap'[a].ip => OnAir(ip)' >= OnAir(ip)
  <2> SUFFICES ASSUME NEW a \in Requests', NEW ip \in IP, ip = heap'[a].ip
              PROVE  OnAir(ip)' >= OnAir(ip)
    OBVIOUS
  <2>1. heap' = heap
    BY <1>4 DEF Insert
  <2>2. ip # from
    BY <1>4, <2>1, InsertTakes
  <2>3. OnAir(ip) \in Nat
    BY AirNat DEF AccountInv
  <2> QED BY <1>6, <2>2, <2>3
<1>8. \A ip \in IP : (\E a \in ReqAddr : heap'[a] # Null /\ heap'[a].ip = ip)
                     => lost'[ip] = lost[ip]
  BY <1>1, LossesKept
<1> QED BY <1>1, <1>4, <1>5, <1>7, <1>8, AccountMoves

(* A question becomes its answer. *)
LEMMA AccountAnswer ==
    ASSUME AccountInv, AirInv', StationsAnswer
    PROVE  Fresh' /\ Account'
<1>1. PICK f \in BagToSet(air) :
        /\ f.op = "request"
        /\ air' = (air (-) SetToBag({f}))
              (+) SetToBag({ArpReply(f, ip) : ip \in {s \in IP : ForStation(f, s)}})
  BY DEF StationsAnswer
<1>2. PICK about \in IP : f = RequestFor(about)
  <2>1. \A ip \in IP : f # ReplyFrom(ip)
    BY <1>1, FramesDiffer
  <2> QED BY <2>1 DEF AccountInv, AirInv, AirSound
<1> DEFINE B == air (-) SetToBag({f})
<1>3. air' = B (+) SetToBag({ReplyFrom(about)})
  BY <1>1, <1>2, AnswersAre
<1>4. /\ IsABag(B) /\ Copies(f, air) \in Nat /\ Copies(f, air) > 0
      /\ Copies(f, B) = Copies(f, air) - 1
      /\ \A e : e # f => Copies(e, B) = Copies(e, air)
  BY BagTake DEF AccountInv, AirInv, AirSound
<1> HIDE DEF B
<1>5. \A e : Copies(e, air') = Copies(e, B) + (IF e \in {ReplyFrom(about)} THEN 1 ELSE 0)
  BY <1>3, <1>4, BagAdd
<1>6. ASSUME NEW ip \in IP
      PROVE  OnAir(ip)' = OnAir(ip) /\ OnAir(ip) \in Nat /\ lost[ip] \in Nat
  <2>1. OnAir(ip)' = Copies(RequestFor(ip), air') + Copies(ReplyFrom(ip), air')
    BY DEF OnAir, Copies, RequestFor, ReplyFrom
  <2>2. OnAir(ip) = Copies(RequestFor(ip), air) + Copies(ReplyFrom(ip), air)
    BY DEF OnAir
  <2>3. Copies(RequestFor(ip), air) \in Nat /\ Copies(ReplyFrom(ip), air) \in Nat
    BY CopiesNat DEF AccountInv, AirInv, AirSound
  <2>4. /\ RequestFor(ip) # ReplyFrom(about) /\ ReplyFrom(ip) # f
        /\ RequestFor(ip) = f <=> ip = about
        /\ ReplyFrom(ip) = ReplyFrom(about) <=> ip = about
    BY <1>2, FramesDiffer
  <2>5. /\ Copies(RequestFor(ip), air') = Copies(RequestFor(ip), B)
        /\ Copies(ReplyFrom(ip), B) = Copies(ReplyFrom(ip), air)
    BY <1>4, <1>5, <2>3, <2>4
  <2>6. CASE ip = about
    <3>1. /\ Copies(RequestFor(ip), B) = Copies(RequestFor(ip), air) - 1
          /\ Copies(ReplyFrom(ip), air') = Copies(ReplyFrom(ip), air) + 1
      BY <1>4, <1>5, <2>4, <2>5, <2>6
    <3>2. OnAir(ip)' = OnAir(ip)
      BY <2>1, <2>2, <2>3, <2>5, <3>1
    <3> QED BY <3>2, AirNat DEF AccountInv
  <2>7. CASE ip # about
    <3>1. /\ Copies(RequestFor(ip), B) = Copies(RequestFor(ip), air)
          /\ Copies(ReplyFrom(ip), air') = Copies(ReplyFrom(ip), air)
      BY <1>4, <1>5, <2>3, <2>4, <2>5, <2>7
    <3>2. OnAir(ip)' = OnAir(ip)
      BY <2>1, <2>2, <2>5, <3>1
    <3> QED BY <3>2, AirNat DEF AccountInv
  <2> QED BY <2>6, <2>7
<1>7. UNCHANGED <<vars, sends>> /\ lost' = lost
  BY DEF StationsAnswer, histVars
<1>8. \A ip \in IP : lost'[ip] >= lost[ip] /\ lost'[ip] + OnAir(ip)' >= lost[ip] + OnAir(ip)
  <2> SUFFICES ASSUME NEW ip \in IP
              PROVE  lost'[ip] >= lost[ip] /\ lost'[ip] + OnAir(ip)' >= lost[ip] + OnAir(ip)
    OBVIOUS
  <2> QED BY <1>6, <1>7
<1> QED BY <1>7, <1>8, AccountAir

(* A frame moves from what is on its way to what is lost. *)
LEMMA AccountLose ==
    ASSUME AccountInv, AirInv', Lose
    PROVE  Fresh' /\ Account'
<1>1. PICK f \in BagToSet(air) :
        /\ air' = air (-) SetToBag({f})
        /\ Losses([lost EXCEPT ![About(f)] = Bump(@)])
  BY DEF Lose
<1>2. PICK about \in IP : f = RequestFor(about) \/ f = ReplyFrom(about)
  BY DEF AccountInv, AirInv, AirSound
<1>3. About(f) = about
  BY <1>2, AboutWhom
<1>4. UNCHANGED <<vars, sends>>
  BY DEF Lose, histVars
<1>5. ASSUME NEW ip \in IP, NEW a \in ReqAddr, heap[a] # Null, heap[a].ip = ip
      PROVE  /\ lost'[ip] >= lost[ip]
             /\ lost'[ip] + OnAir(ip)' >= lost[ip] + OnAir(ip) \/ lost'[ip] >= MaxCount
  <2>1. lost'[ip] = IF ip = about THEN Bump(lost[ip]) ELSE lost[ip]
    <3>1. heap'[a] # Null /\ heap'[a].ip = ip
      BY <1>4, <1>5 DEF vars
    <3>2. lost'[ip] = [lost EXCEPT ![about] = Bump(@)][ip]
      BY <1>1, <1>3, <3>1, LossesKept
    <3> QED BY <3>2 DEF AccountInv, AirInv, LostType
  <2>2. OnAir(ip)' = Copies(RequestFor(ip), air') + Copies(ReplyFrom(ip), air')
    BY DEF OnAir, Copies, RequestFor, ReplyFrom
  <2>3. /\ OnAir(ip) = Copies(RequestFor(ip), air) + Copies(ReplyFrom(ip), air)
        /\ Copies(RequestFor(ip), air) \in Nat /\ Copies(ReplyFrom(ip), air) \in Nat
    BY CopiesNat DEF OnAir, AccountInv, AirInv, AirSound
  <2>4. /\ Copies(f, air) > 0 /\ Copies(f, air') = Copies(f, air) - 1
        /\ \A e : e # f => Copies(e, air') = Copies(e, air)
    BY <1>1, BagTake DEF AccountInv, AirInv, AirSound
  <2>5. lost[ip] \in Nat /\ MaxCount \in Nat
    BY AirNat, MaxCountAssumption DEF AccountInv
  <2>6. CASE ip # about
    <3>1. RequestFor(ip) # f /\ ReplyFrom(ip) # f
      BY <1>2, <2>6, FramesDiffer
    <3>2. OnAir(ip)' = OnAir(ip) /\ lost'[ip] = lost[ip]
      BY <2>1, <2>2, <2>3, <2>4, <2>6, <3>1
    <3>3. OnAir(ip) \in Nat
      BY AirNat DEF AccountInv
    <3> QED BY <2>5, <3>2, <3>3
  <2>7. CASE ip = about
    <3>1. OnAir(ip)' = OnAir(ip) - 1
      <4>1. CASE f = RequestFor(ip)
        <5>1. ReplyFrom(ip) # f
          BY <4>1, FramesDiffer
        <5> QED BY <2>2, <2>3, <2>4, <4>1, <5>1
      <4>2. CASE f = ReplyFrom(ip)
        <5>1. RequestFor(ip) # f
          BY <4>2, FramesDiffer
        <5> QED BY <2>2, <2>3, <2>4, <4>2, <5>1
      <4> QED BY <1>2, <2>7, <4>1, <4>2
    <3>2. OnAir(ip) \in Nat
      BY AirNat DEF AccountInv
    <3>3. lost'[ip] = IF lost[ip] < MaxCount THEN lost[ip] + 1 ELSE lost[ip]
      BY <2>1, <2>7 DEF Bump
    <3> QED BY <2>5, <3>1, <3>2, <3>3
  <2> QED BY <2>6, <2>7
<1> QED BY <1>4, <1>5, AccountAir

(* A second begins when nothing is on its way. *)
LEMMA AccountTick ==
    ASSUME AccountInv, AirInv', LinkTick
    PROVE  Fresh' /\ Account'
<1>1. Tick /\ UNCHANGED <<air, lost>> /\ (Quiet \/ ~alive)
  BY DEF LinkTick
<1>2. CASE UNCHANGED <<vars, sends>>
  <2>1. \A ip \in IP : lost'[ip] >= lost[ip] /\ lost'[ip] + OnAir(ip)' >= lost[ip] + OnAir(ip)
    <3> SUFFICES ASSUME NEW ip \in IP
                PROVE  lost'[ip] >= lost[ip] /\ lost'[ip] + OnAir(ip)' >= lost[ip] + OnAir(ip)
      OBVIOUS
    <3>1. OnAir(ip)' = OnAir(ip)
      BY <1>1 DEF OnAir, Copies, RequestFor, ReplyFrom
    <3>2. OnAir(ip) \in Nat /\ lost[ip] \in Nat
      BY AirNat DEF AccountInv
    <3> QED BY <1>1, <3>1, <3>2
  <2> QED BY <1>2, <2>1, AccountAir
<1>3. CASE StepWith(AnyReply) /\ CountsSends
  <2>1. \A t \in Thread : ~Resend(t)
    <3>1. pc' = pc
      BY <1>1 DEF Tick
    <3> QED BY <3>1 DEF Resend, InHandler, AccountInv, AirInv, RouterInv, Inv, TypeOK
  <2>2. \A ip \in IP : OnAir(ip)' >= OnAir(ip)
    <3> SUFFICES ASSUME NEW ip \in IP PROVE OnAir(ip)' >= OnAir(ip)
      OBVIOUS
    <3>1. OnAir(ip)' = OnAir(ip)
      BY <1>1 DEF OnAir, Copies, RequestFor, ReplyFrom
    <3>2. OnAir(ip) \in Nat
      BY AirNat DEF AccountInv
    <3> QED BY <3>1, <3>2
  <2>3. Quiet => \A ip \in IP : OnAir(ip) = 0
    <3> SUFFICES ASSUME Quiet, NEW ip \in IP PROVE OnAir(ip) = 0
      OBVIOUS
    <3>1. BagToSet(air) = {}
      BY DEF Quiet, EmptyBag, SetToBag, BagToSet
    <3> QED BY <3>1 DEF OnAir, Copies
  <2>4. ~alive \/ (pc["main"] = "idle" /\ pc["timeout"] = "sleep"
                   /\ \A ip \in IP : OnAir(ip) = 0)
    BY <1>1, <2>3 DEF Quiet
  <2> QED BY <1>1, <1>3, <2>1, <2>2, <2>4, AccountMoves
<1>4. LinkNext /\ RouterInv /\ AirSound
  BY DEF LinkNext, AccountInv, AirInv
<1> QED BY <1>2, <1>3, <1>4, LinkMoves

(* The account is balanced all along. *)
LEMMA AccountNext == AccountInv /\ [LinkNext]_linkVars => AccountInv'
<1> SUFFICES ASSUME AccountInv, [LinkNext]_linkVars PROVE AccountInv'
  OBVIOUS
<1>1. AirInv'
  BY AirNext DEF AccountInv
<1>2. CASE LinkNext
  BY <1>1, <1>2, AccountRouter, AccountReply, AccountAnswer, AccountLose, AccountTick
  DEF LinkNext, AccountInv
<1>3. CASE UNCHANGED linkVars
  <2>1. UNCHANGED <<vars, sends>> /\ UNCHANGED <<air, lost>>
    BY <1>3 DEF linkVars, histVars
  <2>2. \A ip \in IP : lost'[ip] >= lost[ip] /\ lost'[ip] + OnAir(ip)' >= lost[ip] + OnAir(ip)
    <3> SUFFICES ASSUME NEW ip \in IP
                PROVE  lost'[ip] >= lost[ip] /\ lost'[ip] + OnAir(ip)' >= lost[ip] + OnAir(ip)
      OBVIOUS
    <3>1. OnAir(ip)' = OnAir(ip)
      BY <2>1 DEF OnAir, Copies, RequestFor, ReplyFrom
    <3>2. OnAir(ip) \in Nat /\ lost[ip] \in Nat
      BY AirNat DEF AccountInv
    <3> QED BY <2>1, <3>1, <3>2
  <2> QED BY <1>1, <2>1, <2>2, AccountAir DEF AccountInv
<1> QED BY <1>2, <1>3

(* UnreachableMeansLost for any number of stations, retries and frames: when the  *)
(* router gives up on a station, at least MaxSends - 1 of its exchanges with the  *)
(* station were lost on the link, although main and the sweep both send requests. *)
THEOREM UnreachableOnlyAfterLoss == LinkSpec => []UnreachableMeansLost
<1>1. LinkInit => AccountInv
  <2> SUFFICES ASSUME LinkInit PROVE AccountInv
    OBVIOUS
  <2>1. Fresh
    BY DEF LinkInit, HistInit, Init, Fresh, Thread
  <2>2. Requests = {}
    BY DEF LinkInit, HistInit, Init, Requests
  <2> QED BY <2>1, <2>2, AirInit DEF AccountInv, Account
<1>2. AccountInv => UnreachableMeansLost
  <2> SUFFICES ASSUME AccountInv, NEW t \in Thread, pc[t] = "giveup", heap[cur[t]] # Null
              PROVE  lost[heap[cur[t]].ip] >= MaxSends - 1
    BY DEF UnreachableMeansLost
  <2>1. /\ cur[t] \in ReqAddr /\ heap[cur[t]] \in Request /\ cur[t] \in Requests
    BY HandlerQueued DEF AccountInv, AirInv, RouterInv, HandlerPC
  <2>2. PICK a \in Requests : a = cur[t]
    BY <2>1
  <2>3. sends[a] >= MaxSends /\ sends[a] \in 0 .. MaxCount
    BY <2>1, <2>2 DEF AccountInv, AirInv, RouterInv, EarnedInv, SendsType, UnreachableEarned
  <2>4. sends[a] <= lost[heap[a].ip] + 1
    BY <2>2 DEF AccountInv, Account, AccountFor, At, Failed
  <2>5. lost[heap[a].ip] \in Nat
    BY <2>1, <2>2, AirNat DEF AccountInv, Request
  <2> QED BY <2>2, <2>3, <2>4, <2>5, NumAssumption, MaxCountAssumption
<1> QED BY <1>1, <1>2, AccountNext, PTL DEF LinkSpec

=============================================================================
