--------------------------- MODULE ArpCacheProofs ---------------------------
(***************************************************************************)
(* Proofs about ArpCache, for any number of packets, next hops, cache      *)
(* slots and retries.  The invariants are proved together: that a request  *)
(* main or the sweep reads is allocated needs the shape of the queue, and  *)
(* that needs to know who holds the lock.                                  *)
(***************************************************************************)
EXTENDS ArpCache, TLAPS, SequenceTheorems

\* The mutex is held exactly while the timeout thread is not asleep.
LockHeld ==
    /\ lock = "timeout" <=> pc["timeout"] # "sleep"
    /\ pc["timeout"] = "sleep" => rest = <<>>

\* What a thread works on is there: its packet, its reply's address, its
\* request.
ArgsGiven ==
    /\ pc["main"] = "hit" => arg.pkt \in Packet /\ arg.mac \in Mac
    /\ pc["main"] = "miss" => arg.pkt \in Packet
    /\ pc["main"] = "reply" => arg.mac \in Mac
    /\ \A t \in Thread :
         pc[t] \in HandlerPC \cup {"reply", "next"} => cur[t] \in ReqAddr

\* The inductive invariant.
Inv ==
    /\ TypeOK
    /\ LockHeld
    /\ ArgsGiven
    /\ QueueSound
    /\ NoRequestLeaked
    /\ SweepFollowsQueue

\* What an ARP reply may say; Replies are those that the network delivers.
AnyReply == [ip : IP, mac : Mac, iface : Iface]

\* A step of the router, or of its clock, when the network delivers the replies of A.
StepWith(A) ==
    \/ Tick
    \/ \E p \in Packet : Lookup(p)
    \/ \E r \in A : Insert(r)
    \/ MainStep
    \/ TimeoutStep

(* Null is never taken for a request, an entry or a thread. *)
LEMMA NullFacts ==
    /\ Null \notin Request /\ Null \notin ReqAddr
    /\ Null \notin Entry /\ Null # "timeout"
BY NullAssumption

(* The list without its i-th element is a list one shorter, in the same order. *)
LEMMA UnlinkProperties ==
    ASSUME NEW S, NEW s \in Seq(S), NEW i \in 1 .. Len(s)
    PROVE  /\ Unlink(s, i) \in Seq(S)
           /\ Len(Unlink(s, i)) = Len(s) - 1
           /\ \A j \in 1 .. Len(s) - 1 :
                Unlink(s, i)[j] = IF j < i THEN s[j] ELSE s[j + 1]
<1> DEFINE n == Len(s) - 1
           u == Unlink(s, i)
<1>1. n \in Nat
  OBVIOUS
<1>2. \A j \in 1 .. n : (IF j < i THEN s[j] ELSE s[j + 1]) \in S
  OBVIOUS
<1>3. u \in [1 .. n -> S]
  BY <1>1, <1>2 DEF Unlink
<1>4. u \in Seq(S) /\ Len(u) = n
  <2>1. u \in Seq(S)
    BY <1>1, <1>3, SeqDef
  <2>2. DOMAIN u = 1 .. n /\ DOMAIN u = 1 .. Len(u) /\ Len(u) \in Nat
    BY <1>3, <2>1, LenProperties
  <2> QED BY <1>1, <2>1, <2>2
<1> QED BY <1>4 DEF Unlink

(* Unlinking the i-th request removes it and no other. *)
LEMMA UnlinkElements ==
    ASSUME NEW S, NEW s \in Seq(S), NEW i \in 1 .. Len(s),
           \A j, k \in DOMAIN s : j # k => s[j] # s[k]
    PROVE  \A a : (\E j \in DOMAIN Unlink(s, i) : Unlink(s, i)[j] = a)
                  <=> (a # s[i] /\ \E j \in DOMAIN s : s[j] = a)
<1> DEFINE u == Unlink(s, i)
<1>1. /\ DOMAIN u = 1 .. Len(s) - 1 /\ DOMAIN s = 1 .. Len(s)
      /\ Len(s) \in Nat
      /\ \A j \in 1 .. Len(s) - 1 : u[j] = IF j < i THEN s[j] ELSE s[j + 1]
  BY UnlinkProperties DEF Unlink
<1> HIDE DEF u
<1>2. ASSUME NEW a, NEW j \in DOMAIN u, u[j] = a
      PROVE  a # s[i] /\ \E k \in DOMAIN s : s[k] = a
  <2>1. CASE j < i
    BY <2>1, <1>1, <1>2
  <2>2. CASE ~(j < i)
    <3>1. j + 1 \in DOMAIN s /\ j + 1 # i /\ s[j + 1] = a
      BY <2>2, <1>1, <1>2
    <3> QED BY <3>1
  <2> QED BY <2>1, <2>2
<1>3. ASSUME NEW a, a # s[i], NEW k \in DOMAIN s, s[k] = a
      PROVE  \E j \in DOMAIN u : u[j] = a
  <2>1. CASE k < i
    <3>1. k \in DOMAIN u /\ u[k] = a
      BY <2>1, <1>1, <1>3
    <3> QED BY <3>1
  <2>2. CASE ~(k < i)
    <3>1. k - 1 \in DOMAIN u /\ u[k - 1] = a
      BY <2>2, <1>1, <1>3
    <3> QED BY <3>1
  <2> QED BY <2>1, <2>2
<1> QED BY <1>2, <1>3 DEF u

-----------------------------------------------------------------------------
(* Steps that leave the queue alone keep its soundness, if every request       *)
(* stays what and where it is: allocated or free, for its ip, with packets.    *)
LEMMA QueueFrame ==
    ASSUME TypeOK, QueueSound, requests' = requests,
           \A a \in ReqAddr : heap[a] # Null =>
               /\ heap'[a] # Null
               /\ heap'[a].ip = heap[a].ip
               /\ heap[a].packets # <<>> => heap'[a].packets # <<>>
    PROVE  QueueSound'
<1>1. \A i \in DOMAIN requests : requests[i] \in ReqAddr
  BY DEF TypeOK
<1> QED BY <1>1 DEF QueueSound

(* The same for the leaks: main stays where it is with regard to a reply. *)
LEMMA LeakFrame ==
    ASSUME TypeOK, NoRequestLeaked, requests' = requests,
           \A a \in ReqAddr : heap'[a] = Null <=> heap[a] = Null,
           pc'["main"] = "reply" <=> pc["main"] = "reply",
           pc["main"] = "reply" => cur'["main"] = cur["main"]
    PROVE  NoRequestLeaked'
BY DEF NoRequestLeaked, Allocated, Requests, ReplyOwns

(* The same for the sweep: it does not move. *)
LEMMA SweepFrame ==
    ASSUME SweepFollowsQueue, requests' = requests, rest' = rest,
           pc'["timeout"] \in HandlerPC => pc["timeout"] \in HandlerPC,
           pc["timeout"] \in HandlerPC => cur'["timeout"] = cur["timeout"]
    PROVE  SweepFollowsQueue'
BY DEF SweepFollowsQueue

(* A thread in handle_arpreq, or main on the reply path, has an allocated       *)
(* request.                                                                     *)
LEMMA HandlerRequest ==
    ASSUME Inv, NEW t \in Thread, NEW l \in HandlerPC \cup {"reply"},
           InHandler(t, l)
    PROVE  cur[t] \in ReqAddr /\ heap[cur[t]] \in Request
BY DEF Inv, ArgsGiven, InHandler, TypeOK

(* Returning from the handler keeps the thread's variables in their types. *)
LEMMA ReturnTypes ==
    ASSUME TypeOK, NEW t \in Thread, pc[t] \in HandlerPC \cup {"reply"}, Return(t)
    PROVE  /\ pc' \in [Thread -> MainPC \cup TimeoutPC]
           /\ pc'["main"] \in MainPC /\ pc'["timeout"] \in TimeoutPC
           /\ cur' \in [Thread -> ReqAddr \cup {Null}]
           /\ stale' \in [Thread -> BOOLEAN]
           /\ reg' \in [Thread -> Nat]
           /\ pkts' \in [Thread -> Seq(Packet)]
           /\ arg' \in [pkt : Packet \cup {Null}, mac : Mac \cup {Null},
                         iface : Iface \cup {Null}]
           /\ pc'[t] \in {"idle", "next"}
           /\ t = "main" => pc'["main"] = "idle" /\ pc'["timeout"] = pc["timeout"]
                            /\ cur'["timeout"] = cur["timeout"]
           /\ t = "timeout" => pc'["timeout"] = "next" /\ pc'["main"] = pc["main"]
                            /\ cur' = cur /\ arg' = arg
BY DEF TypeOK, Return, Thread, MainPC, TimeoutPC, HandlerPC, NoArg

(* Time passes: nothing is allocated, freed or moved. *)
LEMMA TickStep ==
    ASSUME Inv, Tick
    PROVE  Inv'
<1> USE NullFacts, NumAssumption
<1>1. entries' \in [Slot -> Entry \cup {Null}]
  <2> SUFFICES ASSUME NEW i \in Slot PROVE entries'[i] \in Entry \cup {Null}
    BY DEF Tick
  <2>1. entries[i] \in Entry \cup {Null}
    BY DEF Inv, TypeOK
  <2>2. CASE entries[i] \in Entry /\ ~(entries[i].age > ArpcacheTO)
    <3>1. entries'[i] = [entries[i] EXCEPT !.age = @ + 1]
      BY <2>2 DEF Tick
    <3>2. entries[i].age \in 0 .. ArpcacheTO
      BY <2>2 DEF Entry
    <3> QED BY <2>2, <3>1, <3>2 DEF Entry
  <2>3. CASE ~(entries[i] \in Entry /\ ~(entries[i].age > ArpcacheTO))
    BY <2>1, <2>3 DEF Tick
  <2> QED BY <2>2, <2>3
<1>2. /\ heap' \in [ReqAddr -> Request \cup {Null}]
      /\ \A a \in ReqAddr : heap'[a] = Null <=> heap[a] = Null
      /\ \A a \in ReqAddr : heap[a] # Null =>
             heap'[a].ip = heap[a].ip /\ heap'[a].packets = heap[a].packets
  <2>1. \A a \in ReqAddr : heap[a] # Null =>
           /\ [heap[a] EXCEPT !.due = TRUE] \in Request
           /\ [heap[a] EXCEPT !.due = TRUE].ip = heap[a].ip
           /\ [heap[a] EXCEPT !.due = TRUE].packets = heap[a].packets
    <3> SUFFICES ASSUME NEW a \in ReqAddr, heap[a] \in Request
                PROVE  /\ [heap[a] EXCEPT !.due = TRUE] \in Request
                       /\ [heap[a] EXCEPT !.due = TRUE].ip = heap[a].ip
                       /\ [heap[a] EXCEPT !.due = TRUE].packets = heap[a].packets
      BY DEF Inv, TypeOK
    <3> QED BY DEF Request
  <2> QED BY <2>1 DEF Tick
<1>3. TypeOK'
  BY <1>1, <1>2 DEF Tick, Inv, TypeOK
<1>4. LockHeld' /\ ArgsGiven'
  BY DEF Tick, Inv, LockHeld, ArgsGiven
<1>5. QueueSound'
  BY <1>2, QueueFrame DEF Tick, Inv
<1>6. NoRequestLeaked'
  BY <1>2, LeakFrame DEF Tick, Inv
<1>7. SweepFollowsQueue'
  BY SweepFrame DEF Tick, Inv
<1> QED BY <1>3, <1>4, <1>5, <1>6, <1>7 DEF Inv

-----------------------------------------------------------------------------
(* handle_arpreq, in either thread. *)

(* A step that only moves thread t inside its handler, or out of it, keeps the *)
(* parts of Inv that are about places.                                         *)
LEMMA CheckStep ==
    ASSUME Inv, NEW t \in Thread, CheckSent(t) \/ CheckTries(t)
    PROVE  Inv'
<1>0. /\ pc[t] \in HandlerPC /\ cur[t] \in ReqAddr /\ heap[cur[t]] \in Request
      /\ UNCHANGED <<entries, requests, heap, lock, rest, slept, seen, outcome, alive>>
  BY HandlerRequest DEF CheckSent, CheckTries, InHandler, HandlerPC, cacheVars
<1>1. CASE Return(t)
  <2>1. TypeOK'
    BY <1>0, <1>1, ReturnTypes DEF Inv, TypeOK
  <2>2. LockHeld' /\ ArgsGiven' /\ (pc'["main"] = "reply" <=> pc["main"] = "reply")
        /\ (pc["main"] = "reply" => cur'["main"] = cur["main"])
        /\ (pc'["timeout"] \in HandlerPC => pc["timeout"] \in HandlerPC)
        /\ cur'["timeout"] = cur["timeout"]
    BY <1>0, <1>1, ReturnTypes
    DEF Inv, LockHeld, ArgsGiven, Thread, HandlerPC, Return, NoArg, TypeOK, MainPC
  <2>3. QueueSound' /\ NoRequestLeaked' /\ SweepFollowsQueue'
    BY <1>0, <2>2, QueueFrame, LeakFrame, SweepFrame DEF Inv
  <2> QED BY <2>1, <2>2, <2>3 DEF Inv
<1>2. CASE ~Return(t)
  <2>1. /\ pc' = [pc EXCEPT ![t] = "tries"] \/ pc' = [pc EXCEPT ![t] = "giveup"]
           \/ pc' = [pc EXCEPT ![t] = "resend"]
        /\ stale' \in [Thread -> BOOLEAN] /\ UNCHANGED <<cur, reg, arg>>
        /\ pkts' = pkts \/ pkts' = [pkts EXCEPT ![t] = heap[cur[t]].packets]
    BY <1>2 DEF CheckSent, CheckTries, Inv, TypeOK
  <2>2. heap[cur[t]].packets \in Seq(Packet)
    BY <1>0 DEF Request
  <2>3. TypeOK'
    BY <1>0, <2>1, <2>2 DEF Inv, TypeOK, Thread, MainPC, TimeoutPC, HandlerPC
  <2>4. /\ pc'[t] \in HandlerPC
        /\ \A u \in Thread : u # t => pc'[u] = pc[u]
    BY <2>1 DEF Inv, TypeOK, HandlerPC
  <2>5. LockHeld' /\ ArgsGiven' /\ (pc'["main"] = "reply" <=> pc["main"] = "reply")
        /\ (pc'["timeout"] \in HandlerPC <=> pc["timeout"] \in HandlerPC)
    BY <1>0, <2>1, <2>4 DEF Inv, LockHeld, ArgsGiven, Thread, HandlerPC
  <2>6. QueueSound' /\ NoRequestLeaked' /\ SweepFollowsQueue'
    BY <1>0, <2>1, <2>5, QueueFrame, LeakFrame, SweepFrame DEF Inv
  <2> QED BY <2>3, <2>5, <2>6 DEF Inv
<1> QED BY <1>1, <1>2

(* Sending an ARP request and counting it touches two fields of the request. *)
LEMMA SendStep ==
    ASSUME Inv, NEW t \in Thread, Resend(t) \/ CountSend(t)
    PROVE  Inv'
<1> USE NullFacts
<1>0. /\ pc[t] \in HandlerPC /\ cur[t] \in ReqAddr /\ heap[cur[t]] \in Request
      /\ UNCHANGED <<entries, requests, lock, rest, slept, seen, outcome, alive>>
  BY HandlerRequest DEF Resend, CountSend, InHandler, HandlerPC
<1>1. PICK q \in Request : /\ heap' = [heap EXCEPT ![cur[t]] = q]
                          /\ q.ip = heap[cur[t]].ip
                          /\ q.packets = heap[cur[t]].packets
  <2>1. CASE Resend(t)
    <3>1. stale[t] \in BOOLEAN
      BY DEF Inv, TypeOK
    <3>2. [heap[cur[t]] EXCEPT !.due = stale[t]] \in Request
      BY <1>0, <3>1 DEF Request
    <3> QED BY <1>0, <2>1, <3>2 DEF Resend, Request
  <2>2. CASE CountSend(t)
    <3>1. reg[t] + 1 \in Nat
      BY DEF Inv, TypeOK
    <3>2. [heap[cur[t]] EXCEPT !.times_sent = reg[t] + 1] \in Request
      BY <1>0, <3>1 DEF Request
    <3> QED BY <1>0, <2>2, <3>2 DEF CountSend, Request
  <2> QED BY <2>1, <2>2
<1>2. /\ heap' \in [ReqAddr -> Request \cup {Null}]
      /\ \A a \in ReqAddr : heap'[a] = Null <=> heap[a] = Null
      /\ \A a \in ReqAddr : heap[a] # Null =>
             heap'[a].ip = heap[a].ip /\ heap'[a].packets = heap[a].packets
  BY <1>0, <1>1 DEF Inv, TypeOK
<1>3. /\ TypeOK' /\ LockHeld' /\ ArgsGiven'
      /\ (pc'["main"] = "reply" <=> pc["main"] = "reply")
      /\ (pc["main"] = "reply" => cur'["main"] = cur["main"])
      /\ (pc'["timeout"] \in HandlerPC => pc["timeout"] \in HandlerPC)
      /\ cur'["timeout"] = cur["timeout"]
  <2>1. CASE Resend(t)
    <3>1. /\ pc' = [pc EXCEPT ![t] = "count"]
          /\ reg' = [reg EXCEPT ![t] = heap[cur[t]].times_sent]
          /\ UNCHANGED <<cur, stale, pkts, arg>>
      BY <2>1 DEF Resend
    <3>2. heap[cur[t]].times_sent \in Nat
      BY <1>0 DEF Request
    <3>3. TypeOK'
      BY <1>0, <1>2, <3>1, <3>2
      DEF Inv, TypeOK, Thread, MainPC, TimeoutPC, HandlerPC
    <3> QED BY <1>0, <3>1, <3>3 DEF Inv, LockHeld, ArgsGiven, Thread, HandlerPC, TypeOK
  <2>2. CASE CountSend(t)
    <3>1. Return(t)
      BY <2>2 DEF CountSend
    <3>2. TypeOK'
      BY <1>0, <1>2, <3>1, ReturnTypes DEF Inv, TypeOK
    <3> QED BY <1>0, <3>1, <3>2, ReturnTypes
            DEF Inv, LockHeld, ArgsGiven, Thread, HandlerPC, Return, NoArg, TypeOK, MainPC
  <2> QED BY <2>1, <2>2
<1>4. QueueSound' /\ NoRequestLeaked' /\ SweepFollowsQueue'
  BY <1>0, <1>2, <1>3, QueueFrame, LeakFrame, SweepFrame DEF Inv
<1> QED BY <1>3, <1>4 DEF Inv

(* Walking over the packets of a request, to refuse or to forward them, touches *)
(* neither the queue nor any request.                                           *)
LEMMA WalkStep ==
    ASSUME Inv, (\E t \in Thread : SendUnreachable(t)) \/ SendQueued
    PROVE  Inv'
<1>1. PICK t \in Thread, o \in Outcome :
        /\ pkts[t] # <<>>
        /\ Record(Head(pkts[t]), o)
        /\ pkts' = [pkts EXCEPT ![t] = Tail(@)]
        /\ UNCHANGED <<cacheVars, pc, cur, stale, reg, rest, slept, arg, seen, alive>>
  <2>1. CASE \E t \in Thread : SendUnreachable(t)
    <3>1. PICK t \in Thread : SendUnreachable(t)
      BY <2>1
    <3>2. Head(pkts[t]) \in Packet
      BY <3>1 DEF SendUnreachable, Inv, TypeOK
    <3>3. Unreachable(Head(pkts[t])) \in Outcome
      BY <3>2, FunAssumption DEF Unreachable, Outcome
    <3> QED BY <3>1, <3>3 DEF SendUnreachable
  <2>2. CASE SendQueued
    <3> DEFINE p == Head(pkts["main"])
    <3>1. p \in Packet /\ arg.mac \in Mac
      BY <2>2 DEF SendQueued, InHandler, Inv, TypeOK, ArgsGiven, Thread
    <3>2. Forwarded(p, arg.mac) \in Outcome /\ Dropped(p) \in Outcome
      BY <3>1, FunAssumption DEF Forwarded, Dropped, Outcome
    <3> QED BY <2>2, <3>2 DEF SendQueued, Thread
  <2> QED BY <2>1, <2>2
<1>2. Head(pkts[t]) \in Packet /\ Tail(pkts[t]) \in Seq(Packet)
  BY <1>1 DEF Inv, TypeOK
<1>3. outcome' \in [Packet -> Seq(Outcome)]
  <2> HIDE DEF Outcome
  <2> QED BY <1>1, <1>2 DEF Record, Inv, TypeOK
<1>4. pkts' \in [Thread -> Seq(Packet)]
  BY <1>1, <1>2 DEF Inv, TypeOK
<1>5. TypeOK'
  BY <1>1, <1>3, <1>4 DEF Inv, TypeOK, cacheVars
<1>6. LockHeld' /\ ArgsGiven'
  BY <1>1 DEF Inv, LockHeld, ArgsGiven, cacheVars
<1>7. QueueSound' /\ NoRequestLeaked' /\ SweepFollowsQueue'
  BY <1>1, QueueFrame, LeakFrame, SweepFrame DEF Inv, cacheVars
<1> QED BY <1>5, <1>6, <1>7 DEF Inv

(* In a sound queue no request is queued twice. *)
LEMMA QueueDistinct ==
    ASSUME QueueSound
    PROVE  \A j, k \in DOMAIN requests : j # k => requests[j] # requests[k]
BY DEF QueueSound

(* Unlinking keeps the queue sound, if only the unlinked request may change. *)
LEMMA UnlinkQueueSound ==
    ASSUME TypeOK, QueueSound, NEW i \in DOMAIN requests,
           requests' = Unlink(requests, i),
           \A a \in ReqAddr : a # requests[i] => heap'[a] = heap[a]
    PROVE  QueueSound'
<1>1. /\ DOMAIN requests = 1 .. Len(requests) /\ Len(requests) \in Nat
      /\ \A j \in DOMAIN requests : requests[j] \in ReqAddr
  BY DEF TypeOK
<1>2. /\ Len(requests') = Len(requests) - 1
      /\ DOMAIN requests' = 1 .. Len(requests) - 1
      /\ \A j \in 1 .. Len(requests) - 1 :
           requests'[j] = IF j < i THEN requests[j] ELSE requests[j + 1]
  BY <1>1, UnlinkProperties DEF TypeOK, Unlink
<1> DEFINE old(j) == IF j < i THEN j ELSE j + 1
<1>3. ASSUME NEW j \in DOMAIN requests'
      PROVE  /\ old(j) \in DOMAIN requests /\ requests'[j] = requests[old(j)]
             /\ heap'[requests'[j]] = heap[requests[old(j)]]
  <2>1. old(j) \in DOMAIN requests /\ old(j) # i /\ requests'[j] = requests[old(j)]
    BY <1>1, <1>2
  <2>2. requests[old(j)] # requests[i]
    BY <2>1, QueueDistinct
  <2> QED BY <1>1, <2>1, <2>2
<1>4. \A j, k \in DOMAIN requests' : j # k => old(j) # old(k)
  BY <1>1, <1>2
<1> HIDE DEF old
<1> QED BY <1>3, <1>4 DEF QueueSound

(* sr_arpreq_destroy: the request leaves the queue and the heap together. *)
LEMMA DestroyStep ==
    ASSUME Inv, NEW t \in Thread, Destroy(t)
    PROVE  Inv'
<1> USE NullFacts
<1>0. /\ pc[t] \in HandlerPC \cup {"reply"}
      /\ cur[t] \in ReqAddr /\ heap[cur[t]] \in Request /\ heap[cur[t]] # Null
      /\ heap' = [heap EXCEPT ![cur[t]] = Null]
      /\ Return(t)
      /\ UNCHANGED <<entries, lock, rest, slept, seen, outcome, alive>>
  BY HandlerRequest DEF Destroy, InHandler, HandlerPC
<1>1. /\ DOMAIN requests = 1 .. Len(requests) /\ Len(requests) \in Nat
      /\ requests \in Seq(ReqAddr) /\ heap \in [ReqAddr -> Request \cup {Null}]
  BY DEF Inv, TypeOK
<1>2. QueueSound' /\ requests' \in Seq(ReqAddr)
      /\ Requests' = Requests \ {cur[t]}
  <2>1. CASE \E i \in DOMAIN requests :
               requests[i] = cur[t] /\ requests' = Unlink(requests, i)
    <3>1. PICK i \in DOMAIN requests :
               requests[i] = cur[t] /\ requests' = Unlink(requests, i)
      BY <2>1
    <3>2. requests' \in Seq(ReqAddr)
      BY <1>1, <3>1, UnlinkProperties
    <3>3. QueueSound'
      BY <1>0, <1>1, <3>1, UnlinkQueueSound DEF Inv
    <3>4. Requests' = Requests \ {cur[t]}
      <4>1. \A j, k \in DOMAIN requests : j # k => requests[j] # requests[k]
        BY QueueDistinct DEF Inv
      <4>2. \A a : (\E j \in DOMAIN Unlink(requests, i) : Unlink(requests, i)[j] = a)
                  <=> (a # requests[i] /\ \E j \in DOMAIN requests : requests[j] = a)
        BY <1>1, <4>1, UnlinkElements
      <4>3. \A a : a \in Requests <=> \E j \in DOMAIN requests : requests[j] = a
        BY DEF Requests
      <4>4. \A a : a \in Requests' <=> \E j \in DOMAIN requests' : requests'[j] = a
        BY DEF Requests
      <4>5. \A a : a \in Requests' <=> a \in Requests /\ a # cur[t]
        BY <3>1, <4>2, <4>3, <4>4
      <4> QED BY <4>5
    <3> QED BY <3>2, <3>3, <3>4
  <2>2. CASE /\ \A j \in DOMAIN requests : requests[j] # cur[t]
             /\ requests' = requests
    <3>1. QueueSound'
      BY <1>0, <1>1, <2>2 DEF Inv, QueueSound
    <3> QED BY <1>1, <2>2, <3>1 DEF Requests
  <2> QED BY <2>1, <2>2 DEF Destroy
<1>3. TypeOK'
  BY <1>0, <1>1, <1>2, ReturnTypes DEF Inv, TypeOK
<1>4. LockHeld' /\ ArgsGiven'
  BY <1>0, ReturnTypes
  DEF Inv, LockHeld, ArgsGiven, Thread, HandlerPC, Return, NoArg, TypeOK, MainPC
<1>5. NoRequestLeaked'
  <2>1. /\ Allocated' = Allocated \ {cur[t]}
        /\ cur[t] \in Allocated
    BY <1>0, <1>1 DEF Allocated
  <2>2. CASE t = "main"
    BY <1>0, <1>2, <2>1, <2>2, ReturnTypes DEF Inv, NoRequestLeaked, ReplyOwns
  <2>3. CASE t = "timeout"
    <3>1. pc' = [pc EXCEPT !["timeout"] = "next"] /\ cur' = cur
      BY <1>0, <2>3 DEF Return
    <3>2. pc'["main"] = pc["main"]
      BY <3>1 DEF Inv, TypeOK, Thread
    <3>3. pc["timeout"] \in HandlerPC
      BY <1>0, <2>3 DEF Inv, TypeOK, TimeoutPC, HandlerPC
    <3>4. cur["timeout"] \in Requests
      <4>1. Len(requests) - Len(rest) \in 1 .. Len(requests)
        BY <3>3, <1>1 DEF Inv, SweepFollowsQueue, TypeOK
      <4> QED BY <4>1, <3>3, <1>1 DEF Inv, SweepFollowsQueue, Requests
    <3>5. ~ReplyOwns(cur["timeout"])
      BY <2>1, <2>3, <3>4 DEF Inv, NoRequestLeaked
    <3> QED BY <1>2, <2>1, <2>3, <3>1, <3>2, <3>5 DEF Inv, NoRequestLeaked, ReplyOwns
  <2> QED BY <2>2, <2>3 DEF Thread
<1>6. SweepFollowsQueue'
  <2>1. CASE t = "main"
    <3>1. lock = Null
      BY <2>1 DEF Destroy, CanLock, Inv, TypeOK
    <3>2. pc["timeout"] = "sleep" /\ rest = <<>>
      BY <3>1 DEF Inv, LockHeld
    <3>3. pc'["timeout"] = "sleep" /\ rest' = <<>>
      BY <1>0, <2>1, <3>2, ReturnTypes DEF Inv
    <3>4. Len(requests') \in Nat /\ Len(rest') = 0 /\ DOMAIN rest' = {}
      BY <1>2, <3>3
    <3> QED BY <3>3, <3>4 DEF SweepFollowsQueue, HandlerPC
  <2>2. CASE t = "timeout"
    <3> DEFINE n == Len(requests) - Len(rest)
    <3>1. pc["timeout"] \in HandlerPC /\ pc'["timeout"] = "next"
      BY <1>0, <2>2, ReturnTypes DEF Inv, TypeOK, TimeoutPC, HandlerPC
    <3>2. /\ n > 0 /\ n \in DOMAIN requests /\ requests[n] = cur["timeout"]
          /\ \A i \in DOMAIN rest : rest[i] = requests[n + i]
          /\ Len(rest) \in Nat /\ DOMAIN rest = 1 .. Len(rest)
      BY <1>1, <3>1 DEF Inv, SweepFollowsQueue, TypeOK
    <3>3. requests' = Unlink(requests, n)
      BY <2>2, <3>2, QueueDistinct DEF Destroy, Inv
    <3>4. /\ Len(requests') = Len(requests) - 1
          /\ \A j \in 1 .. Len(requests) - 1 :
               requests'[j] = IF j < n THEN requests[j] ELSE requests[j + 1]
      BY <1>1, <3>2, <3>3, UnlinkProperties
    <3>5. Len(requests') - Len(rest') = n - 1 /\ n \in Nat
      BY <1>0, <1>1, <3>2, <3>4
    <3>6. ASSUME NEW i \in DOMAIN rest'
          PROVE  rest'[i] = requests'[n - 1 + i]
      <4>1. i \in 1 .. Len(rest) /\ rest'[i] = requests[n + i]
        BY <1>0, <3>2
      <4>2. /\ n - 1 + i \in 1 .. Len(requests) - 1
            /\ ~(n - 1 + i < n) /\ n - 1 + i + 1 = n + i
        BY <1>1, <3>2, <4>1
      <4> QED BY <3>4, <4>1, <4>2
    <3> QED BY <3>1, <3>2, <3>5, <3>6 DEF SweepFollowsQueue, HandlerPC
  <2> QED BY <2>1, <2>2 DEF Thread
<1> QED BY <1>2, <1>3, <1>4, <1>5, <1>6 DEF Inv

(* A freed request in main's hands: the process dies or main gives it up. *)
LEMMA UseAfterFreeStep ==
    ASSUME Inv, NEW t \in Thread, UseAfterFree(t)
    PROVE  Inv'
<1>0. /\ pc[t] \in HandlerPC
      /\ UNCHANGED <<entries, requests, heap, lock, rest, slept, seen, outcome>>
  BY DEF UseAfterFree, cacheVars
<1>1. CASE Return(t) /\ alive' = alive
  <2>1. TypeOK'
    BY <1>0, <1>1, ReturnTypes DEF Inv, TypeOK
  <2>2. LockHeld' /\ ArgsGiven' /\ (pc'["main"] = "reply" <=> pc["main"] = "reply")
        /\ (pc["main"] = "reply" => cur'["main"] = cur["main"])
        /\ (pc'["timeout"] \in HandlerPC => pc["timeout"] \in HandlerPC)
        /\ cur'["timeout"] = cur["timeout"]
    BY <1>0, <1>1, ReturnTypes
    DEF Inv, LockHeld, ArgsGiven, Thread, HandlerPC, Return, NoArg, TypeOK, MainPC
  <2>3. QueueSound' /\ NoRequestLeaked' /\ SweepFollowsQueue'
    BY <1>0, <2>2, QueueFrame, LeakFrame, SweepFrame DEF Inv
  <2> QED BY <2>1, <2>2, <2>3 DEF Inv
<1>2. CASE alive' = FALSE /\ UNCHANGED <<pc, cur, stale, reg, pkts, arg>>
  <2>1. TypeOK' /\ LockHeld' /\ ArgsGiven'
    BY <1>0, <1>2 DEF Inv, TypeOK, LockHeld, ArgsGiven
  <2>2. QueueSound' /\ NoRequestLeaked' /\ SweepFollowsQueue'
    BY <1>0, <1>2, QueueFrame, LeakFrame, SweepFrame DEF Inv
  <2> QED BY <2>1, <2>2 DEF Inv
<1> QED BY <1>1, <1>2 DEF UseAfterFree

-----------------------------------------------------------------------------
(* The main thread. *)

(* Looking up and forwarding touch neither queue nor requests. *)
LEMMA LookupStep ==
    ASSUME Inv, (\E p \in Packet : Lookup(p)) \/ ForwardHit
    PROVE  Inv'
<1>1. CASE \E p \in Packet : Lookup(p)
  <2>1. PICK p \in Packet : Lookup(p)
    BY <1>1
  <2>2. /\ pc["main"] = "idle"
        /\ UNCHANGED <<entries, requests, heap, lock, cur, stale, reg, pkts, rest,
                       slept, outcome, alive>>
    BY <2>1 DEF Lookup, cacheVars, handlerVars
  <2>3. \/ /\ pc' = [pc EXCEPT !["main"] = "hit"]
           /\ \E m \in Mac : arg' = [NoArg EXCEPT !.pkt = p, !.mac = m]
        \/ /\ pc' = [pc EXCEPT !["main"] = "miss"]
           /\ arg' = [NoArg EXCEPT !.pkt = p]
    <3>1. \A j \in Hits(Gw[p]) : entries[j].mac \in Mac
      BY NullFacts DEF Hits, Inv, TypeOK, Entry
    <3> QED BY <2>1, <3>1 DEF Lookup
  <2>4. /\ arg' \in [pkt : Packet \cup {Null}, mac : Mac \cup {Null},
                     iface : Iface \cup {Null}]
        /\ arg'.pkt = p
        /\ pc'["main"] = "hit" => arg'.mac \in Mac
    BY <2>3 DEF NoArg, Inv, TypeOK, Thread
  <2>5. seen' \in SUBSET Packet
    BY <2>1 DEF Lookup, Inv, TypeOK
  <2>6. /\ pc' \in [Thread -> MainPC \cup TimeoutPC]
        /\ pc'["main"] \in {"hit", "miss"} /\ pc'["timeout"] = pc["timeout"]
    BY <2>3 DEF Inv, TypeOK, Thread, MainPC
  <2>7. TypeOK'
    BY <2>2, <2>4, <2>5, <2>6 DEF Inv, TypeOK, MainPC
  <2>8. LockHeld' /\ ArgsGiven'
    BY <2>2, <2>4, <2>6 DEF Inv, LockHeld, ArgsGiven, Thread, HandlerPC
  <2>9. QueueSound' /\ NoRequestLeaked' /\ SweepFollowsQueue'
    BY <2>2, <2>6, QueueFrame, LeakFrame, SweepFrame DEF Inv
  <2> QED BY <2>7, <2>8, <2>9 DEF Inv
<1>2. CASE ForwardHit
  <2>1. /\ pc["main"] = "hit" /\ pc' = [pc EXCEPT !["main"] = "idle"]
        /\ arg' = NoArg
        /\ UNCHANGED <<entries, requests, heap, lock, cur, stale, reg, pkts, rest,
                       slept, seen, alive>>
    BY <1>2 DEF ForwardHit, cacheVars, handlerVars
  <2>2. arg.pkt \in Packet /\ arg.mac \in Mac
    BY <2>1 DEF Inv, ArgsGiven
  <2>3. Forwarded(arg.pkt, arg.mac) \in Outcome
    BY <2>2, FunAssumption DEF Forwarded, Outcome
  <2>4. outcome' \in [Packet -> Seq(Outcome)]
    <3> HIDE DEF Outcome
    <3> QED BY <1>2, <2>2, <2>3 DEF ForwardHit, Record, Inv, TypeOK
  <2>5. /\ pc' \in [Thread -> MainPC \cup TimeoutPC]
        /\ pc'["main"] = "idle" /\ pc'["timeout"] = pc["timeout"]
    BY <2>1 DEF Inv, TypeOK, Thread, MainPC
  <2>6. TypeOK'
    BY <2>1, <2>4, <2>5 DEF Inv, TypeOK, MainPC, NoArg
  <2>7. LockHeld' /\ ArgsGiven'
    BY <2>1, <2>5 DEF Inv, LockHeld, ArgsGiven, Thread, HandlerPC
  <2>8. QueueSound' /\ NoRequestLeaked' /\ SweepFollowsQueue'
    BY <2>1, <2>5, QueueFrame, LeakFrame, SweepFrame DEF Inv
  <2> QED BY <2>6, <2>7, <2>8 DEF Inv
<1> QED BY <1>1, <1>2

(* When main has the lock the timeout thread is asleep and holds no pointer. *)
LEMMA MainLocked ==
    ASSUME Inv, CanLock("main")
    PROVE  pc["timeout"] = "sleep" /\ rest = <<>>
<1>1. lock = Null
  BY DEF Inv, CanLock, TypeOK
<1>2. lock # "timeout"
  BY <1>1, NullFacts
<1> QED BY <1>2 DEF Inv, LockHeld

(* Without a sweep SweepFollowsQueue asks nothing of the queue. *)
LEMMA NoSweep ==
    ASSUME requests' \in Seq(ReqAddr), rest' = <<>>, pc'["timeout"] = "sleep"
    PROVE  SweepFollowsQueue'
<1>1. Len(requests') \in Nat /\ Len(rest') = 0 /\ DOMAIN rest' = {}
  OBVIOUS
<1> QED BY <1>1 DEF SweepFollowsQueue, HandlerPC

(* sr_arpcache_queuereq: the packet joins the one request for its next hop, or *)
(* opens it.                                                                   *)
LEMMA QueueReqStep ==
    ASSUME Inv, QueueReq
    PROVE  Inv'
<1> USE NullFacts
<1>0. /\ pc["main"] = "miss" /\ CanLock("main") /\ arg.pkt \in Packet
      /\ pc' = [pc EXCEPT !["main"] = "check"] /\ arg' = NoArg
      /\ UNCHANGED <<entries, lock, stale, reg, pkts, rest, slept, seen, outcome, alive>>
  BY DEF QueueReq, Inv, ArgsGiven
<1>1. pc["timeout"] = "sleep" /\ rest = <<>>
  BY <1>0, MainLocked
<1>2. /\ requests \in Seq(ReqAddr) /\ heap \in [ReqAddr -> Request \cup {Null}]
      /\ DOMAIN requests = 1 .. Len(requests) /\ Len(requests) \in Nat
      /\ cur \in [Thread -> ReqAddr \cup {Null}]
      /\ Gw[arg.pkt] \in IP
  BY <1>0, FunAssumption DEF Inv, TypeOK
<1>3. /\ pc' \in [Thread -> MainPC \cup TimeoutPC]
      /\ pc'["main"] = "check" /\ pc'["timeout"] = "sleep"
  BY <1>0, <1>1 DEF Inv, TypeOK, Thread, MainPC, HandlerPC
<1>4. /\ requests' \in Seq(ReqAddr)
      /\ heap' \in [ReqAddr -> Request \cup {Null}]
      /\ QueueSound' /\ NoRequestLeaked'
      /\ \E a \in ReqAddr : cur' = [cur EXCEPT !["main"] = a]
  <2>1. CASE \E i \in DOMAIN requests :
            /\ heap' = [heap EXCEPT ![requests[i]] = AddPacket(@, arg.pkt)]
            /\ cur' = [cur EXCEPT !["main"] = requests[i]]
            /\ requests' = requests
    <3>1. PICK i \in DOMAIN requests :
            /\ heap' = [heap EXCEPT ![requests[i]] = AddPacket(@, arg.pkt)]
            /\ cur' = [cur EXCEPT !["main"] = requests[i]]
            /\ requests' = requests
      BY <2>1
    <3> DEFINE a == requests[i]
    <3>2. a \in ReqAddr /\ heap[a] # Null /\ heap[a] \in Request
      BY <1>2 DEF Inv, QueueSound
    <3>3. /\ AddPacket(heap[a], arg.pkt) \in Request
          /\ AddPacket(heap[a], arg.pkt).ip = heap[a].ip
          /\ AddPacket(heap[a], arg.pkt).packets # <<>>
      <4>1. heap[a].packets \in Seq(Packet)
        BY <3>2 DEF Request
      <4>2. /\ <<arg.pkt>> \o heap[a].packets \in Seq(Packet)
            /\ <<arg.pkt>> \o heap[a].packets # <<>>
        BY <4>1, <1>0
      <4> QED BY <3>2, <4>2 DEF AddPacket, Request
    <3>4. /\ heap' \in [ReqAddr -> Request \cup {Null}]
          /\ \A b \in ReqAddr : heap'[b] = Null <=> heap[b] = Null
          /\ \A b \in ReqAddr : heap[b] # Null =>
               /\ heap'[b].ip = heap[b].ip
               /\ heap[b].packets # <<>> => heap'[b].packets # <<>>
      BY <1>2, <3>1, <3>2, <3>3
    <3>5. QueueSound'
      BY <3>1, <3>4, QueueFrame DEF Inv
    <3>6. NoRequestLeaked'
      BY <1>0, <1>3, <3>1, <3>4, LeakFrame DEF Inv
    <3> QED BY <1>2, <3>1, <3>2, <3>4, <3>5, <3>6
  <2>2. CASE /\ NotQueued(Gw[arg.pkt])
             /\ \E a \in ReqAddr :
                  /\ heap[a] = Null
                  /\ heap' = [heap EXCEPT ![a] = NewRequest(arg.pkt)]
                  /\ cur' = [cur EXCEPT !["main"] = a]
                  /\ requests' = <<a>> \o requests
    <3>1. PICK a \in ReqAddr :
                  /\ heap[a] = Null
                  /\ heap' = [heap EXCEPT ![a] = NewRequest(arg.pkt)]
                  /\ cur' = [cur EXCEPT !["main"] = a]
                  /\ requests' = <<a>> \o requests
      BY <2>2
    <3>2. /\ NewRequest(arg.pkt) \in Request
          /\ NewRequest(arg.pkt).ip = Gw[arg.pkt]
          /\ NewRequest(arg.pkt).packets # <<>>
      <4>1. <<arg.pkt>> \in Seq(Packet) /\ <<arg.pkt>> # <<>>
        BY <1>0
      <4> QED BY <1>2, <4>1 DEF NewRequest, Request
    <3>3. /\ heap' \in [ReqAddr -> Request \cup {Null}]
          /\ heap'[a] = NewRequest(arg.pkt)
          /\ \A b \in ReqAddr : b # a => heap'[b] = heap[b]
      BY <1>2, <3>1, <3>2
    <3>4. /\ requests' \in Seq(ReqAddr) /\ Len(requests') = Len(requests) + 1
          /\ DOMAIN requests' = 1 .. Len(requests) + 1
          /\ requests'[1] = a
          /\ \A j \in 2 .. Len(requests) + 1 :
               j - 1 \in DOMAIN requests /\ requests'[j] = requests[j - 1]
      BY <1>2, <3>1
    <3>5. \A j \in DOMAIN requests : requests[j] \in ReqAddr /\ requests[j] # a
      BY <1>2, <3>1 DEF Inv, QueueSound
    <3>6. QueueSound'
      <4>1. ASSUME NEW j \in DOMAIN requests'
            PROVE  heap'[requests'[j]] # Null /\ heap'[requests'[j]].packets # <<>>
        <5>1. CASE j = 1
          BY <5>1, <3>2, <3>3, <3>4
        <5>2. CASE j # 1
          <6>1. j \in 2 .. Len(requests) + 1
            BY <5>2, <3>4, <1>2
          <6> QED BY <6>1, <3>3, <3>4, <3>5 DEF Inv, QueueSound
        <5> QED BY <5>1, <5>2
      <4>2. ASSUME NEW j \in DOMAIN requests', NEW k \in DOMAIN requests', j # k
            PROVE  heap'[requests'[j]].ip # heap'[requests'[k]].ip
        <5>1. \A l \in 2 .. Len(requests) + 1 :
                heap'[requests'[l]].ip # heap'[requests'[1]].ip
          BY <2>2, <3>2, <3>3, <3>4, <3>5 DEF NotQueued
        <5>2. \A l \in 2 .. Len(requests) + 1 :
                heap'[requests'[l]] = heap[requests[l - 1]] /\ l - 1 \in DOMAIN requests
          BY <3>3, <3>4, <3>5
        <5>3. CASE j # 1 /\ k # 1
          <6>1. j \in 2 .. Len(requests) + 1 /\ k \in 2 .. Len(requests) + 1
                /\ j - 1 # k - 1
            BY <5>3, <3>4, <1>2, <4>2
          <6> QED BY <6>1, <5>2 DEF Inv, QueueSound
        <5>4. CASE j = 1 \/ k = 1
          <6>1. (j = 1 /\ k \in 2 .. Len(requests) + 1)
                \/ (k = 1 /\ j \in 2 .. Len(requests) + 1)
            BY <5>4, <3>4, <1>2, <4>2
          <6> QED BY <6>1, <5>1
        <5> QED BY <5>3, <5>4
      <4> QED BY <4>1, <4>2 DEF QueueSound
    <3>7. NoRequestLeaked'
      <4>1. Allocated' = Allocated \cup {a} /\ a \notin Allocated
        BY <1>2, <3>1, <3>2, <3>3 DEF Allocated
      <4>2. Requests' = Requests \cup {a}
        <5>1. \A j \in DOMAIN requests : j + 1 \in DOMAIN requests'
                                        /\ requests'[j + 1] = requests[j]
          BY <1>2, <3>4
        <5>2. \A j \in DOMAIN requests' : j = 1 \/ j \in 2 .. Len(requests) + 1
          BY <1>2, <3>4
        <5>3. 1 \in DOMAIN requests'
          BY <1>2, <3>4
        <5>4. \A b : b \in Requests' => b \in Requests \cup {a}
          BY <3>4, <5>2 DEF Requests
        <5>5. \A b : b \in Requests => b \in Requests'
          BY <5>1 DEF Requests
        <5>6. a \in Requests'
          BY <3>4, <5>3 DEF Requests
        <5> QED BY <5>4, <5>5, <5>6
      <4>3. pc["main"] # "reply" /\ pc'["main"] # "reply"
        BY <1>0, <1>3
      <4>4. \A b \in Allocated : b \in Requests
        BY <4>3 DEF Inv, NoRequestLeaked, ReplyOwns
      <4>5. \A b \in Allocated' : b \in Requests'
        BY <4>1, <4>2, <4>4
      <4> QED BY <4>3, <4>5 DEF NoRequestLeaked, ReplyOwns
    <3> QED BY <3>1, <3>3, <3>4, <3>6, <3>7
  <2> QED BY <2>1, <2>2 DEF QueueReq
<1>5. TypeOK'
  BY <1>0, <1>2, <1>3, <1>4 DEF Inv, TypeOK, MainPC, TimeoutPC, HandlerPC, NoArg
<1>6. LockHeld'
  BY <1>0, <1>1, <1>3 DEF Inv, LockHeld
<1>7. ArgsGiven'
  BY <1>2, <1>3, <1>4 DEF ArgsGiven, Thread, HandlerPC
<1>8. SweepFollowsQueue'
  BY <1>0, <1>1, <1>3, <1>4, NoSweep
<1> QED BY <1>4, <1>5, <1>6, <1>7, <1>8 DEF Inv

(* sr_arpcache_insert: the request for the ip passes from the queue to main. *)
LEMMA InsertStep ==
    ASSUME Inv, NEW r \in AnyReply, Insert(r)
    PROVE  Inv'
<1> USE NullFacts
<1>0. /\ pc["main"] = "idle" /\ CanLock("main") /\ StoreEntry(r)
      /\ r.ip \in IP /\ r.mac \in Mac /\ r.iface \in Iface
      /\ UNCHANGED <<heap, lock, stale, reg, rest, slept, seen, outcome, alive>>
  BY DEF Insert, AnyReply
<1>1. pc["timeout"] = "sleep" /\ rest = <<>>
  BY <1>0, MainLocked
<1>2. /\ requests \in Seq(ReqAddr) /\ heap \in [ReqAddr -> Request \cup {Null}]
      /\ DOMAIN requests = 1 .. Len(requests) /\ Len(requests) \in Nat
  BY DEF Inv, TypeOK
<1>3. entries' \in [Slot -> Entry \cup {Null}]
  <2>1. NewEntry(r) \in Entry
    BY <1>0, NumAssumption DEF NewEntry, Entry
  <2> QED BY <1>0, <2>1 DEF StoreEntry, Inv, TypeOK
<1>4. CASE /\ NotQueued(r.ip)
           /\ UNCHANGED <<requests, cur, pkts, pc, arg>>
  <2>1. TypeOK'
    BY <1>0, <1>3, <1>4 DEF Inv, TypeOK
  <2>2. LockHeld' /\ ArgsGiven'
    BY <1>0, <1>4 DEF Inv, LockHeld, ArgsGiven
  <2>3. QueueSound' /\ NoRequestLeaked' /\ SweepFollowsQueue'
    BY <1>0, <1>4, QueueFrame, LeakFrame, SweepFrame DEF Inv
  <2> QED BY <2>1, <2>2, <2>3 DEF Inv
<1>5. CASE \E i \in DOMAIN requests :
            /\ requests' = Unlink(requests, i)
            /\ cur' = [cur EXCEPT !["main"] = requests[i]]
            /\ pkts' = [pkts EXCEPT !["main"] = heap[requests[i]].packets]
            /\ pc' = [pc EXCEPT !["main"] = "reply"]
            /\ arg' = [NoArg EXCEPT !.mac = r.mac, !.iface = r.iface]
  <2>1. PICK i \in DOMAIN requests :
            /\ requests' = Unlink(requests, i)
            /\ cur' = [cur EXCEPT !["main"] = requests[i]]
            /\ pkts' = [pkts EXCEPT !["main"] = heap[requests[i]].packets]
            /\ pc' = [pc EXCEPT !["main"] = "reply"]
            /\ arg' = [NoArg EXCEPT !.mac = r.mac, !.iface = r.iface]
    BY <1>5
  <2> DEFINE a == requests[i]
  <2>2. a \in ReqAddr /\ heap[a] # Null /\ heap[a] \in Request
    BY <1>2 DEF Inv, QueueSound
  <2>3. heap[a].packets \in Seq(Packet)
    BY <2>2 DEF Request
  <2>4. requests' \in Seq(ReqAddr)
    BY <1>2, <2>1, UnlinkProperties
  <2>5. /\ pc' \in [Thread -> MainPC \cup TimeoutPC]
        /\ pc'["main"] = "reply" /\ pc'["timeout"] = "sleep"
        /\ cur' \in [Thread -> ReqAddr \cup {Null}] /\ cur'["main"] = a
        /\ pkts' \in [Thread -> Seq(Packet)]
    BY <1>1, <2>1, <2>2, <2>3 DEF Inv, TypeOK, Thread, MainPC
  <2>6. /\ arg' \in [pkt : Packet \cup {Null}, mac : Mac \cup {Null},
                     iface : Iface \cup {Null}]
        /\ arg'.mac \in Mac
    BY <1>0, <2>1 DEF NoArg
  <2>7. TypeOK'
    BY <1>0, <1>3, <2>4, <2>5, <2>6 DEF Inv, TypeOK, MainPC, TimeoutPC
  <2>8. LockHeld' /\ ArgsGiven'
    BY <1>0, <1>1, <2>2, <2>5, <2>6
    DEF Inv, LockHeld, ArgsGiven, Thread, HandlerPC
  <2>9. QueueSound'
    BY <1>0, <2>1, UnlinkQueueSound DEF Inv
  <2>10. NoRequestLeaked'
    <3>1. \A j, k \in DOMAIN requests : j # k => requests[j] # requests[k]
      BY QueueDistinct DEF Inv
    <3>2. \A b : (\E j \in DOMAIN Unlink(requests, i) : Unlink(requests, i)[j] = b)
                <=> (b # requests[i] /\ \E j \in DOMAIN requests : requests[j] = b)
      BY <1>2, <3>1, UnlinkElements
    <3>3. \A b : b \in Requests <=> \E j \in DOMAIN requests : requests[j] = b
      BY DEF Requests
    <3>4. \A b : b \in Requests' <=> \E j \in DOMAIN requests' : requests'[j] = b
      BY DEF Requests
    <3>5. \A b : b \in Requests' <=> b \in Requests /\ b # a
      BY <2>1, <3>2, <3>3, <3>4
    <3>6. Allocated' = Allocated /\ a \in Allocated
      BY <1>0, <2>2 DEF Allocated
    <3>7. \A b \in Allocated : b \in Requests
      BY <1>0 DEF Inv, NoRequestLeaked, ReplyOwns
    <3> QED BY <2>5, <3>5, <3>6, <3>7 DEF NoRequestLeaked, ReplyOwns
  <2>11. SweepFollowsQueue'
    BY <1>0, <1>1, <2>4, <2>5, NoSweep
  <2> QED BY <2>7, <2>8, <2>9, <2>10, <2>11 DEF Inv
<1> QED BY <1>4, <1>5 DEF Insert

-----------------------------------------------------------------------------
(* The timeout thread. *)

(* The sweep starts at the head of the queue and ends after its last request. *)
LEMMA SweepStep ==
    ASSUME Inv, StartSweep \/ SweepRequest \/ FollowNext \/ EndSweep
    PROVE  Inv'
<1> USE NullFacts
<1>0. /\ requests \in Seq(ReqAddr) /\ rest \in Seq(ReqAddr)
      /\ Len(requests) \in Nat /\ Len(rest) \in Nat
      /\ DOMAIN requests = 1 .. Len(requests) /\ DOMAIN rest = 1 .. Len(rest)
  BY DEF Inv, TypeOK
<1>1. CASE StartSweep
  <2>1. /\ UNCHANGED <<requests, heap, cur, stale, reg, pkts, slept, arg, seen,
                       outcome, alive>>
        /\ lock' = "timeout" /\ rest' = requests /\ entries' = Swept
        /\ pc' = [pc EXCEPT !["timeout"] = "sweep"]
    BY <1>1 DEF StartSweep, handlerVars
  <2>2. /\ pc' \in [Thread -> MainPC \cup TimeoutPC]
        /\ pc'["main"] = pc["main"] /\ pc'["timeout"] = "sweep"
    BY <2>1 DEF Inv, TypeOK, Thread, TimeoutPC
  <2>3. entries' \in [Slot -> Entry \cup {Null}]
    BY <2>1 DEF Swept, Inv, TypeOK
  <2>4. TypeOK'
    BY <1>0, <2>1, <2>2, <2>3 DEF Inv, TypeOK, TimeoutPC
  <2>5. LockHeld' /\ ArgsGiven'
    BY <2>1, <2>2 DEF Inv, LockHeld, ArgsGiven, Thread, HandlerPC
  <2>6. QueueSound' /\ NoRequestLeaked'
    BY <2>1, <2>2, QueueFrame, LeakFrame DEF Inv
  <2>7. SweepFollowsQueue'
    BY <1>0, <2>1, <2>2 DEF SweepFollowsQueue, HandlerPC
  <2> QED BY <2>4, <2>5, <2>6, <2>7 DEF Inv
<1>2. CASE SweepRequest
  <2>1. /\ UNCHANGED <<entries, requests, heap, lock, stale, reg, pkts, slept, arg,
                       seen, outcome, alive>>
        /\ rest # <<>> /\ rest' = Tail(rest) /\ pc["timeout"] = "sweep"
        /\ cur' = [cur EXCEPT !["timeout"] = Head(rest)]
        /\ pc' = [pc EXCEPT !["timeout"] = "check"]
    BY <1>2 DEF SweepRequest, cacheVars
  <2>2. /\ pc' \in [Thread -> MainPC \cup TimeoutPC]
        /\ pc'["main"] = pc["main"] /\ pc'["timeout"] = "check"
    BY <2>1 DEF Inv, TypeOK, Thread, TimeoutPC, HandlerPC
  <2>3. /\ Head(rest) = rest[1] /\ rest[1] \in ReqAddr
        /\ rest' \in Seq(ReqAddr) /\ Len(rest') = Len(rest) - 1 /\ Len(rest) > 0
        /\ DOMAIN rest' = 1 .. Len(rest) - 1
        /\ \A i \in 1 .. Len(rest) - 1 : rest'[i] = rest[i + 1]
    BY <1>0, <2>1
  <2>4. /\ cur' \in [Thread -> ReqAddr \cup {Null}]
        /\ cur'["main"] = cur["main"] /\ cur'["timeout"] = rest[1]
    BY <2>1, <2>3 DEF Inv, TypeOK, Thread
  <2>5. TypeOK'
    BY <2>1, <2>2, <2>3, <2>4 DEF Inv, TypeOK, TimeoutPC, HandlerPC
  <2>6. LockHeld' /\ ArgsGiven'
    BY <2>1, <2>2, <2>3, <2>4 DEF Inv, LockHeld, ArgsGiven, Thread, HandlerPC
  <2>7. QueueSound' /\ NoRequestLeaked'
    BY <2>1, <2>2, <2>4, QueueFrame, LeakFrame DEF Inv
  <2>8. SweepFollowsQueue'
    <3> DEFINE n == Len(requests) - Len(rest)
    <3>1. n >= 0 /\ \A i \in DOMAIN rest : rest[i] = requests[n + i]
      BY DEF Inv, SweepFollowsQueue
    <3>2. Len(requests') - Len(rest') = n + 1
      BY <1>0, <2>1, <2>3
    <3>3. n + 1 > 0 /\ requests'[n + 1] = cur'["timeout"]
      <4>1. 1 \in DOMAIN rest /\ n + 1 > 0
        BY <1>0, <2>3, <3>1
      <4>2. rest[1] = requests[n + 1]
        BY <3>1, <4>1
      <4> QED BY <2>1, <2>4, <4>1, <4>2
    <3>4. \A i \in DOMAIN rest' : rest'[i] = requests'[(n + 1) + i]
      <4> SUFFICES ASSUME NEW i \in DOMAIN rest'
                  PROVE  rest'[i] = requests'[(n + 1) + i]
        OBVIOUS
      <4>1. i + 1 \in DOMAIN rest /\ rest'[i] = rest[i + 1]
        BY <1>0, <2>3
      <4>2. rest[i + 1] = requests[n + (i + 1)]
        BY <3>1, <4>1
      <4>3. n + (i + 1) = (n + 1) + i
        BY <1>0, <2>3
      <4> QED BY <2>1, <4>1, <4>2, <4>3
    <3>5. n + 1 >= 0
      BY <1>0, <3>1
    <3> QED BY <3>2, <3>3, <3>4, <3>5 DEF SweepFollowsQueue
  <2> QED BY <2>5, <2>6, <2>7, <2>8 DEF Inv
<1>3. CASE FollowNext
  <2>1. /\ UNCHANGED <<entries, requests, heap, lock, stale, reg, pkts, rest, slept,
                       arg, seen, outcome>>
        /\ pc["timeout"] = "next" /\ alive' \in BOOLEAN
        /\ \/ UNCHANGED <<pc, cur>>
           \/ /\ pc' = [pc EXCEPT !["timeout"] = "sweep"]
              /\ cur' = [cur EXCEPT !["timeout"] = Null]
    BY <1>3 DEF FollowNext, cacheVars, Inv, TypeOK
  <2>2. /\ pc' \in [Thread -> MainPC \cup TimeoutPC]
        /\ pc'["main"] = pc["main"] /\ pc'["timeout"] \in {"next", "sweep"}
        /\ cur' \in [Thread -> ReqAddr \cup {Null}]
        /\ cur'["main"] = cur["main"]
        /\ pc'["timeout"] = "next" => cur'["timeout"] = cur["timeout"]
    BY <2>1 DEF Inv, TypeOK, Thread, TimeoutPC
  <2>3. TypeOK'
    BY <2>1, <2>2 DEF Inv, TypeOK, TimeoutPC
  <2>4. LockHeld' /\ ArgsGiven'
    BY <2>1, <2>2 DEF Inv, LockHeld, ArgsGiven, Thread, HandlerPC
  <2>5. QueueSound' /\ NoRequestLeaked'
    BY <2>1, <2>2, QueueFrame, LeakFrame DEF Inv
  <2>6. SweepFollowsQueue'
    BY <2>1, <2>2 DEF Inv, SweepFollowsQueue, HandlerPC
  <2> QED BY <2>3, <2>4, <2>5, <2>6 DEF Inv
<1>4. CASE EndSweep
  <2>1. /\ UNCHANGED <<entries, requests, heap, cur, stale, reg, pkts, rest, arg,
                       seen, outcome, alive>>
        /\ lock' = Null /\ slept' = FALSE /\ rest = <<>>
        /\ pc' = [pc EXCEPT !["timeout"] = "sleep"]
    BY <1>4 DEF EndSweep, handlerVars
  <2>2. /\ pc' \in [Thread -> MainPC \cup TimeoutPC]
        /\ pc'["main"] = pc["main"] /\ pc'["timeout"] = "sleep"
    BY <2>1 DEF Inv, TypeOK, Thread, TimeoutPC
  <2>3. TypeOK'
    BY <2>1, <2>2 DEF Inv, TypeOK, TimeoutPC
  <2>4. LockHeld' /\ ArgsGiven'
    BY <2>1, <2>2 DEF Inv, LockHeld, ArgsGiven, Thread, HandlerPC
  <2>5. QueueSound' /\ NoRequestLeaked'
    BY <2>1, <2>2, QueueFrame, LeakFrame DEF Inv
  <2>6. SweepFollowsQueue'
    BY <1>0, <2>1, <2>2, NoSweep
  <2> QED BY <2>3, <2>4, <2>5, <2>6 DEF Inv
<1> QED BY <1>1, <1>2, <1>3, <1>4

-----------------------------------------------------------------------------
(* The invariant, and what it gives. *)

(* The empty cache, with both threads before their first step, satisfies Inv. *)
LEMMA InvInit == Init => Inv
<1> SUFFICES ASSUME Init PROVE Inv
  OBVIOUS
<1>1. TypeOK
  <2>1. /\ entries \in [Slot -> Entry \cup {Null}]
        /\ heap \in [ReqAddr -> Request \cup {Null}]
        /\ requests \in Seq(ReqAddr) /\ rest \in Seq(ReqAddr)
    BY DEF Init
  <2>2. /\ pc \in [Thread -> MainPC \cup TimeoutPC]
        /\ pc["main"] \in MainPC /\ pc["timeout"] \in TimeoutPC
    BY DEF Init, Thread, MainPC, TimeoutPC
  <2>3. /\ pkts \in [Thread -> Seq(Packet)]
        /\ outcome \in [Packet -> Seq(Outcome)]
    BY DEF Init
  <2>4. /\ cur \in [Thread -> ReqAddr \cup {Null}]
        /\ stale \in [Thread -> BOOLEAN] /\ reg \in [Thread -> Nat]
    BY DEF Init
  <2>5. arg \in [pkt : Packet \cup {Null}, mac : Mac \cup {Null},
                iface : Iface \cup {Null}]
    BY DEF Init, NoArg
  <2>6. lock \in {Null, "timeout"} /\ slept \in BOOLEAN /\ alive \in BOOLEAN
        /\ seen \in SUBSET Packet
    BY DEF Init
  <2> QED BY <2>1, <2>2, <2>3, <2>4, <2>5, <2>6 DEF TypeOK
<1>2. LockHeld /\ ArgsGiven
  BY NullFacts DEF Init, LockHeld, ArgsGiven, Thread, HandlerPC
<1>3. QueueSound
  BY DEF Init, QueueSound
<1>4. NoRequestLeaked
  BY DEF Init, NoRequestLeaked, Allocated, Thread
<1>5. SweepFollowsQueue
  <2>1. requests = <<>> /\ rest = <<>> /\ pc["timeout"] = "sleep"
    BY DEF Init, Thread
  <2>2. Len(requests) = 0 /\ Len(rest) = 0 /\ DOMAIN rest = {}
    BY <2>1
  <2> QED BY <2>1, <2>2 DEF SweepFollowsQueue, HandlerPC
<1> QED BY <1>1, <1>2, <1>3, <1>4, <1>5 DEF Inv

(* What Next does is such a step, and all it delivers is replies. *)
LEMMA NextIsStep ==
    /\ Replies \subseteq AnyReply
    /\ Next <=> StepWith(Replies)
BY FunAssumption DEF AnyReply, Next, Receive, StepWith

(* Every step of either thread, and every tick, preserves Inv, whatever the     *)
(* replies say.                                                                 *)
LEMMA InvStep ==
    ASSUME Inv, StepWith(AnyReply)
    PROVE  Inv'
<1>1. ASSUME NEW t \in Thread, HandleArpreq(t) PROVE Inv'
  BY <1>1, CheckStep, SendStep, WalkStep, DestroyStep, UseAfterFreeStep
  DEF HandleArpreq
<1>2. CASE MainStep
  BY <1>1, <1>2, LookupStep, QueueReqStep, WalkStep DEF MainStep, Thread
<1>3. CASE TimeoutStep
  BY <1>1, <1>3, SweepStep DEF TimeoutStep, Thread
<1> QED BY <1>2, <1>3, TickStep, LookupStep, InsertStep DEF StepWith

(* Inv depends on nothing but the router's variables. *)
LEMMA InvStutter ==
    ASSUME Inv, UNCHANGED vars
    PROVE  Inv'
<1>1. TypeOK' /\ LockHeld' /\ ArgsGiven'
  BY DEF Inv, vars, TypeOK, LockHeld, ArgsGiven
<1>2. QueueSound' /\ NoRequestLeaked' /\ SweepFollowsQueue'
  BY QueueFrame, LeakFrame, SweepFrame DEF Inv, vars
<1> QED BY <1>1, <1>2 DEF Inv

(* Next is such a step, or nothing happens. *)
LEMMA InvNext == Inv /\ [Next]_vars => Inv'
<1> SUFFICES ASSUME Inv, Next PROVE Inv'
  BY InvStutter
<1>1. StepWith(AnyReply)
  BY NextIsStep DEF StepWith
<1> QED BY <1>1, InvStep

(* The inductive invariant holds in every reachable state of both threads. *)
THEOREM Invariance == Spec => []Inv
BY InvInit, InvNext, PTL DEF Spec

(* Type correctness of both threads and of all they share. *)
THEOREM TypeCorrect == Spec => []TypeOK
<1>1. Inv => TypeOK
  BY DEF Inv
<1> QED BY <1>1, Invariance, PTL

(* The request queue that both threads walk is sound whatever they do. *)
THEOREM QueueAlwaysSound == Spec => []QueueSound
<1>1. Inv => QueueSound
  BY DEF Inv
<1> QED BY <1>1, Invariance, PTL

(* No request leaks, and the reply path has its request to itself. *)
THEOREM RequestsNeverLeak == Spec => []NoRequestLeaked
<1>1. Inv => NoRequestLeaked
  BY DEF Inv
<1> QED BY <1>1, Invariance, PTL

(* The sweep walks the queue as it is, although it unlinks under its own feet. *)
THEOREM SweepIsSound == Spec => []SweepFollowsQueue
<1>1. Inv => SweepFollowsQueue
  BY DEF Inv
<1> QED BY <1>1, Invariance, PTL

-----------------------------------------------------------------------------
(* No packet is lost. *)

\* Main holds a packet only between the lookup and what follows from it.
ArgClear == pc["main"] \notin {"hit", "miss"} => arg.pkt = Null

Walking(t) == pc[t] \in {"giveup", "reply"} /\ heap[cur[t]] # Null

\* A thread that walks over the packets of its request, at whose end the request
\* is freed, has dealt with each of them or has it still before it.
WalkCovers ==
    \A t \in Thread : Walking(t) =>
        \A i \in DOMAIN heap[cur[t]].packets :
            \/ outcome[heap[cur[t]].packets[i]] # <<>>
            \/ \E j \in DOMAIN pkts[t] : pkts[t][j] = heap[cur[t]].packets[i]

LostInv == ArgClear /\ WalkCovers /\ NoPacketLost

(* A step that takes no packet away and starts no walk keeps LostInv. *)
LEMMA LostFrame ==
    ASSUME Inv, LostInv,
           seen' = seen, ArgClear',
           \A p \in Packet : arg.pkt = p => arg'.pkt = p \/ outcome'[p] # <<>>,
           \A p \in Packet : outcome[p] # <<>> => outcome'[p] # <<>>,
           \A a \in ReqAddr : heap'[a] = Null <=> heap[a] = Null,
           \A a \in ReqAddr : heap[a] # Null => heap'[a].packets = heap[a].packets,
           \A t \in Thread : pc'[t] \in {"giveup", "reply"} =>
               pc[t] \in {"giveup", "reply"} /\ cur'[t] = cur[t] /\ pkts'[t] = pkts[t]
    PROVE  LostInv'
<1>1. NoPacketLost'
  <2> SUFFICES ASSUME NEW p \in seen, outcome'[p] = <<>>, arg'.pkt # p
              PROVE  \E a \in ReqAddr : InRequest(p, a)'
    BY DEF NoPacketLost
  <2>1. p \in Packet
    BY DEF Inv, TypeOK
  <2>2. PICK a \in ReqAddr : InRequest(p, a)
    BY <2>1 DEF LostInv, NoPacketLost
  <2>3. InRequest(p, a)'
    BY <2>2 DEF InRequest, Allocated
  <2> QED BY <2>3
<1>2. WalkCovers'
  <2> SUFFICES ASSUME NEW t \in Thread, Walking(t)',
                     NEW i \in DOMAIN heap'[cur'[t]].packets
              PROVE  \/ outcome'[heap'[cur'[t]].packets[i]] # <<>>
                     \/ \E j \in DOMAIN pkts'[t] :
                          pkts'[t][j] = heap'[cur'[t]].packets[i]
    BY DEF WalkCovers
  <2>1. /\ pc[t] \in {"giveup", "reply"} /\ cur'[t] = cur[t] /\ pkts'[t] = pkts[t]
        /\ cur[t] \in ReqAddr
    BY DEF Walking, Inv, ArgsGiven, HandlerPC
  <2>2. /\ heap[cur[t]] # Null /\ heap'[cur[t]].packets = heap[cur[t]].packets
        /\ heap[cur[t]] \in Request
    BY <2>1 DEF Walking, Inv, TypeOK
  <2>3. heap[cur[t]].packets[i] \in Packet
    BY <2>1, <2>2 DEF Request
  <2> QED BY <2>1, <2>2, <2>3 DEF LostInv, WalkCovers, Walking
<1> QED BY <1>1, <1>2 DEF LostInv

(* Steps of handle_arpreq before its walk, and of the clock. *)
LEMMA LostHandler ==
    ASSUME Inv, LostInv, NEW t \in Thread,
           CheckSent(t) \/ Resend(t) \/ CountSend(t) \/ UseAfterFree(t)
    PROVE  LostInv'
<1> USE NullFacts
<1>1. /\ seen' = seen /\ outcome' = outcome /\ pc[t] \in HandlerPC
  BY DEF CheckSent, Resend, CountSend, UseAfterFree, InHandler, HandlerPC
<1>2. /\ \A a \in ReqAddr : heap'[a] = Null <=> heap[a] = Null
      /\ \A a \in ReqAddr : heap[a] # Null => heap'[a].packets = heap[a].packets
  <2>1. CASE CheckSent(t) \/ UseAfterFree(t)
    BY <2>1 DEF CheckSent, UseAfterFree, cacheVars
  <2>2. CASE Resend(t) \/ CountSend(t)
    <3>1. cur[t] \in ReqAddr /\ heap[cur[t]] \in Request
      BY <2>2, HandlerRequest DEF Resend, CountSend, HandlerPC
    <3>2. \A a \in ReqAddr : a # cur[t] => heap'[a] = heap[a]
      BY <2>2 DEF Resend, CountSend, Inv, TypeOK
    <3>3. /\ \/ heap'[cur[t]] = [heap[cur[t]] EXCEPT !.due = stale[t]]
             \/ heap'[cur[t]] = [heap[cur[t]] EXCEPT !.times_sent = reg[t] + 1]
      BY <2>2, <3>1 DEF Resend, CountSend, Inv, TypeOK
    <3>4. stale[t] \in BOOLEAN /\ reg[t] + 1 \in Nat
      BY DEF Inv, TypeOK
    <3>5. heap'[cur[t]] \in Request /\ heap'[cur[t]].packets = heap[cur[t]].packets
      BY <3>1, <3>3, <3>4 DEF Request
    <3> QED BY <3>1, <3>2, <3>5
  <2> QED BY <2>1, <2>2
<1>3. \/ Return(t)
      \/ /\ UNCHANGED <<cur, pkts, arg>>
         /\ \/ pc' = pc
            \/ pc' = [pc EXCEPT ![t] = "tries"]
            \/ pc' = [pc EXCEPT ![t] = "count"]
  BY DEF CheckSent, Resend, CountSend, UseAfterFree
<1>4. \A u \in Thread : pc'[u] \in {"giveup", "reply"} =>
         pc[u] \in {"giveup", "reply"} /\ cur'[u] = cur[u] /\ pkts'[u] = pkts[u]
  BY <1>3 DEF Return, Inv, TypeOK, Thread
<1>5. arg'.pkt = arg.pkt /\ ArgClear'
  <2>1. pc["main"] \in HandlerPC => arg.pkt = Null
    BY DEF LostInv, ArgClear, HandlerPC
  <2>2. CASE t = "main"
    BY <1>1, <1>3, <2>1, <2>2 DEF Return, NoArg, ArgClear, Inv, TypeOK, HandlerPC
  <2>3. CASE t = "timeout"
    BY <1>3, <2>3 DEF Return, ArgClear, LostInv, Inv, TypeOK, Thread
  <2> QED BY <2>2, <2>3 DEF Thread
<1> QED BY <1>1, <1>2, <1>4, <1>5, LostFrame

(* Deciding to give up starts a walk over all packets of the request. *)
LEMMA LostTries ==
    ASSUME Inv, LostInv, NEW t \in Thread, CheckTries(t)
    PROVE  LostInv'
<1>1. /\ UNCHANGED <<heap, cur, arg, seen, outcome>>
      /\ pc[t] = "tries"
      /\ \/ /\ pc' = [pc EXCEPT ![t] = "giveup"]
            /\ pkts' = [pkts EXCEPT ![t] = heap[cur[t]].packets]
         \/ pc' = [pc EXCEPT ![t] = "resend"] /\ pkts' = pkts
  BY DEF CheckTries, InHandler, cacheVars
<1>2. ArgClear'
  BY <1>1 DEF LostInv, ArgClear, Inv, TypeOK, Thread
<1>3. NoPacketLost'
  BY <1>1 DEF LostInv, NoPacketLost, InRequest, Allocated
<1>4. WalkCovers'
  <2> SUFFICES ASSUME NEW u \in Thread, Walking(u)', NEW i \in DOMAIN heap[cur[u]].packets
              PROVE  \/ outcome[heap[cur[u]].packets[i]] # <<>>
                     \/ \E j \in DOMAIN pkts'[u] : pkts'[u][j] = heap[cur[u]].packets[i]
    BY <1>1 DEF WalkCovers
  <2>1. CASE u = t
    <3>1. pkts'[t] = heap[cur[t]].packets
      BY <1>1, <2>1 DEF Walking, Inv, TypeOK
    <3> QED BY <2>1, <3>1
  <2>2. CASE u # t
    <3>1. Walking(u) /\ pkts'[u] = pkts[u]
      BY <1>1, <2>2 DEF Walking, Inv, TypeOK
    <3> QED BY <3>1 DEF LostInv, WalkCovers
  <2> QED BY <2>1, <2>2
<1> QED BY <1>2, <1>3, <1>4 DEF LostInv

(* Each step of a walk settles the packet at the head of what is left. *)
LEMMA LostWalk ==
    ASSUME Inv, LostInv, (\E t \in Thread : SendUnreachable(t)) \/ SendQueued
    PROVE  LostInv'
<1>1. PICK t \in Thread, o \in Outcome :
        /\ pkts[t] # <<>>
        /\ Record(Head(pkts[t]), o)
        /\ pkts' = [pkts EXCEPT ![t] = Tail(@)]
        /\ UNCHANGED <<heap, pc, cur, arg, seen>>
  <2>1. CASE \E t \in Thread : SendUnreachable(t)
    <3>1. PICK t \in Thread : SendUnreachable(t)
      BY <2>1
    <3>2. Head(pkts[t]) \in Packet
      BY <3>1 DEF SendUnreachable, Inv, TypeOK
    <3>3. Unreachable(Head(pkts[t])) \in Outcome
      BY <3>2, FunAssumption DEF Unreachable, Outcome
    <3> QED BY <3>1, <3>3 DEF SendUnreachable, cacheVars
  <2>2. CASE SendQueued
    <3> DEFINE p == Head(pkts["main"])
    <3>1. p \in Packet /\ arg.mac \in Mac
      BY <2>2 DEF SendQueued, InHandler, Inv, TypeOK, ArgsGiven, Thread
    <3>2. Forwarded(p, arg.mac) \in Outcome /\ Dropped(p) \in Outcome
      BY <3>1, FunAssumption DEF Forwarded, Dropped, Outcome
    <3> QED BY <2>2, <3>2 DEF SendQueued, Thread, cacheVars
  <2> QED BY <2>1, <2>2
<1> DEFINE h == Head(pkts[t])
<1>2. /\ pkts[t] \in Seq(Packet) /\ h = pkts[t][1] /\ h \in Packet
      /\ Len(pkts[t]) \in Nat /\ DOMAIN pkts[t] = 1 .. Len(pkts[t])
      /\ DOMAIN Tail(pkts[t]) = 1 .. Len(pkts[t]) - 1
      /\ \A j \in 1 .. Len(pkts[t]) - 1 : Tail(pkts[t])[j] = pkts[t][j + 1]
  BY <1>1 DEF Inv, TypeOK
<1>3. /\ outcome'[h] # <<>>
      /\ \A p \in Packet : outcome[p] # <<>> => outcome'[p] # <<>>
  <2>1. outcome' = [outcome EXCEPT ![h] = Append(@, o)]
    BY <1>1 DEF Record
  <2>2. outcome[h] \in Seq(Outcome) /\ outcome \in [Packet -> Seq(Outcome)]
    BY <1>2 DEF Inv, TypeOK
  <2>3. Append(outcome[h], o) # <<>>
    <3>1. o \in Outcome
      BY <1>1
    <3> HIDE DEF Outcome, h
    <3> QED BY <2>2, <3>1
  <2> QED BY <1>2, <2>1, <2>2, <2>3
<1>4. ArgClear'
  BY <1>1 DEF LostInv, ArgClear
<1>5. NoPacketLost'
  <2>1. \A p \in seen : p \in Packet
    BY DEF Inv, TypeOK
  <2> QED BY <1>1, <1>3, <2>1 DEF LostInv, NoPacketLost, InRequest, Allocated
<1>6. WalkCovers'
  <2> SUFFICES ASSUME NEW u \in Thread, Walking(u), NEW i \in DOMAIN heap[cur[u]].packets
              PROVE  \/ outcome'[heap[cur[u]].packets[i]] # <<>>
                     \/ \E j \in DOMAIN pkts'[u] : pkts'[u][j] = heap[cur[u]].packets[i]
    BY <1>1 DEF WalkCovers, Walking
  <2> DEFINE q == heap[cur[u]].packets[i]
  <2>1. q \in Packet
    <3>1. cur[u] \in ReqAddr /\ heap[cur[u]] \in Request
      BY DEF Walking, Inv, ArgsGiven, HandlerPC, TypeOK
    <3> QED BY <3>1 DEF Request
  <2>2. outcome[q] # <<>> \/ \E j \in DOMAIN pkts[u] : pkts[u][j] = q
    BY DEF LostInv, WalkCovers
  <2>3. CASE outcome[q] # <<>>
    BY <1>3, <2>1, <2>3
  <2>4. CASE \E j \in DOMAIN pkts[u] : pkts[u][j] = q
    <3>1. CASE u # t
      <4>1. pkts'[u] = pkts[u]
        BY <1>1, <3>1 DEF Inv, TypeOK
      <4> QED BY <2>4, <4>1
    <3>2. CASE u = t
      <4>1. pkts'[u] = Tail(pkts[t])
        BY <1>1, <3>2 DEF Inv, TypeOK
      <4>2. PICK j \in DOMAIN pkts[t] : pkts[t][j] = q
        BY <2>4, <3>2
      <4>3. CASE j = 1
        BY <1>2, <1>3, <4>2, <4>3
      <4>4. CASE j # 1
        <5>1. j - 1 \in DOMAIN Tail(pkts[t]) /\ Tail(pkts[t])[j - 1] = q
          BY <1>2, <4>2, <4>4
        <5> QED BY <4>1, <5>1
      <4> QED BY <4>3, <4>4
    <3> QED BY <3>1, <3>2
  <2> QED BY <2>2, <2>3, <2>4
<1> QED BY <1>4, <1>5, <1>6 DEF LostInv

(* A request is freed only at the end of a walk, when all its packets are settled. *)
LEMMA LostDestroy ==
    ASSUME Inv, LostInv, NEW t \in Thread, Destroy(t)
    PROVE  LostInv'
<1> USE NullFacts
<1>1. /\ Walking(t) /\ pkts[t] = <<>> /\ cur[t] \in ReqAddr
      /\ heap' = [heap EXCEPT ![cur[t]] = Null] /\ Return(t)
      /\ UNCHANGED <<seen, outcome>>
  BY HandlerRequest DEF Destroy, InHandler, Walking, HandlerPC
<1>2. \A i \in DOMAIN heap[cur[t]].packets : outcome[heap[cur[t]].packets[i]] # <<>>
  <2>1. DOMAIN pkts[t] = {}
    BY <1>1
  <2> QED BY <1>1, <2>1 DEF LostInv, WalkCovers
<1>3. \A a \in ReqAddr : a # cur[t] => heap'[a] = heap[a]
  BY <1>1 DEF Inv, TypeOK
<1>4. heap'[cur[t]] = Null
  BY <1>1 DEF Inv, TypeOK
<1>5. ArgClear' /\ \A p \in Packet : arg'.pkt = p <=> arg.pkt = p
  <2>1. CASE t = "main"
    <3>1. arg.pkt = Null
      BY <1>1, <2>1 DEF Walking, LostInv, ArgClear
    <3> QED BY <1>1, <2>1, <3>1 DEF Return, NoArg, ArgClear
  <2>2. CASE t = "timeout"
    BY <1>1, <2>2 DEF Return, ArgClear, LostInv, Inv, TypeOK, Thread
  <2> QED BY <2>1, <2>2 DEF Thread
<1>6. NoPacketLost'
  <2> SUFFICES ASSUME NEW p \in seen, outcome[p] = <<>>, arg.pkt # p
              PROVE  \E a \in ReqAddr : InRequest(p, a)'
    <3>1. \A p \in seen : p \in Packet
      BY DEF Inv, TypeOK
    <3> QED BY <1>1, <1>5, <3>1 DEF NoPacketLost
  <2>1. PICK a \in ReqAddr : InRequest(p, a)
    BY DEF LostInv, NoPacketLost
  <2>2. a # cur[t]
    BY <1>2, <2>1 DEF InRequest
  <2>3. InRequest(p, a)'
    BY <1>3, <2>1, <2>2 DEF InRequest, Allocated
  <2> QED BY <2>3
<1>7. WalkCovers'
  <2> SUFFICES ASSUME NEW u \in Thread, Walking(u)'
              PROVE  /\ Walking(u) /\ cur'[u] = cur[u] /\ pkts'[u] = pkts[u]
                     /\ heap'[cur[u]] = heap[cur[u]]
    BY <1>1 DEF LostInv, WalkCovers
  <2>1. u # t /\ pc'[u] = pc[u] /\ cur'[u] = cur[u] /\ pkts'[u] = pkts[u]
    BY <1>1 DEF Walking, Return, Inv, TypeOK, Thread
  <2>2. cur[u] \in ReqAddr
    BY <2>1 DEF Walking, Inv, ArgsGiven, HandlerPC
  <2> QED BY <1>3, <1>4, <2>1, <2>2 DEF Walking
<1> QED BY <1>5, <1>6, <1>7 DEF LostInv

(* The main thread passes a packet on: from the frame to its hands, then to the *)
(* wire or to a request.                                                        *)
LEMMA LostMain ==
    ASSUME Inv, LostInv, (\E p \in Packet : Lookup(p)) \/ ForwardHit \/ QueueReq
    PROVE  LostInv'
<1> USE NullFacts
<1>0. \A p \in seen : p \in Packet
  BY DEF Inv, TypeOK
<1>1. CASE \E p \in Packet : Lookup(p)
  <2>1. PICK p \in Packet : Lookup(p)
    BY <1>1
  <2>2. /\ pc["main"] = "idle" /\ UNCHANGED <<heap, cur, pkts, outcome>>
        /\ seen' = seen \cup {p} /\ arg'.pkt = p
        /\ \/ pc' = [pc EXCEPT !["main"] = "hit"]
           \/ pc' = [pc EXCEPT !["main"] = "miss"]
    BY <2>1 DEF Lookup, cacheVars, handlerVars, NoArg
  <2>3. arg.pkt = Null
    BY <2>2 DEF LostInv, ArgClear
  <2>4. ArgClear'
    BY <2>2 DEF ArgClear, Inv, TypeOK, Thread
  <2>5. NoPacketLost'
    BY <1>0, <2>2, <2>3, NullAssumption
    DEF LostInv, NoPacketLost, InRequest, Allocated
  <2>6. \A t \in Thread : pc'[t] \in {"giveup", "reply"} => pc[t] \in {"giveup", "reply"}
    BY <2>2 DEF Inv, TypeOK, Thread
  <2>7. WalkCovers'
    BY <2>2, <2>6 DEF LostInv, WalkCovers, Walking
  <2> QED BY <2>4, <2>5, <2>7 DEF LostInv
<1>2. CASE ForwardHit
  <2>1. /\ pc["main"] = "hit" /\ pc' = [pc EXCEPT !["main"] = "idle"]
        /\ arg' = NoArg /\ arg.pkt \in Packet /\ arg.mac \in Mac
        /\ outcome' = [outcome EXCEPT ![arg.pkt] =
                          Append(@, Forwarded(arg.pkt, arg.mac))]
        /\ UNCHANGED <<heap, cur, pkts, seen>>
    BY <1>2 DEF ForwardHit, Record, cacheVars, handlerVars, Inv, ArgsGiven
  <2>2. /\ outcome'[arg.pkt] # <<>>
        /\ \A p \in Packet : outcome[p] # <<>> => outcome'[p] # <<>>
    <3>1. Forwarded(arg.pkt, arg.mac) \in Outcome
      BY <2>1, FunAssumption DEF Forwarded, Outcome
    <3>2. outcome[arg.pkt] \in Seq(Outcome) /\ outcome \in [Packet -> Seq(Outcome)]
      BY <2>1 DEF Inv, TypeOK
    <3>3. Append(outcome[arg.pkt], Forwarded(arg.pkt, arg.mac)) # <<>>
      <4> HIDE DEF Outcome
      <4> QED BY <3>1, <3>2
    <3> QED BY <2>1, <3>2, <3>3
  <2>3. ArgClear'
    BY <2>1 DEF ArgClear, NoArg
  <2>4. \A t \in Thread : pc'[t] \in {"giveup", "reply"} =>
           pc[t] \in {"giveup", "reply"} /\ cur'[t] = cur[t] /\ pkts'[t] = pkts[t]
    BY <2>1 DEF Inv, TypeOK, Thread
  <2> QED BY <2>1, <2>2, <2>3, <2>4, LostFrame
<1>3. CASE QueueReq
  <2>1. /\ pc["main"] = "miss" /\ pc' = [pc EXCEPT !["main"] = "check"]
        /\ arg' = NoArg /\ arg.pkt \in Packet /\ CanLock("main")
        /\ UNCHANGED <<pkts, seen, outcome>>
    BY <1>3 DEF QueueReq, Inv, ArgsGiven
  <2>2. pc["timeout"] = "sleep"
    BY <2>1, MainLocked
  <2>a. PICK q \in Packet : q = arg.pkt
    BY <2>1
  <2>3. PICK a \in ReqAddr :
          /\ InRequest(q, a)'
          /\ \A b \in ReqAddr : b # a => heap'[b] = heap[b]
          /\ \A p : InRequest(p, a) => InRequest(p, a)'
    <3>1. CASE \E i \in DOMAIN requests :
             heap' = [heap EXCEPT ![requests[i]] = AddPacket(@, arg.pkt)]
      <4>1. PICK a \in ReqAddr :
             /\ heap' = [heap EXCEPT ![a] = AddPacket(@, q)]
             /\ heap[a] \in Request
        <5>1. PICK i \in DOMAIN requests :
                heap' = [heap EXCEPT ![requests[i]] = AddPacket(@, q)]
          BY <2>a, <3>1
        <5>2. requests[i] \in ReqAddr /\ heap[requests[i]] \in Request
          BY DEF Inv, TypeOK, QueueSound
        <5> QED BY <5>1, <5>2
      <4> DEFINE old == heap[a].packets
      <4>2. old \in Seq(Packet)
        BY <4>1 DEF Request
      <4>3. /\ heap'[a] = AddPacket(heap[a], q)
            /\ \A b \in ReqAddr : b # a => heap'[b] = heap[b]
        BY <4>1 DEF Inv, TypeOK
      <4>4. heap'[a] \in Request /\ heap'[a].packets = <<q>> \o old
        <5>1. <<q>> \o old \in Seq(Packet)
          BY <4>2
        <5>2. heap[a] \in Request
          BY <4>1
        <5>3. heap'[a] = [heap[a] EXCEPT !.packets = <<q>> \o old]
          BY <4>3 DEF AddPacket
        <5> HIDE DEF old
        <5> QED BY <5>1, <5>2, <5>3 DEF Request
      <4>5. /\ 1 \in DOMAIN heap'[a].packets /\ heap'[a].packets[1] = q
            /\ \A j \in DOMAIN old : j + 1 \in DOMAIN heap'[a].packets
                                    /\ heap'[a].packets[j + 1] = old[j]
        BY <4>2, <4>4
      <4>6. a \in Allocated'
        BY <4>4 DEF Allocated
      <4>7. InRequest(q, a)'
        BY <4>5, <4>6 DEF InRequest
      <4>8. ASSUME NEW p, InRequest(p, a) PROVE InRequest(p, a)'
        <5>1. PICK j \in DOMAIN old : old[j] = p
          BY <4>8 DEF InRequest
        <5> QED BY <4>5, <4>6, <5>1 DEF InRequest
      <4> QED BY <4>3, <4>7, <4>8
    <3>2. CASE \E a \in ReqAddr : /\ heap[a] = Null
                                 /\ heap' = [heap EXCEPT ![a] = NewRequest(arg.pkt)]
      <4>1. PICK a \in ReqAddr : /\ heap[a] = Null
                                /\ heap' = [heap EXCEPT ![a] = NewRequest(q)]
        BY <2>a, <3>2
      <4>2. /\ heap'[a] = NewRequest(q)
            /\ \A b \in ReqAddr : b # a => heap'[b] = heap[b]
        BY <4>1 DEF Inv, TypeOK
      <4>3. NewRequest(q) \in Request
        <5>1. <<q>> \in Seq(Packet) /\ Gw[q] \in IP
          BY FunAssumption
        <5> QED BY <5>1 DEF NewRequest, Request
      <4>4. 1 \in DOMAIN heap'[a].packets /\ heap'[a].packets[1] = q
        BY <4>2 DEF NewRequest
      <4>5. a \in Allocated' /\ a \notin Allocated
        BY <4>1, <4>2, <4>3 DEF Allocated
      <4>6. InRequest(q, a)'
        BY <4>4, <4>5 DEF InRequest
      <4> QED BY <4>2, <4>5, <4>6 DEF InRequest
    <3> QED BY <1>3, <3>1, <3>2 DEF QueueReq
  <2>4. ArgClear'
    BY <2>1 DEF ArgClear, NoArg
  <2>5. NoPacketLost'
    <3> SUFFICES ASSUME NEW p \in seen, outcome[p] = <<>>
                PROVE  \E b \in ReqAddr : InRequest(p, b)'
      BY <2>1 DEF NoPacketLost
    <3>1. CASE arg.pkt = p
      BY <2>a, <2>3, <3>1
    <3>2. CASE arg.pkt # p
      <4>1. PICK b \in ReqAddr : InRequest(p, b)
        BY <3>2 DEF LostInv, NoPacketLost
      <4>2. InRequest(p, b)'
        BY <2>3, <4>1 DEF InRequest, Allocated
      <4> QED BY <4>2
    <3> QED BY <3>1, <3>2
  <2>6. WalkCovers'
    BY <2>1, <2>2 DEF WalkCovers, Walking, Inv, TypeOK, Thread
  <2> QED BY <2>4, <2>5, <2>6 DEF LostInv
<1> QED BY <1>1, <1>2, <1>3

(* A reply starts a walk over all packets of the request it answers. *)
LEMMA LostInsert ==
    ASSUME Inv, LostInv, NEW r \in Replies, Insert(r)
    PROVE  LostInv'
<1>1. /\ pc["main"] = "idle" /\ CanLock("main")
      /\ UNCHANGED <<heap, seen, outcome>>
  BY DEF Insert
<1>2. pc["timeout"] = "sleep" /\ arg.pkt = Null
  BY <1>1, MainLocked DEF LostInv, ArgClear
<1>3. \/ UNCHANGED <<pc, cur, pkts, arg>>
      \/ \E a : /\ cur' = [cur EXCEPT !["main"] = a]
               /\ pkts' = [pkts EXCEPT !["main"] = heap[a].packets]
               /\ pc' = [pc EXCEPT !["main"] = "reply"]
               /\ arg'.pkt = Null
  BY DEF Insert, NoArg
<1>4. arg'.pkt = Null /\ ArgClear'
  BY <1>2, <1>3 DEF ArgClear
<1>5. NoPacketLost'
  BY <1>1, <1>2, <1>4 DEF LostInv, NoPacketLost, InRequest, Allocated
<1>6. WalkCovers'
  BY <1>1, <1>2, <1>3 DEF WalkCovers, Walking, Inv, TypeOK, Thread
<1> QED BY <1>4, <1>5, <1>6 DEF LostInv

(* The clock, and the timeout thread between two requests. *)
LEMMA LostSweep ==
    ASSUME Inv, LostInv, Tick \/ StartSweep \/ SweepRequest \/ FollowNext \/ EndSweep
    PROVE  LostInv'
<1> USE NullFacts
<1>1. UNCHANGED <<pkts, arg, seen, outcome>>
  BY DEF Tick, StartSweep, SweepRequest, FollowNext, EndSweep, handlerVars
<1>2. /\ \A a \in ReqAddr : heap'[a] = Null <=> heap[a] = Null
      /\ \A a \in ReqAddr : heap[a] # Null => heap'[a].packets = heap[a].packets
  <2>1. CASE Tick
    <3>1. \A a \in ReqAddr : heap[a] # Null =>
             /\ [heap[a] EXCEPT !.due = TRUE] \in Request
             /\ [heap[a] EXCEPT !.due = TRUE].packets = heap[a].packets
      <4> SUFFICES ASSUME NEW a \in ReqAddr, heap[a] \in Request
                  PROVE  /\ [heap[a] EXCEPT !.due = TRUE] \in Request
                         /\ [heap[a] EXCEPT !.due = TRUE].packets = heap[a].packets
        BY DEF Inv, TypeOK
      <4> QED BY DEF Request
    <3> QED BY <2>1, <3>1 DEF Tick
  <2>2. CASE ~Tick
    BY <2>2 DEF StartSweep, SweepRequest, FollowNext, EndSweep, cacheVars
  <2> QED BY <2>1, <2>2
<1>3. \A t \in Thread : /\ pc'[t] \in {"giveup", "reply"} =>
                             pc[t] \in {"giveup", "reply"} /\ cur'[t] = cur[t]
                        /\ t = "main" => pc'[t] = pc[t]
  BY DEF Tick, StartSweep, SweepRequest, FollowNext, EndSweep, handlerVars, Inv, TypeOK,
         Thread
<1>4. ArgClear'
  BY <1>1, <1>3 DEF ArgClear, LostInv, Thread
<1> QED BY <1>1, <1>2, <1>3, <1>4, LostFrame

(* No packet that the router has taken in vanishes without a trace. *)
THEOREM PacketsNeverLost == Spec => []NoPacketLost
<1>1. Init => LostInv
  BY DEF Init, LostInv, ArgClear, NoArg, WalkCovers, Walking, NoPacketLost, Thread
<1>2. Inv /\ LostInv /\ [Next]_vars => LostInv'
  <2> SUFFICES ASSUME Inv, LostInv, [Next]_vars PROVE LostInv'
    OBVIOUS
  <2>1. ASSUME NEW t \in Thread, HandleArpreq(t) PROVE LostInv'
    BY <2>1, LostHandler, LostTries, LostWalk, LostDestroy DEF HandleArpreq
  <2>2. CASE UNCHANGED vars
    BY <2>2, LostFrame DEF vars, LostInv, ArgClear
  <2>3. CASE Receive
    BY <2>3, LostMain, LostInsert DEF Receive
  <2>4. CASE MainStep
    BY <2>1, <2>4, LostMain, LostWalk DEF MainStep, Thread
  <2>5. CASE TimeoutStep
    BY <2>1, <2>5, LostSweep DEF TimeoutStep, Thread
  <2> QED BY <2>2, <2>3, <2>4, <2>5, LostSweep DEF Next
<1>3. LostInv => NoPacketLost
  BY DEF LostInv
<1> QED BY <1>1, <1>2, <1>3, Invariance, PTL DEF Spec

=============================================================================
