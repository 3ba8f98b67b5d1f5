----------------------- MODULE ArpCacheDeliveryProofs -----------------------
(***************************************************************************)
(* What becomes of a packet, for any number of packets, next hops, cache   *)
(* slots and retries: it leaves only for a station that announced itself   *)
(* as its next hop, it has one fate, and ArpCache implements the safety    *)
(* part of Delivery.                                                       *)
(***************************************************************************)
EXTENDS ArpCacheDelivery, ArpCacheProofs

\* The packets that wait in the request at a.
Held(a) == IF heap[a] = Null THEN <<>> ELSE heap[a].packets

\* No request comes, goes, or gets another packet.
KeepsRequests ==
    \A a \in ReqAddr :
        /\ heap'[a] = Null <=> heap[a] = Null
        /\ heap[a] # Null => /\ heap'[a].ip = heap[a].ip
                             /\ heap'[a].packets = heap[a].packets

-----------------------------------------------------------------------------
(* What the steps do to requests and outcomes. *)

(* The list of a request is a sequence of packets, also of one that is not there. *)
LEMMA HeldType ==
    ASSUME TypeOK, NEW a \in ReqAddr
    PROVE  /\ Held(a) \in Seq(Packet) /\ Len(Held(a)) \in Nat
           /\ DOMAIN Held(a) = 1 .. Len(Held(a))
           /\ \A i \in DOMAIN Held(a) : Held(a)[i] \in Packet
<1>1. Held(a) \in Seq(Packet)
  <2>1. heap[a] # Null => heap[a] \in Request
    BY DEF TypeOK
  <2> QED BY <2>1 DEF Held, Request
<1> QED BY <1>1

(* A request that a thread is about to change is an allocated one. *)
LEMMA SendKeeps ==
    ASSUME Inv, NEW t \in Thread, Resend(t) \/ CountSend(t)
    PROVE  KeepsRequests
<1> USE NullFacts
<1>1. cur[t] \in ReqAddr /\ heap[cur[t]] \in Request
  BY HandlerRequest DEF Resend, CountSend, HandlerPC
<1>2. \A a \in ReqAddr : a # cur[t] => heap'[a] = heap[a]
  BY DEF Resend, CountSend, Inv, TypeOK
<1>3. \/ heap'[cur[t]] = [heap[cur[t]] EXCEPT !.due = stale[t]]
      \/ heap'[cur[t]] = [heap[cur[t]] EXCEPT !.times_sent = reg[t] + 1]
  BY <1>1 DEF Resend, CountSend, Inv, TypeOK
<1>4. stale[t] \in BOOLEAN /\ reg[t] + 1 \in Nat
  BY DEF Inv, TypeOK
<1>5. /\ heap'[cur[t]] \in Request /\ heap'[cur[t]].ip = heap[cur[t]].ip
      /\ heap'[cur[t]].packets = heap[cur[t]].packets
  BY <1>1, <1>3, <1>4 DEF Request
<1> QED BY <1>1, <1>2, <1>5 DEF KeepsRequests

(* Only main's queuereq and the end of a walk change which packets wait where. *)
LEMMA RequestsKept ==
    ASSUME Inv, StepWith(AnyReply)
    PROVE  KeepsRequests \/ QueueReq \/ \E t \in Thread : Destroy(t)
<1> USE NullFacts
<1>1. heap' = heap => KeepsRequests
  BY DEF KeepsRequests
<1>2. CASE Tick
  <2>1. ASSUME NEW a \in ReqAddr, heap[a] # Null
        PROVE  /\ [heap[a] EXCEPT !.due = TRUE] # Null
               /\ [heap[a] EXCEPT !.due = TRUE].ip = heap[a].ip
               /\ [heap[a] EXCEPT !.due = TRUE].packets = heap[a].packets
    <3>1. heap[a] \in Request
      BY <2>1 DEF Inv, TypeOK
    <3>2. [heap[a] EXCEPT !.due = TRUE] \in Request
      BY <3>1 DEF Request
    <3> QED BY <3>1, <3>2 DEF Request
  <2> QED BY <1>2, <2>1 DEF Tick, KeepsRequests
<1>3. ASSUME NEW t \in Thread, HandleArpreq(t)
      PROVE  KeepsRequests \/ Destroy(t)
  <2>1. CASE Resend(t) \/ CountSend(t)
    BY <2>1, SendKeeps
  <2>2. CASE CheckSent(t) \/ CheckTries(t) \/ SendUnreachable(t) \/ UseAfterFree(t)
    <3>1. heap' = heap
      BY <2>2 DEF CheckSent, CheckTries, SendUnreachable, UseAfterFree, cacheVars
    <3> QED BY <1>1, <3>1
  <2> QED BY <1>3, <2>1, <2>2 DEF HandleArpreq
<1>4. CASE (\E p \in Packet : Lookup(p)) \/ (\E r \in AnyReply : Insert(r))
  BY <1>1, <1>4 DEF Lookup, Insert, cacheVars
<1>5. CASE MainStep
  BY <1>1, <1>3, <1>5 DEF MainStep, ForwardHit, SendQueued, cacheVars, Thread
<1>6. CASE TimeoutStep
  BY <1>1, <1>3, <1>6
  DEF TimeoutStep, StartSweep, SweepRequest, FollowNext, EndSweep, cacheVars, Thread
<1> QED BY <1>2, <1>4, <1>5, <1>6 DEF StepWith

(* sr_arpcache_queuereq puts main's packet before the others that wait for its   *)
(* next hop, while the timeout thread is asleep.                                 *)
LEMMA QueueReqEffect ==
    ASSUME Inv, QueueReq
    PROVE  /\ pc["main"] = "miss" /\ pc["timeout"] = "sleep" /\ arg.pkt \in Packet
           /\ pc' = [pc EXCEPT !["main"] = "check"] /\ arg' = NoArg
           /\ UNCHANGED <<entries, pkts, seen, outcome, alive>>
           /\ \E a \in ReqAddr :
                /\ cur' = [cur EXCEPT !["main"] = a]
                /\ \A b \in ReqAddr : b # a => heap'[b] = heap[b]
                /\ heap'[a] \in Request
                /\ heap'[a].ip = Gw[arg.pkt]
                /\ heap'[a].packets = <<arg.pkt>> \o Held(a)
                /\ heap[a] # Null =>
                     /\ a \in Requests /\ requests' = requests
                     /\ heap'[a].ip = heap[a].ip
                     /\ heap'[a].due = heap[a].due
                     /\ heap'[a].times_sent = heap[a].times_sent
                /\ heap[a] = Null =>
                     /\ requests' = <<a>> \o requests
                     /\ heap'[a].times_sent = 0
<1> USE NullFacts
<1>1. /\ pc["main"] = "miss" /\ CanLock("main") /\ arg.pkt \in Packet
      /\ pc' = [pc EXCEPT !["main"] = "check"] /\ arg' = NoArg
      /\ UNCHANGED <<entries, pkts, seen, outcome, alive>>
  BY DEF QueueReq, Inv, ArgsGiven
<1>2. pc["timeout"] = "sleep"
  BY <1>1, MainLocked
<1>3. PICK q \in Packet : q = arg.pkt
  BY <1>1
<1>4. CASE \E i \in DOMAIN requests :
            /\ QueuedAt(Gw[arg.pkt], i)
            /\ heap' = [heap EXCEPT ![requests[i]] = AddPacket(@, arg.pkt)]
            /\ cur' = [cur EXCEPT !["main"] = requests[i]]
            /\ requests' = requests
  <2>1. PICK i \in DOMAIN requests :
            /\ QueuedAt(Gw[q], i)
            /\ heap' = [heap EXCEPT ![requests[i]] = AddPacket(@, q)]
            /\ cur' = [cur EXCEPT !["main"] = requests[i]]
            /\ requests' = requests
    BY <1>3, <1>4
  <2> DEFINE a == requests[i]
             old == heap[a].packets
  <2>2. a \in ReqAddr /\ heap[a] \in Request /\ heap[a] # Null /\ a \in Requests
    BY DEF Inv, TypeOK, QueueSound, Requests
  <2>3. /\ heap'[a] = [heap[a] EXCEPT !.packets = <<q>> \o old]
        /\ \A b \in ReqAddr : b # a => heap'[b] = heap[b]
    BY <2>1, <2>2 DEF Inv, TypeOK, AddPacket
  <2>4. old \in Seq(Packet) /\ Held(a) = old
    BY <2>2 DEF Request, Held
  <2>5. <<q>> \o old \in Seq(Packet)
    BY <2>4
  <2>6. heap[a].ip = Gw[q]
    BY <2>1 DEF QueuedAt
  <2>7. /\ heap'[a] \in Request /\ heap'[a].packets = <<q>> \o old
        /\ heap'[a].ip = heap[a].ip /\ heap'[a].due = heap[a].due
        /\ heap'[a].times_sent = heap[a].times_sent
    <3> HIDE DEF old, a
    <3> QED BY <2>2, <2>3, <2>5 DEF Request
  <2>8. cur' = [cur EXCEPT !["main"] = a] /\ requests' = requests
    BY <2>1
  <2> HIDE DEF a, old
  <2> QED BY <1>1, <1>2, <1>3, <2>2, <2>3, <2>4, <2>6, <2>7, <2>8
<1>5. CASE \E a \in ReqAddr :
            /\ heap[a] = Null
            /\ heap' = [heap EXCEPT ![a] = NewRequest(arg.pkt)]
            /\ cur' = [cur EXCEPT !["main"] = a]
            /\ requests' = <<a>> \o requests
  <2>1. PICK a \in ReqAddr :
            /\ heap[a] = Null
            /\ heap' = [heap EXCEPT ![a] = NewRequest(q)]
            /\ cur' = [cur EXCEPT !["main"] = a]
            /\ requests' = <<a>> \o requests
    BY <1>3, <1>5
  <2>2. heap'[a] = NewRequest(q) /\ \A b \in ReqAddr : b # a => heap'[b] = heap[b]
    BY <2>1 DEF Inv, TypeOK
  <2>3. <<q>> \in Seq(Packet) /\ Gw[q] \in IP /\ <<q>> = <<q>> \o <<>>
    BY FunAssumption
  <2>4. /\ heap'[a] \in Request /\ heap'[a].ip = Gw[q] /\ heap'[a].times_sent = 0
        /\ heap'[a].packets = <<q>>
    BY <2>2, <2>3 DEF NewRequest, Request
  <2>5. Held(a) = <<>>
    BY <2>1 DEF Held
  <2> QED BY <1>1, <1>2, <1>3, <2>1, <2>2, <2>3, <2>4, <2>5
<1> QED BY <1>4, <1>5 DEF QueueReq

(* A request is freed at the end of a walk, and by nobody else. *)
LEMMA DestroyEffect ==
    ASSUME Inv, NEW t \in Thread, Destroy(t)
    PROVE  /\ Walking(t) /\ pkts[t] = <<>> /\ cur[t] \in ReqAddr
           /\ heap'[cur[t]] = Null
           /\ \A a \in ReqAddr : a # cur[t] => heap'[a] = heap[a]
           /\ Return(t)
           /\ UNCHANGED <<entries, seen, outcome, alive>>
<1>1. /\ Walking(t) /\ pkts[t] = <<>> /\ cur[t] \in ReqAddr
      /\ heap' = [heap EXCEPT ![cur[t]] = Null] /\ Return(t)
      /\ UNCHANGED <<entries, seen, outcome, alive>>
  BY HandlerRequest DEF Destroy, InHandler, Walking, HandlerPC
<1> QED BY <1>1 DEF Inv, TypeOK

(* Recording an outcome adds it behind those that are there. *)
LEMMA Recorded ==
    ASSUME TypeOK, NEW p \in Packet, NEW o \in Outcome, Record(p, o)
    PROVE  /\ \A q \in Packet : q # p => outcome'[q] = outcome[q]
           /\ Len(outcome[p]) \in Nat /\ Len(outcome'[p]) = Len(outcome[p]) + 1
           /\ DOMAIN outcome'[p] = 1 .. Len(outcome[p]) + 1
           /\ DOMAIN outcome[p] = 1 .. Len(outcome[p])
           /\ \A i \in DOMAIN outcome[p] : outcome'[p][i] = outcome[p][i]
           /\ outcome'[p][Len(outcome[p]) + 1] = o
<1>1. outcome[p] \in Seq(Outcome) /\ outcome \in [Packet -> Seq(Outcome)]
  BY DEF TypeOK
<1>2. outcome' = [outcome EXCEPT ![p] = Append(@, o)]
  BY DEF Record
<1>3. outcome'[p] = Append(outcome[p], o)
  BY <1>1, <1>2
<1> HIDE DEF Outcome
<1> QED BY <1>1, <1>2, <1>3

(* The packet that a walk has reached, and the rest of its list. *)
LEMMA WalkHead ==
    ASSUME TypeOK, NEW t \in Thread, pkts[t] # <<>>
    PROVE  /\ pkts[t] \in Seq(Packet) /\ Len(pkts[t]) \in Nat /\ Len(pkts[t]) > 0
           /\ DOMAIN pkts[t] = 1 .. Len(pkts[t])
           /\ Head(pkts[t]) = pkts[t][1] /\ Head(pkts[t]) \in Packet
           /\ Tail(pkts[t]) \in Seq(Packet) /\ Len(Tail(pkts[t])) = Len(pkts[t]) - 1
           /\ DOMAIN Tail(pkts[t]) = 1 .. Len(pkts[t]) - 1
           /\ \A j \in 1 .. Len(pkts[t]) - 1 : Tail(pkts[t])[j] = pkts[t][j + 1]
BY DEF TypeOK

(* A packet's outcomes change when main forwards it, or when a walk reaches it. *)
LEMMA OutcomesKept ==
    ASSUME Inv, StepWith(AnyReply)
    PROVE  outcome' = outcome \/ ForwardHit \/ SendQueued
           \/ \E t \in Thread : SendUnreachable(t)
<1>1. ASSUME NEW t \in Thread, HandleArpreq(t)
      PROVE  outcome' = outcome \/ SendUnreachable(t)
  BY <1>1 DEF HandleArpreq, CheckSent, CheckTries, Resend, CountSend, Destroy, UseAfterFree
<1>2. CASE MainStep
  BY <1>1, <1>2 DEF MainStep, QueueReq, Thread
<1>3. CASE TimeoutStep
  BY <1>1, <1>3
  DEF TimeoutStep, StartSweep, SweepRequest, FollowNext, EndSweep, Thread
<1>4. CASE Tick \/ (\E p \in Packet : Lookup(p)) \/ (\E r \in AnyReply : Insert(r))
  BY <1>4 DEF Tick, Lookup, Insert
<1> QED BY <1>2, <1>3, <1>4 DEF StepWith

(* A step of handle_arpreq is one of its own thread: it goes on or returns, and  *)
(* leaves the other thread where it is.                                          *)
LEMMA HandlerMoves ==
    ASSUME Inv, NEW t \in Thread, HandleArpreq(t)
    PROVE  /\ pc[t] \in HandlerPC \cup {"reply"}
           /\ \A u \in Thread : u # t =>
                /\ pc'[u] = pc[u] /\ cur'[u] = cur[u] /\ pkts'[u] = pkts[u]
                /\ stale'[u] = stale[u] /\ reg'[u] = reg[u]
           /\ t = "timeout" => arg' = arg
           /\ UNCHANGED <<entries, seen>>
           /\ t = "main" => pc'["main"] \in HandlerPC \cup {"idle"}
           /\ t = "timeout" => pc'["timeout"] \in HandlerPC \cup {"next"}
<1>1. UNCHANGED <<entries, seen>>
  BY DEF HandleArpreq, CheckSent, CheckTries, Resend, CountSend, SendUnreachable,
         Destroy, UseAfterFree, cacheVars
<1>2. pc[t] \in HandlerPC \cup {"reply"}
  BY DEF HandleArpreq, CheckSent, CheckTries, Resend, CountSend, SendUnreachable,
         Destroy, UseAfterFree, InHandler, HandlerPC
<1>3. CASE Return(t)
  BY <1>1, <1>2, <1>3 DEF Return, Inv, TypeOK, Thread
<1>4. CASE CheckSent(t) /\ ~Return(t)
  BY <1>1, <1>2, <1>4 DEF CheckSent, Inv, TypeOK, Thread, HandlerPC
<1>5. CASE CheckTries(t)
  BY <1>1, <1>2, <1>5 DEF CheckTries, Inv, TypeOK, Thread, HandlerPC
<1>6. CASE Resend(t)
  BY <1>1, <1>2, <1>6 DEF Resend, Inv, TypeOK, Thread, HandlerPC
<1>7. CASE SendUnreachable(t)
  BY <1>1, <1>2, <1>7 DEF SendUnreachable, InHandler, Inv, TypeOK, Thread, HandlerPC
<1>8. CASE UseAfterFree(t) /\ ~Return(t)
  <2>1. pc[t] \in HandlerPC /\ UNCHANGED <<pc, cur, stale, reg, pkts, arg>>
    BY <1>8 DEF UseAfterFree
  <2> QED BY <1>1, <1>2, <2>1 DEF Thread
<1> QED BY <1>3, <1>4, <1>5, <1>6, <1>7, <1>8
        DEF HandleArpreq, CountSend, Destroy

(* How main gets to the place where it forwards: by a lookup, or by a reply. *)
LEMMA MainMoves ==
    ASSUME Inv, NEW A, StepWith(A), pc'["main"] \in {"hit", "reply"}
    PROVE  \/ /\ pc'["main"] = pc["main"] /\ arg' = arg
              /\ cur'["main"] = cur["main"] /\ pkts'["main"] = pkts["main"]
           \/ \E p \in Packet : Lookup(p)
           \/ \E r \in A : Insert(r)
           \/ SendQueued
<1>1. CASE Tick
  BY <1>1 DEF Tick
<1>2. CASE MainStep
  <2>1. CASE HandleArpreq("main")
    BY <2>1, HandlerMoves DEF Thread, HandlerPC
  <2>2. CASE ForwardHit \/ QueueReq
    BY <2>2 DEF ForwardHit, QueueReq, Inv, TypeOK, Thread
  <2> QED BY <1>2, <2>1, <2>2 DEF MainStep
<1>3. CASE TimeoutStep
  <2>1. CASE HandleArpreq("timeout")
    BY <2>1, HandlerMoves DEF Thread
  <2>2. CASE StartSweep \/ SweepRequest \/ FollowNext \/ EndSweep
    BY <2>2 DEF StartSweep, SweepRequest, FollowNext, EndSweep, handlerVars, Inv, TypeOK,
                Thread
  <2> QED BY <1>3, <2>1, <2>2 DEF TimeoutStep
<1> QED BY <1>1, <1>2, <1>3 DEF StepWith

-----------------------------------------------------------------------------
(* A packet leaves only for its next hop.  The replies that the network         *)
(* delivers are a parameter, for use with other networks than ArpCache's.       *)

Announced(A, ip, mac) == \E r \in A : r.ip = ip /\ r.mac = mac

\* What the cache says was announced.
EntriesFrom(A) ==
    \A s \in Slot :
        entries[s] # Null => Announced(A, entries[s].ip, entries[s].mac)

\* A packet waits in the request for its own next hop.
QueuedForHop ==
    \A a \in ReqAddr : \A i \in DOMAIN Held(a) : Gw[Held(a)[i]] = heap[a].ip

\* What main has copied from the cache, or from a reply, was announced too.
ArgFrom(A) ==
    /\ pc["main"] = "hit" => Announced(A, Gw[arg.pkt], arg.mac)
    /\ pc["main"] = "reply" =>
         /\ \E r \in A : /\ r.ip = heap[cur["main"]].ip
                         /\ r.mac = arg.mac /\ r.iface = arg.iface
         /\ \A j \in DOMAIN pkts["main"] :
              Gw[pkts["main"][j]] = heap[cur["main"]].ip

\* A packet went to a station that announced itself, or was refused because of a
\* reply that came in on another interface.
HopsFrom(A) ==
    \A p \in Packet : \A i \in DOMAIN outcome[p] :
        /\ outcome[p][i].how = "forwarded" => Announced(A, Gw[p], outcome[p][i].mac)
        /\ outcome[p][i].how = "dropped" =>
              \E r \in A : r.ip = Gw[p] /\ r.iface # OutIface[p]

HopInv(A) == EntriesFrom(A) /\ QueuedForHop /\ ArgFrom(A) /\ HopsFrom(A)

(* The cache takes its entries from replies, and ages or drops them. *)
LEMMA EntriesStep ==
    ASSUME Inv, NEW A, A \subseteq AnyReply, EntriesFrom(A), StepWith(A)
    PROVE  EntriesFrom(A)'
<1> USE NullFacts
<1>1. CASE entries' = entries
  BY <1>1 DEF EntriesFrom
<1>2. CASE Tick
  <2> SUFFICES ASSUME NEW s \in Slot, entries'[s] # Null
              PROVE  Announced(A, entries'[s].ip, entries'[s].mac)
    BY DEF EntriesFrom, Announced
  <2>1. entries[s] \in Entry
    BY <1>2 DEF Tick, Inv, TypeOK
  <2>2. entries'[s] = entries[s] \/ entries'[s] = [entries[s] EXCEPT !.age = @ + 1]
    BY <1>2 DEF Tick
  <2>3. entries'[s].ip = entries[s].ip /\ entries'[s].mac = entries[s].mac
    BY <2>1, <2>2 DEF Entry
  <2> QED BY <2>1, <2>3 DEF EntriesFrom
<1>3. CASE \E r \in A : Insert(r)
  <2>1. PICK r \in A : StoreEntry(r)
    BY <1>3 DEF Insert
  <2>2. NewEntry(r).ip = r.ip /\ NewEntry(r).mac = r.mac
    BY DEF NewEntry
  <2>3. \A s \in Slot : entries'[s] = entries[s] \/ entries'[s] = NewEntry(r)
    BY <2>1 DEF StoreEntry, Inv, TypeOK
  <2>4. Announced(A, NewEntry(r).ip, NewEntry(r).mac)
    BY <2>2 DEF Announced
  <2> QED BY <2>3, <2>4 DEF EntriesFrom, Announced
<1>4. CASE StartSweep
  <2>1. \A s \in Slot : entries'[s] = entries[s] \/ entries'[s] = Null
    BY <1>4 DEF StartSweep, Swept
  <2> QED BY <2>1 DEF EntriesFrom, Announced
<1>5. ASSUME NEW t \in Thread, HandleArpreq(t) PROVE entries' = entries
  BY <1>5, HandlerMoves
<1>6. CASE MainStep
  BY <1>1, <1>5, <1>6 DEF MainStep, ForwardHit, QueueReq, SendQueued, cacheVars, Thread
<1>7. CASE TimeoutStep
  BY <1>1, <1>4, <1>5, <1>7
  DEF TimeoutStep, SweepRequest, FollowNext, EndSweep, cacheVars, Thread
<1>8. CASE \E p \in Packet : Lookup(p)
  BY <1>1, <1>8 DEF Lookup, cacheVars
<1> QED BY <1>2, <1>3, <1>6, <1>7, <1>8 DEF StepWith

(* A packet joins the request for its next hop, and requests do not change theirs. *)
LEMMA QueuedForHopStep ==
    ASSUME Inv, QueuedForHop, StepWith(AnyReply)
    PROVE  QueuedForHop'
<1> USE NullFacts
<1>1. CASE KeepsRequests
  BY <1>1 DEF KeepsRequests, QueuedForHop, Held
<1>2. CASE QueueReq
  <2>1. PICK a \in ReqAddr :
          /\ \A b \in ReqAddr : b # a => heap'[b] = heap[b]
          /\ heap'[a] # Null /\ heap'[a].ip = Gw[arg.pkt]
          /\ heap'[a].packets = <<arg.pkt>> \o Held(a)
          /\ heap[a] # Null => heap'[a].ip = heap[a].ip
    BY <1>2, QueueReqEffect
  <2>2. arg.pkt \in Packet /\ Held(a) \in Seq(Packet)
    BY <1>2, QueueReqEffect, HeldType DEF Inv
  <2>3. Held(a)' = <<arg.pkt>> \o Held(a)
    BY <2>1 DEF Held
  <2> SUFFICES ASSUME NEW b \in ReqAddr, NEW i \in DOMAIN Held(b)'
              PROVE  Gw[Held(b)'[i]] = heap'[b].ip
    BY DEF QueuedForHop
  <2>4. CASE b # a
    BY <2>1, <2>4 DEF Held, QueuedForHop
  <2>5. CASE b = a /\ i = 1
    BY <2>1, <2>2, <2>3, <2>5
  <2>6. CASE b = a /\ i # 1
    <3>1. i - 1 \in DOMAIN Held(a) /\ Held(a)'[i] = Held(a)[i - 1]
      BY <2>2, <2>3, <2>6
    <3>2. heap[a] # Null
      BY <3>1 DEF Held
    <3> QED BY <2>1, <2>6, <3>1, <3>2 DEF QueuedForHop
  <2> QED BY <2>4, <2>5, <2>6
<1>3. CASE \E t \in Thread : Destroy(t)
  <2>1. PICK t \in Thread : /\ heap'[cur[t]] = Null
                           /\ \A a \in ReqAddr : a # cur[t] => heap'[a] = heap[a]
    BY <1>3, DestroyEffect
  <2> QED BY <2>1 DEF QueuedForHop, Held
<1> QED BY <1>1, <1>2, <1>3, RequestsKept

(* The request that main serves with a reply stays what it is, whatever the     *)
(* timeout thread does.                                                         *)
LEMMA ReplyRequestKept ==
    ASSUME Inv, StepWith(AnyReply), pc["main"] = "reply", pc'["main"] = "reply"
    PROVE  /\ cur["main"] \in ReqAddr /\ heap[cur["main"]] # Null
           /\ heap'[cur["main"]] # Null
           /\ heap'[cur["main"]].ip = heap[cur["main"]].ip
           /\ heap'[cur["main"]].packets = heap[cur["main"]].packets
<1>1. cur["main"] \in Allocated /\ cur["main"] \in ReqAddr
  BY DEF Inv, NoRequestLeaked, Allocated
<1>2. CASE KeepsRequests
  BY <1>1, <1>2 DEF KeepsRequests, Allocated
<1>3. CASE QueueReq
  BY <1>3 DEF QueueReq
<1>4. CASE \E t \in Thread : Destroy(t)
  <2>1. PICK t \in Thread : Destroy(t)
    BY <1>4
  <2>2. t = "timeout"
    BY <2>1, DestroyEffect DEF Return, Inv, TypeOK, Thread
  <2>3. pc["timeout"] \in HandlerPC
    BY <2>1, <2>2 DEF Destroy, InHandler, Inv, TypeOK, TimeoutPC, HandlerPC
  <2>4. cur["timeout"] \in Requests
    <3>1. /\ Len(requests) - Len(rest) \in DOMAIN requests
          /\ requests[Len(requests) - Len(rest)] = cur["timeout"]
      BY <2>3 DEF Inv, SweepFollowsQueue, TypeOK
    <3> QED BY <3>1 DEF Requests
  <2>5. cur["timeout"] # cur["main"]
    BY <1>1, <2>4 DEF Inv, NoRequestLeaked, ReplyOwns
  <2> QED BY <1>1, <2>1, <2>2, <2>5, DestroyEffect DEF Allocated
<1> QED BY <1>2, <1>3, <1>4, RequestsKept

(* Main copies an address that was announced for the packets it has at hand. *)
LEMMA ArgStep ==
    ASSUME Inv, NEW A, A \subseteq AnyReply, HopInv(A), StepWith(A)
    PROVE  ArgFrom(A)'
<1> USE NullFacts
<1>0. StepWith(AnyReply)
  BY DEF StepWith
<1> SUFFICES ASSUME pc'["main"] \in {"hit", "reply"} PROVE ArgFrom(A)'
  BY DEF ArgFrom, Announced
<1>1. CASE /\ pc'["main"] = pc["main"] /\ arg' = arg
           /\ cur'["main"] = cur["main"] /\ pkts'["main"] = pkts["main"]
  BY <1>0, <1>1, ReplyRequestKept DEF HopInv, ArgFrom, Announced
<1>2. CASE \E p \in Packet : Lookup(p)
  <2>1. PICK p \in Packet : Lookup(p)
    BY <1>2
  <2>2. pc'["main"] \in {"hit", "miss"}
    BY <2>1 DEF Lookup, Inv, TypeOK, Thread
  <2>3. CASE pc'["main"] = "hit"
    <3>1. PICK i \in Hits(Gw[p]) : arg' = [NoArg EXCEPT !.pkt = p, !.mac = entries[i].mac]
      BY <2>1, <2>3 DEF Lookup, Inv, TypeOK, Thread
    <3>2. arg'.pkt = p /\ arg'.mac = entries[i].mac
      BY <3>1 DEF NoArg
    <3>3. Announced(A, Gw[p], entries[i].mac)
      BY DEF Hits, HopInv, EntriesFrom
    <3> QED BY <2>3, <3>2, <3>3 DEF ArgFrom, Announced
  <2> QED BY <2>2, <2>3
<1>3. CASE \E r \in A : Insert(r)
  <2>1. PICK r \in A : Insert(r)
    BY <1>3
  <2>2. PICK i \in DOMAIN requests :
            /\ QueuedAt(r.ip, i)
            /\ cur' = [cur EXCEPT !["main"] = requests[i]]
            /\ pkts' = [pkts EXCEPT !["main"] = heap[requests[i]].packets]
            /\ pc' = [pc EXCEPT !["main"] = "reply"]
            /\ arg' = [NoArg EXCEPT !.mac = r.mac, !.iface = r.iface]
    BY <2>1 DEF Insert
  <2> DEFINE a == requests[i]
  <2>3. a \in ReqAddr /\ heap[a] # Null /\ heap' = heap /\ heap[a].ip = r.ip
    BY <2>1, <2>2 DEF Inv, TypeOK, QueueSound, Insert, QueuedAt
  <2>4. /\ cur'["main"] = a /\ pkts'["main"] = Held(a) /\ pc'["main"] = "reply"
        /\ arg'.mac = r.mac /\ arg'.iface = r.iface
    BY <2>2, <2>3 DEF Inv, TypeOK, Thread, Held, NoArg
  <2> HIDE DEF a
  <2> QED BY <2>3, <2>4 DEF HopInv, QueuedForHop, ArgFrom
<1>4. CASE SendQueued
  <2>1. /\ pkts["main"] # <<>> /\ pkts' = [pkts EXCEPT !["main"] = Tail(@)]
        /\ UNCHANGED <<heap, pc, cur, arg>> /\ pc["main"] = "reply"
    BY <1>4 DEF SendQueued, InHandler, cacheVars
  <2>2. /\ DOMAIN Tail(pkts["main"]) = 1 .. Len(pkts["main"]) - 1
        /\ \A j \in 1 .. Len(pkts["main"]) - 1 :
             Tail(pkts["main"])[j] = pkts["main"][j + 1]
        /\ DOMAIN pkts["main"] = 1 .. Len(pkts["main"]) /\ Len(pkts["main"]) \in Nat
        /\ pkts'["main"] = Tail(pkts["main"])
    BY <2>1, WalkHead DEF Inv, TypeOK, Thread
  <2>3. \A j \in DOMAIN pkts'["main"] : \E k \in DOMAIN pkts["main"] :
          pkts'["main"][j] = pkts["main"][k]
    <3> SUFFICES ASSUME NEW j \in DOMAIN pkts'["main"]
                PROVE  \E k \in DOMAIN pkts["main"] : pkts'["main"][j] = pkts["main"][k]
      OBVIOUS
    <3>1. j + 1 \in DOMAIN pkts["main"] /\ pkts'["main"][j] = pkts["main"][j + 1]
      BY <2>2
    <3> QED BY <3>1
  <2> QED BY <2>1, <2>3 DEF HopInv, ArgFrom
<1> QED BY <1>1, <1>2, <1>3, <1>4, MainMoves

(* What leaves, or is refused, goes by what main has at hand. *)
LEMMA HopsStep ==
    ASSUME Inv, NEW A, A \subseteq AnyReply, HopInv(A), StepWith(A)
    PROVE  HopsFrom(A)'
<1>0. StepWith(AnyReply)
  BY DEF StepWith
<1>1. ASSUME NEW p \in Packet, NEW o \in Outcome, Record(p, o),
             o.how = "forwarded" => Announced(A, Gw[p], o.mac),
             o.how = "dropped" => \E r \in A : r.ip = Gw[p] /\ r.iface # OutIface[p]
      PROVE  HopsFrom(A)'
  <2> SUFFICES ASSUME NEW q \in Packet, NEW i \in DOMAIN outcome'[q]
              PROVE  /\ outcome'[q][i].how = "forwarded" =>
                          Announced(A, Gw[q], outcome'[q][i].mac)
                     /\ outcome'[q][i].how = "dropped" =>
                          \E r \in A : r.ip = Gw[q] /\ r.iface # OutIface[q]
    BY DEF HopsFrom, Announced
  <2>1. TypeOK /\ HopsFrom(A)
    BY DEF Inv, HopInv
  <2>2. CASE q # p
    BY <1>1, <2>1, <2>2, Recorded DEF HopsFrom
  <2>3. CASE q = p
    <3>1. (i \in DOMAIN outcome[p] /\ outcome'[p][i] = outcome[p][i]) \/ outcome'[p][i] = o
      BY <1>1, <2>1, <2>3, Recorded
    <3> QED BY <1>1, <2>1, <2>3, <3>1 DEF HopsFrom
  <2> QED BY <2>2, <2>3
<1>2. CASE outcome' = outcome
  BY <1>2 DEF HopInv, HopsFrom, Announced
<1>3. CASE ForwardHit
  <2>1. /\ arg.pkt \in Packet /\ arg.mac \in Mac
        /\ Record(arg.pkt, Forwarded(arg.pkt, arg.mac))
        /\ Announced(A, Gw[arg.pkt], arg.mac)
    BY <1>3 DEF ForwardHit, Inv, ArgsGiven, HopInv, ArgFrom
  <2>2. /\ Forwarded(arg.pkt, arg.mac) \in Outcome
        /\ Forwarded(arg.pkt, arg.mac).how = "forwarded"
        /\ Forwarded(arg.pkt, arg.mac).mac = arg.mac
    BY <2>1, FunAssumption DEF Forwarded, Outcome
  <2> QED BY <1>1, <2>1, <2>2
<1>4. CASE SendQueued
  <2> DEFINE p == Head(pkts["main"])
             o == IF arg.iface = OutIface[p] THEN Forwarded(p, arg.mac) ELSE Dropped(p)
  <2>1. /\ pc["main"] = "reply" /\ pkts["main"] # <<>> /\ Record(p, o) /\ arg.mac \in Mac
    BY <1>4 DEF SendQueued, InHandler, Inv, ArgsGiven
  <2>2. p \in Packet /\ 1 \in DOMAIN pkts["main"] /\ p = pkts["main"][1]
    BY <2>1, WalkHead DEF Inv, Thread
  <2>3. PICK r \in A : r.ip = Gw[p] /\ r.mac = arg.mac /\ r.iface = arg.iface
    BY <2>1, <2>2 DEF HopInv, ArgFrom
  <2>4. /\ o \in Outcome
        /\ o.how = "forwarded" => o.mac = arg.mac
        /\ o.how = "dropped" => arg.iface # OutIface[p]
    BY <2>1, <2>2, FunAssumption DEF Forwarded, Dropped, Outcome
  <2> HIDE DEF p, o
  <2> QED BY <1>1, <2>1, <2>2, <2>3, <2>4 DEF Announced
<1>5. CASE \E t \in Thread : SendUnreachable(t)
  <2>1. PICK t \in Thread : SendUnreachable(t)
    BY <1>5
  <2> DEFINE p == Head(pkts[t])
  <2>2. p \in Packet /\ Record(p, Unreachable(p))
    BY <2>1, WalkHead DEF SendUnreachable, Inv
  <2>3. Unreachable(p) \in Outcome /\ Unreachable(p).how = "unreachable"
    BY <2>2, FunAssumption DEF Unreachable, Outcome
  <2> HIDE DEF p
  <2> QED BY <1>1, <2>2, <2>3
<1> QED BY <1>0, <1>2, <1>3, <1>4, <1>5, OutcomesKept

(* Together. *)
LEMMA HopStep ==
    ASSUME Inv, NEW A, A \subseteq AnyReply, HopInv(A), StepWith(A)
    PROVE  HopInv(A)'
<1>1. StepWith(AnyReply)
  BY DEF StepWith
<1> QED BY <1>1, EntriesStep, QueuedForHopStep, ArgStep, HopsStep DEF HopInv

\* The router starts with an empty cache and nothing sent.
LEMMA HopInit ==
    ASSUME Init, NEW A
    PROVE  HopInv(A)
<1>1. EntriesFrom(A) /\ ArgFrom(A)
  BY DEF Init, EntriesFrom, ArgFrom, Thread
<1>2. QueuedForHop /\ HopsFrom(A)
  BY DEF Init, QueuedForHop, HopsFrom, Held
<1> QED BY <1>1, <1>2 DEF HopInv

(* CorrectNextHop for any replies, cache size and number of packets: a packet    *)
(* leaves only for a station that announced itself as its next hop.              *)
THEOREM PacketsGoToNextHop == Spec => []CorrectNextHop
<1>1. Init => HopInv(Replies)
  BY HopInit
<1>2. Inv /\ HopInv(Replies) /\ [Next]_vars => HopInv(Replies)'
  <2> SUFFICES ASSUME Inv, HopInv(Replies), [Next]_vars PROVE HopInv(Replies)'
    OBVIOUS
  <2>1. CASE Next
    BY <2>1, NextIsStep, HopStep
  <2>2. CASE UNCHANGED vars
    BY <2>2 DEF vars, HopInv, EntriesFrom, QueuedForHop, ArgFrom, HopsFrom, Held, Announced
  <2> QED BY <2>1, <2>2
<1>3. HopInv(Replies) => CorrectNextHop
  BY DEF HopInv, HopsFrom, Announced, CorrectNextHop
<1> QED BY <1>1, <1>2, <1>3, Invariance, PTL DEF Spec

-----------------------------------------------------------------------------
(* A packet has one fate. *)

\* A packet is in one place at most: not yet here, in main's hands, or once in one
\* request; and before it gets to a request nothing has been sent because of it.
PlacedOnce ==
    /\ \A a, b \in ReqAddr : \A i \in DOMAIN Held(a), j \in DOMAIN Held(b) :
          Held(a)[i] = Held(b)[j] => a = b /\ i = j
    /\ \A a \in ReqAddr : \A i \in DOMAIN Held(a) :
          Held(a)[i] \in seen /\ Held(a)[i] # arg.pkt
    /\ arg.pkt # Null => arg.pkt \in seen /\ outcome[arg.pkt] = <<>>
    /\ \A p \in Packet : p \notin seen => outcome[p] = <<>>

\* What a thread has still to walk over is the end of the request's list.
WalkPlace ==
    \A t \in Thread : Walking(t) =>
        /\ Len(pkts[t]) <= Len(Held(cur[t]))
        /\ \A j \in DOMAIN pkts[t] :
             pkts[t][j] = Held(cur[t])[Len(Held(cur[t])) - Len(pkts[t]) + j]

\* In its walk over the request at a thread t has dealt with the i-th packet.
Passed(t, a, i) ==
    Walking(t) /\ cur[t] = a /\ i + Len(pkts[t]) <= Len(Held(a))

OnlyUnreachable(p) == \A k \in DOMAIN outcome[p] : outcome[p][k].how = "unreachable"

\* What was sent because of a packet that is still in a request was sent by the
\* threads that have passed it, once by each, and a reply never comes to a packet
\* that a thread has given up on.
SettledInPassing ==
    \A a \in ReqAddr : \A i \in DOMAIN Held(a) :
        /\ (\A t \in Thread : ~Passed(t, a, i)) => outcome[Held(a)[i]] = <<>>
        /\ (\E t \in Thread : ~Passed(t, a, i)) => Len(outcome[Held(a)[i]]) <= 1
        /\ ~ReplyOwns(a) => OnlyUnreachable(Held(a)[i])

FateInv == ArgClear /\ PlacedOnce /\ WalkPlace /\ SettledInPassing /\ OneFate

(* A step that moves no packet and sends none keeps FateInv, also if it starts a  *)
(* walk at the beginning of a list.                                               *)
LEMMA FateFrame ==
    ASSUME Inv, FateInv, ArgClear', UNCHANGED <<seen, outcome>>,
           arg'.pkt \in {arg.pkt, Null},
           \A a \in ReqAddr : Held(a)' = Held(a),
           \A t \in Thread : Walking(t) =>
               Walking(t)' /\ cur'[t] = cur[t] /\ pkts'[t] = pkts[t],
           \A t \in Thread : Walking(t)' =>
               cur'[t] \in ReqAddr /\ (Walking(t) \/ pkts'[t] = Held(cur'[t])),
           \A a \in ReqAddr : ReplyOwns(a) => ReplyOwns(a)'
    PROVE  FateInv'
<1>0. /\ \A a \in ReqAddr : Len(Held(a)) \in Nat /\ DOMAIN Held(a) = 1 .. Len(Held(a))
      /\ \A a \in ReqAddr : \A i \in DOMAIN Held(a) : Held(a)[i] \in Packet
  BY HeldType DEF Inv
<1>1. PlacedOnce'
  <2>1. \A a \in ReqAddr : \A i \in DOMAIN Held(a) : Held(a)[i] # Null
    BY <1>0, NullAssumption
  <2> QED BY <2>1 DEF FateInv, PlacedOnce
<1>2. OneFate'
  BY DEF FateInv, OneFate
<1>3. WalkPlace'
  <2>1. ASSUME NEW t \in Thread, Walking(t)', NEW a \in ReqAddr, a = cur'[t]
        PROVE  /\ Len(pkts'[t]) <= Len(Held(a))
               /\ \A j \in DOMAIN pkts'[t] :
                    pkts'[t][j] = Held(a)[Len(Held(a)) - Len(pkts'[t]) + j]
    <3>1. CASE Walking(t)
      BY <2>1, <3>1 DEF FateInv, WalkPlace
    <3>2. CASE pkts'[t] = Held(a)
      BY <1>0, <3>2
    <3> QED BY <2>1, <3>1, <3>2
  <2>2. ASSUME NEW t \in Thread, Walking(t)', NEW a \in ReqAddr, a = cur'[t]
        PROVE  /\ Len(pkts'[t]) <= Len(Held(a)')
               /\ \A j \in DOMAIN pkts'[t] :
                    pkts'[t][j] = Held(a)'[Len(Held(a)') - Len(pkts'[t]) + j]
    <3>1. Held(a)' = Held(a)
      OBVIOUS
    <3>2. /\ Len(pkts'[t]) <= Len(Held(a))
          /\ \A j \in DOMAIN pkts'[t] :
               pkts'[t][j] = Held(a)[Len(Held(a)) - Len(pkts'[t]) + j]
      BY <2>1, <2>2
    <3> QED BY <3>1, <3>2
  <2>3. \A t \in Thread : Walking(t)' => cur'[t] \in ReqAddr
    OBVIOUS
  <2> QED BY <2>2, <2>3 DEF WalkPlace, Held
<1>4. ASSUME NEW a \in ReqAddr, NEW i \in DOMAIN Held(a), NEW t \in Thread
      PROVE  Passed(t, a, i)' <=> Passed(t, a, i)
  <2>1. CASE Walking(t)
    BY <2>1 DEF Passed
  <2>2. CASE Walking(t)' /\ pkts'[t] = Held(cur'[t]) /\ ~Walking(t)
    <3>1. i \in Nat /\ i > 0
      BY <1>0
    <3> QED BY <1>0, <2>2, <3>1 DEF Passed
  <2>3. CASE ~Walking(t)' /\ ~Walking(t)
    BY <2>3 DEF Passed
  <2> QED BY <2>1, <2>2, <2>3
<1>5. SettledInPassing'
  <2> SUFFICES ASSUME NEW a \in ReqAddr, NEW i \in DOMAIN Held(a)
              PROVE  /\ (\A t \in Thread : ~Passed(t, a, i)') => outcome[Held(a)[i]] = <<>>
                     /\ (\E t \in Thread : ~Passed(t, a, i)') =>
                          Len(outcome[Held(a)[i]]) <= 1
                     /\ ~ReplyOwns(a)' => OnlyUnreachable(Held(a)[i])
    BY DEF SettledInPassing, OnlyUnreachable
  <2> QED BY <1>4 DEF FateInv, SettledInPassing
<1> QED BY <1>1, <1>2, <1>3, <1>5 DEF FateInv

(* No thread has passed a packet of a request that no thread walks over. *)
LEMMA NobodyPassed ==
    ASSUME FateInv, \A t \in Thread : ~Walking(t),
           NEW a \in ReqAddr, NEW i \in DOMAIN Held(a)
    PROVE  outcome[Held(a)[i]] = <<>>
BY DEF FateInv, SettledInPassing, Passed

(* The timeout thread works on queued requests, so it leaves alone what main has  *)
(* taken off the queue.                                                           *)
LEMMA ReplyAlone ==
    ASSUME Inv, NEW a \in ReqAddr, ReplyOwns(a), heap[a] # Null
    PROVE  ~(Walking("timeout") /\ cur["timeout"] = a)
<1> SUFFICES ASSUME Walking("timeout"), cur["timeout"] = a PROVE FALSE
  OBVIOUS
<1>1. pc["timeout"] \in HandlerPC
  BY DEF Walking, Inv, TypeOK, TimeoutPC, HandlerPC
<1>2. /\ Len(requests) - Len(rest) \in DOMAIN requests
      /\ requests[Len(requests) - Len(rest)] = a
  BY <1>1 DEF Inv, SweepFollowsQueue, TypeOK
<1>3. a \in Requests /\ a \in Allocated
  BY <1>2 DEF Requests, Allocated
<1> QED BY <1>3 DEF Inv, NoRequestLeaked

(* The place that a walk has reached, and what has become of the packet there. *)
LEMMA WalkAt ==
    ASSUME Inv, FateInv, NEW t \in Thread, Walking(t), pkts[t] # <<>>
    PROVE  /\ cur[t] \in ReqAddr
           /\ \E n \in DOMAIN Held(cur[t]) :
                /\ n + Len(pkts[t]) = Len(Held(cur[t])) + 1
                /\ Held(cur[t])[n] = Head(pkts[t])
                /\ ~Passed(t, cur[t], n)
           /\ Head(pkts[t]) \in seen
           /\ Len(outcome[Head(pkts[t])]) <= 1
           /\ ReplyOwns(cur[t]) => outcome[Head(pkts[t])] = <<>>
           /\ ~ReplyOwns(cur[t]) => OnlyUnreachable(Head(pkts[t]))
<1>1. PICK a \in ReqAddr : a = cur[t]
  BY DEF Walking, Inv, ArgsGiven, HandlerPC
<1>2. /\ Len(Held(a)) \in Nat /\ DOMAIN Held(a) = 1 .. Len(Held(a))
      /\ Len(pkts[t]) \in Nat /\ Len(pkts[t]) > 0 /\ 1 \in DOMAIN pkts[t]
      /\ Head(pkts[t]) = pkts[t][1]
  BY HeldType, WalkHead DEF Inv
<1> DEFINE n == Len(Held(a)) - Len(pkts[t]) + 1
<1>3. n \in DOMAIN Held(a) /\ Held(a)[n] = Head(pkts[t])
  <2>1. /\ Len(pkts[t]) <= Len(Held(a))
        /\ pkts[t][1] = Held(a)[n]
    BY <1>1, <1>2 DEF FateInv, WalkPlace
  <2>2. n \in 1 .. Len(Held(a))
    BY <1>2, <2>1
  <2> HIDE DEF n
  <2> QED BY <1>2, <2>1, <2>2
<1>4. n + Len(pkts[t]) = Len(Held(a)) + 1 /\ ~Passed(t, a, n)
  BY <1>2 DEF Passed
<1> HIDE DEF n
<1>5. ReplyOwns(a) => outcome[Held(a)[n]] = <<>>
  <2> SUFFICES ASSUME ReplyOwns(a) PROVE outcome[Held(a)[n]] = <<>>
    OBVIOUS
  <2>1. ~(Walking("timeout") /\ cur["timeout"] = a)
    BY <1>1, ReplyAlone DEF Walking
  <2>2. \A u \in Thread : ~Passed(u, a, n)
    BY <1>1, <1>4, <2>1 DEF Thread, Passed
  <2> QED BY <1>3, <2>2 DEF FateInv, SettledInPassing
<1>6. Held(a)[n] \in seen
  BY <1>3 DEF FateInv, PlacedOnce
<1>7. /\ Len(outcome[Held(a)[n]]) <= 1
      /\ ~ReplyOwns(a) => OnlyUnreachable(Held(a)[n])
  BY <1>3, <1>4 DEF FateInv, SettledInPassing
<1>8. /\ \E m \in DOMAIN Held(cur[t]) :
           /\ m + Len(pkts[t]) = Len(Held(cur[t])) + 1
           /\ Held(cur[t])[m] = Head(pkts[t])
           /\ ~Passed(t, cur[t], m)
  BY <1>1, <1>3, <1>4
<1> QED BY <1>1, <1>3, <1>5, <1>6, <1>7, <1>8

(* Main lets go of its packet, or takes another one in. *)
LEMMA ArgKept ==
    ASSUME Inv, ArgClear, StepWith(AnyReply)
    PROVE  /\ ArgClear'
           /\ arg'.pkt \in {arg.pkt, Null} \/ \E p \in Packet : Lookup(p)
<1>1. CASE HandleArpreq("timeout")
  BY <1>1, HandlerMoves DEF ArgClear, Thread
<1>2. CASE HandleArpreq("main")
  <2>1. arg.pkt = Null
    BY <1>2, HandlerMoves DEF ArgClear, Thread, HandlerPC
  <2>2. arg' = arg \/ arg' = NoArg
    BY <1>2 DEF HandleArpreq, CheckSent, CheckTries, Resend, CountSend, SendUnreachable,
                Destroy, UseAfterFree, Return
  <2> QED BY <2>1, <2>2 DEF ArgClear, NoArg
<1>3. CASE Tick \/ StartSweep \/ SweepRequest \/ FollowNext \/ EndSweep
  BY <1>3 DEF Tick, StartSweep, SweepRequest, FollowNext, EndSweep, handlerVars, ArgClear,
              Inv, TypeOK, Thread
<1>4. CASE ForwardHit \/ QueueReq \/ SendQueued
  BY <1>4 DEF ForwardHit, QueueReq, SendQueued, ArgClear, NoArg
<1>5. CASE \E r \in AnyReply : Insert(r)
  <2>1. (arg' = arg /\ pc' = pc) \/ arg'.pkt = Null
    BY <1>5 DEF Insert, NoArg
  <2> QED BY <2>1 DEF ArgClear
<1>6. CASE \E p \in Packet : Lookup(p)
  BY <1>6 DEF Lookup, ArgClear, Inv, TypeOK, Thread
<1> QED BY <1>1, <1>2, <1>3, <1>4, <1>5, <1>6 DEF StepWith, MainStep, TimeoutStep

(* Requests that are kept keep their lists. *)
LEMMA HeldKept ==
    ASSUME KeepsRequests, NEW a \in ReqAddr
    PROVE  Held(a)' = Held(a) /\ (heap'[a] = Null <=> heap[a] = Null)
BY DEF KeepsRequests, Held

(* handle_arpreq before its walk over the packets. *)
LEMMA FateHandler ==
    ASSUME Inv, FateInv, NEW t \in Thread,
           CheckSent(t) \/ CheckTries(t) \/ Resend(t) \/ CountSend(t) \/ UseAfterFree(t)
    PROVE  FateInv'
<1>1. HandleArpreq(t) /\ StepWith(AnyReply)
  BY DEF HandleArpreq, StepWith, MainStep, TimeoutStep, Thread
<1>2. /\ UNCHANGED <<seen, outcome>> /\ pc[t] \in HandlerPC /\ cur[t] \in ReqAddr
  BY DEF CheckSent, CheckTries, Resend, CountSend, UseAfterFree, InHandler, HandlerPC,
         Inv, ArgsGiven
<1>3. KeepsRequests
  <2>1. CASE Resend(t) \/ CountSend(t)
    BY <2>1, SendKeeps
  <2>2. CASE CheckSent(t) \/ CheckTries(t) \/ UseAfterFree(t)
    BY <2>2 DEF CheckSent, CheckTries, UseAfterFree, cacheVars, KeepsRequests
  <2> QED BY <2>1, <2>2
<1>4. /\ \A a \in ReqAddr : Held(a)' = Held(a)
      /\ \A a \in ReqAddr : heap'[a] = Null <=> heap[a] = Null
  BY <1>3, HeldKept
<1>5. ArgClear' /\ arg'.pkt \in {arg.pkt, Null}
  <2>1. ArgClear /\ (t = "timeout" => arg' = arg)
    BY <1>1, HandlerMoves DEF FateInv
  <2>2. CASE t = "main"
    <3>1. arg' = arg \/ arg' = NoArg
      BY DEF CheckSent, CheckTries, Resend, CountSend, UseAfterFree, Return
    <3> QED BY <1>1, <2>1, <3>1, ArgKept DEF NoArg
  <2>3. CASE t = "timeout"
    BY <1>1, <2>1, <2>3, ArgKept
  <2> QED BY <2>2, <2>3 DEF Thread
<1>6. ~Walking(t)
  BY DEF Walking, CheckSent, CheckTries, Resend, CountSend, UseAfterFree, InHandler
<1>7. Walking(t)' => cur'[t] = cur[t] /\ pkts'[t] = Held(cur[t])
  <2> SUFFICES ASSUME Walking(t)' PROVE cur'[t] = cur[t] /\ pkts'[t] = Held(cur[t])
    OBVIOUS
  <2>1. pc'[t] # "giveup" /\ pc'[t] # "reply" => FALSE
    BY DEF Walking
  <2>2. CASE Return(t)
    BY <2>1, <2>2 DEF Return, Inv, TypeOK
  <2>3. CASE (CheckSent(t) \/ Resend(t)) /\ ~Return(t)
    BY <2>1, <2>3 DEF CheckSent, Resend, Inv, TypeOK
  <2>4. CASE CheckTries(t)
    <3>1. cur' = cur /\ heap[cur[t]] # Null /\ pkts'[t] = heap[cur[t]].packets
      BY <2>1, <2>4 DEF CheckTries, InHandler, Inv, TypeOK
    <3> QED BY <3>1 DEF Held
  <2>5. CASE UseAfterFree(t) /\ ~Return(t)
    <3>1. UNCHANGED <<pc, cur, heap>> /\ heap[cur[t]] = Null
      BY <2>5 DEF UseAfterFree, cacheVars
    <3> QED BY <3>1 DEF Walking
  <2> QED BY <2>2, <2>3, <2>4, <2>5 DEF CountSend
<1>8. ASSUME NEW u \in Thread, u # t
      PROVE  /\ Walking(u)' <=> Walking(u)
             /\ cur'[u] = cur[u] /\ pkts'[u] = pkts[u]
             /\ Walking(u) => cur[u] \in ReqAddr
  <2>1. pc'[u] = pc[u] /\ cur'[u] = cur[u] /\ pkts'[u] = pkts[u]
    BY <1>1, <1>8, HandlerMoves
  <2>2. pc[u] \in {"giveup", "reply"} => cur[u] \in ReqAddr
    BY DEF Inv, ArgsGiven, HandlerPC
  <2> QED BY <1>4, <2>1, <2>2 DEF Walking
<1>9. \A a \in ReqAddr : ReplyOwns(a) => ReplyOwns(a)'
  <2>1. CASE t = "main"
    BY <1>2, <2>1 DEF ReplyOwns, HandlerPC
  <2>2. CASE t = "timeout"
    BY <1>1, <2>2, HandlerMoves DEF ReplyOwns, Thread
  <2> QED BY <2>1, <2>2 DEF Thread
<1> QED BY <1>2, <1>4, <1>5, <1>6, <1>7, <1>8, <1>9, FateFrame

(* The clock, the timeout thread between two requests, and main when a reply     *)
(* comes, which takes a request that nobody is walking over.                     *)
LEMMA FateOutside ==
    ASSUME Inv, FateInv,
           \/ Tick \/ StartSweep \/ SweepRequest \/ FollowNext \/ EndSweep
           \/ \E r \in AnyReply : Insert(r)
    PROVE  FateInv'
<1>1. StepWith(AnyReply)
  BY DEF StepWith, TimeoutStep
<1>2. UNCHANGED <<seen, outcome>>
  BY DEF Tick, StartSweep, SweepRequest, FollowNext, EndSweep, Insert
<1>3. KeepsRequests
  <2>1. CASE Tick
    <3>1. ~QueueReq /\ ~\E t \in Thread : Destroy(t)
      <4>1. seen' = seen /\ pc' = pc
        BY <2>1 DEF Tick
      <4>2. QueueReq => pc'["main"] = "check" /\ pc["main"] = "miss"
        BY DEF QueueReq, Inv, TypeOK, Thread
      <4>3. \A t \in Thread : Destroy(t) => pc'[t] \in {"idle", "next"}
                                            /\ pc[t] \in {"giveup", "reply"}
        BY DEF Destroy, Return, InHandler, Inv, TypeOK
      <4> QED BY <4>1, <4>2, <4>3
    <3> QED BY <1>1, <3>1, RequestsKept
  <2>2. CASE ~Tick
    BY <2>2 DEF StartSweep, SweepRequest, FollowNext, EndSweep, Insert, cacheVars,
                KeepsRequests
  <2> QED BY <2>1, <2>2
<1>4. /\ \A a \in ReqAddr : Held(a)' = Held(a)
      /\ \A a \in ReqAddr : heap'[a] = Null <=> heap[a] = Null
  BY <1>3, HeldKept
<1>5. ArgClear' /\ arg'.pkt \in {arg.pkt, Null}
  <2>1. arg' = arg \/ arg'.pkt = Null
    BY DEF Tick, StartSweep, SweepRequest, FollowNext, EndSweep, Insert, NoArg
  <2> QED BY <1>1, <2>1, ArgKept DEF FateInv
<1>6. \A t \in Thread : pc[t] \in {"giveup", "reply"} => cur[t] \in ReqAddr
  BY DEF Inv, ArgsGiven, HandlerPC
<1>7. CASE Tick \/ StartSweep \/ SweepRequest \/ FollowNext \/ EndSweep
  <2>1. \A t \in Thread :
          /\ pc'[t] \in {"giveup", "reply"} <=> pc[t] \in {"giveup", "reply"}
          /\ pc[t] \in {"giveup", "reply"} => cur'[t] = cur[t] /\ pkts'[t] = pkts[t]
          /\ t = "main" => pc'[t] = pc[t] /\ cur'[t] = cur[t]
    BY <1>7 DEF Tick, StartSweep, SweepRequest, FollowNext, EndSweep, handlerVars, Inv,
                TypeOK, Thread
  <2>2. \A t \in Thread :
          /\ Walking(t)' <=> Walking(t)
          /\ Walking(t) => cur'[t] = cur[t] /\ pkts'[t] = pkts[t] /\ cur[t] \in ReqAddr
    BY <1>4, <1>6, <2>1 DEF Walking
  <2>3. \A a \in ReqAddr : ReplyOwns(a) => ReplyOwns(a)'
    BY <2>1 DEF ReplyOwns, Thread
  <2> QED BY <1>2, <1>4, <1>5, <2>2, <2>3, FateFrame
<1>8. CASE \E r \in AnyReply : Insert(r)
  <2>1. PICK r \in AnyReply : Insert(r)
    BY <1>8
  <2>2. pc["main"] = "idle" /\ pc["timeout"] = "sleep"
    BY <2>1, MainLocked DEF Insert
  <2>3. /\ \A t \in Thread : ~Walking(t)
        /\ \A a \in ReqAddr : ~ReplyOwns(a)
    BY <2>2 DEF Walking, ReplyOwns, Thread
  <2>4. CASE UNCHANGED <<cur, pkts, pc>>
    <3>1. \A t \in Thread : ~Walking(t)'
      BY <2>2, <2>4 DEF Walking, Thread
    <3> QED BY <1>2, <1>4, <1>5, <2>3, <3>1, FateFrame
  <2>5. CASE \E i \in DOMAIN requests :
            /\ cur' = [cur EXCEPT !["main"] = requests[i]]
            /\ pkts' = [pkts EXCEPT !["main"] = heap[requests[i]].packets]
            /\ pc' = [pc EXCEPT !["main"] = "reply"]
    <3>1. PICK i \in DOMAIN requests :
            /\ cur' = [cur EXCEPT !["main"] = requests[i]]
            /\ pkts' = [pkts EXCEPT !["main"] = heap[requests[i]].packets]
            /\ pc' = [pc EXCEPT !["main"] = "reply"]
      BY <2>5
    <3>2. requests[i] \in ReqAddr /\ heap[requests[i]] # Null
      BY DEF Inv, TypeOK, QueueSound
    <3>3. /\ cur'["main"] = requests[i] /\ pkts'["main"] = Held(requests[i])
          /\ pc'["timeout"] = "sleep"
      BY <2>2, <3>1, <3>2 DEF Inv, TypeOK, Thread, Held
    <3>4. \A t \in Thread : Walking(t)' =>
            cur'[t] \in ReqAddr /\ pkts'[t] = Held(cur'[t])
      BY <3>2, <3>3 DEF Walking, Thread
    <3> QED BY <1>2, <1>4, <1>5, <2>3, <3>4, FateFrame
  <2> QED BY <2>1, <2>4, <2>5 DEF Insert
<1> QED BY <1>7, <1>8

(* A packet comes in that was nowhere before. *)
LEMMA FateLookup ==
    ASSUME Inv, FateInv, NEW p \in Packet, Lookup(p)
    PROVE  FateInv'
<1>1. /\ pc["main"] = "idle" /\ p \notin seen /\ seen' = seen \cup {p} /\ arg'.pkt = p
      /\ UNCHANGED <<heap, cur, pkts, outcome>>
      /\ \/ pc' = [pc EXCEPT !["main"] = "hit"]
         \/ pc' = [pc EXCEPT !["main"] = "miss"]
  BY DEF Lookup, cacheVars, handlerVars, NoArg
<1>2. \A a \in ReqAddr : Held(a)' = Held(a)
  BY <1>1 DEF Held
<1>3. ArgClear'
  BY <1>1 DEF ArgClear, Inv, TypeOK, Thread
<1>4. PlacedOnce'
  <2>1. outcome[p] = <<>> /\ \A a \in ReqAddr : \A i \in DOMAIN Held(a) : Held(a)[i] # p
    BY <1>1 DEF FateInv, PlacedOnce
  <2> QED BY <1>1, <1>2, <2>1 DEF FateInv, PlacedOnce
<1>5. \A t \in Thread : Walking(t)' <=> Walking(t)
  BY <1>1 DEF Walking, Inv, TypeOK, Thread
<1>6. \A a \in ReqAddr : ReplyOwns(a)' <=> ReplyOwns(a)
  BY <1>1 DEF ReplyOwns, Inv, TypeOK, Thread
<1>7. WalkPlace'
  BY <1>1, <1>5 DEF FateInv, WalkPlace, Held
<1>8. SettledInPassing'
  BY <1>1, <1>2, <1>5, <1>6 DEF FateInv, SettledInPassing, Passed, OnlyUnreachable
<1>9. OneFate'
  BY <1>1 DEF FateInv, OneFate
<1> QED BY <1>3, <1>4, <1>7, <1>8, <1>9 DEF FateInv

(* Main sends the packet that it holds, which is in no request. *)
LEMMA FateForward ==
    ASSUME Inv, FateInv, ForwardHit
    PROVE  FateInv'
<1>1. /\ pc["main"] = "hit" /\ arg' = NoArg /\ arg.pkt \in Packet /\ arg.mac \in Mac
      /\ Record(arg.pkt, Forwarded(arg.pkt, arg.mac))
      /\ UNCHANGED <<heap, cur, pkts, seen>> /\ pc' = [pc EXCEPT !["main"] = "idle"]
  BY DEF ForwardHit, cacheVars, handlerVars, Inv, ArgsGiven
<1>2. PICK p \in Packet : p = arg.pkt
  BY <1>1
<1>3. /\ p \in seen /\ outcome[p] = <<>>
      /\ \A a \in ReqAddr : \A i \in DOMAIN Held(a) : Held(a)[i] # p
  BY <1>2, NullAssumption DEF FateInv, PlacedOnce
<1>4. /\ \A q \in Packet : q # p => outcome'[q] = outcome[q]
      /\ Len(outcome'[p]) = 1
  <2>1. Forwarded(arg.pkt, arg.mac) \in Outcome
    BY <1>1, FunAssumption DEF Forwarded, Outcome
  <2>2. TypeOK
    BY DEF Inv
  <2>3. Len(outcome[p]) = 0
    BY <1>3
  <2>4. /\ \A q \in Packet : q # p => outcome'[q] = outcome[q]
        /\ Len(outcome'[p]) = Len(outcome[p]) + 1
    <3> HIDE DEF Outcome
    <3> QED BY <1>1, <1>2, <2>1, <2>2, Recorded
  <2> QED BY <2>3, <2>4
<1>5. \A a \in ReqAddr : Held(a)' = Held(a)
  BY <1>1 DEF Held
<1>6. \A a \in ReqAddr : \A i \in DOMAIN Held(a) :
         Held(a)[i] \in Packet /\ outcome'[Held(a)[i]] = outcome[Held(a)[i]]
  BY <1>3, <1>4, HeldType DEF Inv
<1>7. ArgClear' /\ arg'.pkt = Null
  BY <1>1 DEF ArgClear, NoArg
<1>8. PlacedOnce'
  <2>1. \A q \in Packet : q # Null
    BY NullAssumption
  <2> QED BY <1>1, <1>3, <1>4, <1>5, <1>6, <1>7, <2>1 DEF FateInv, PlacedOnce
<1>9. \A t \in Thread : Walking(t)' <=> Walking(t)
  BY <1>1 DEF Walking, Inv, TypeOK, Thread
<1>10. \A a \in ReqAddr : ReplyOwns(a)' <=> ReplyOwns(a)
  BY <1>1 DEF ReplyOwns, Inv, TypeOK, Thread
<1>11. WalkPlace'
  BY <1>1, <1>9 DEF FateInv, WalkPlace, Held
<1>12. SettledInPassing'
  BY <1>1, <1>5, <1>6, <1>9, <1>10 DEF FateInv, SettledInPassing, Passed, OnlyUnreachable
<1>13. OneFate'
  <2>1. OneFate
    BY DEF FateInv
  <2>2. Len(outcome'[p]) <= 2 /\ Len(outcome'[p]) # 2
    BY <1>4
  <2> QED BY <1>4, <2>1, <2>2 DEF OneFate
<1> QED BY <1>7, <1>8, <1>11, <1>12, <1>13 DEF FateInv

(* Main's packet joins a request while nobody walks over any. *)
LEMMA FateQueue ==
    ASSUME Inv, FateInv, QueueReq
    PROVE  FateInv'
<1> USE NullFacts
<1>1. /\ pc["main"] = "miss" /\ pc["timeout"] = "sleep" /\ arg.pkt \in Packet
      /\ pc' = [pc EXCEPT !["main"] = "check"] /\ arg' = NoArg
      /\ UNCHANGED <<pkts, seen, outcome>>
  BY QueueReqEffect
<1>2. PICK q \in Packet : q = arg.pkt
  BY <1>1
<1>3. PICK a \in ReqAddr :
          /\ \A b \in ReqAddr : b # a => heap'[b] = heap[b]
          /\ heap'[a] # Null /\ heap'[a].packets = <<q>> \o Held(a)
  BY <1>2, QueueReqEffect
<1>4. /\ q \in seen /\ outcome[q] = <<>>
      /\ \A b \in ReqAddr : \A i \in DOMAIN Held(b) : Held(b)[i] # q
  BY <1>2, NullAssumption DEF FateInv, PlacedOnce
<1>5. /\ \A t \in Thread : ~Walking(t) /\ ~Walking(t)'
      /\ \A b \in ReqAddr : ~ReplyOwns(b) /\ ~ReplyOwns(b)'
  BY <1>1 DEF Walking, ReplyOwns, Inv, TypeOK, Thread
<1>6. /\ Held(a)' = <<q>> \o Held(a)
      /\ \A b \in ReqAddr : b # a => Held(b)' = Held(b)
  BY <1>3 DEF Held
<1>7. /\ DOMAIN Held(a)' = 1 .. Len(Held(a)) + 1 /\ Held(a)'[1] = q
      /\ Len(Held(a)) \in Nat /\ DOMAIN Held(a) = 1 .. Len(Held(a))
      /\ \A i \in 2 .. Len(Held(a)) + 1 : Held(a)'[i] = Held(a)[i - 1]
  <2>1. Held(a) \in Seq(Packet)
    BY HeldType DEF Inv
  <2> QED BY <1>6, <2>1
<1> DEFINE new(b, i) == b = a /\ i = 1
           old(b, i) == IF b = a THEN i - 1 ELSE i
<1>8. ASSUME NEW b \in ReqAddr, NEW i \in DOMAIN Held(b)'
      PROVE  \/ new(b, i) /\ Held(b)'[i] = q
             \/ /\ ~new(b, i) /\ old(b, i) \in DOMAIN Held(b)
                /\ Held(b)'[i] = Held(b)[old(b, i)]
  <2>1. CASE b # a
    BY <1>6, <1>8, <2>1
  <2>2. CASE b = a /\ i = 1
    BY <1>7, <2>2
  <2>3. CASE b = a /\ i # 1
    BY <1>7, <1>8, <2>3
  <2> QED BY <2>1, <2>2, <2>3
<1>9. ASSUME NEW b \in ReqAddr, NEW i \in DOMAIN Held(b)'
      PROVE  /\ Held(b)'[i] \in seen /\ outcome[Held(b)'[i]] = <<>>
             /\ Held(b)'[i] \in Packet
  <2>1. \A k \in DOMAIN Held(b) : /\ Held(b)[k] \in seen /\ outcome[Held(b)[k]] = <<>>
                                  /\ Held(b)[k] \in Packet
    BY <1>5, NobodyPassed, HeldType DEF FateInv, PlacedOnce, Inv
  <2> HIDE DEF new, old
  <2> QED BY <1>4, <1>8, <1>9, <2>1
<1>10. ASSUME NEW b \in ReqAddr, NEW c \in ReqAddr,
              NEW i \in DOMAIN Held(b)', NEW j \in DOMAIN Held(c)',
              Held(b)'[i] = Held(c)'[j]
       PROVE  b = c /\ i = j
  <2>1. new(b, i) <=> new(c, j)
    <3> HIDE DEF new, old
    <3> QED BY <1>4, <1>8, <1>10
  <2>2. CASE new(b, i) /\ new(c, j)
    BY <2>2
  <2>3. CASE ~new(b, i) /\ ~new(c, j)
    <3>1. /\ old(b, i) \in DOMAIN Held(b) /\ old(c, j) \in DOMAIN Held(c)
          /\ Held(b)[old(b, i)] = Held(c)[old(c, j)]
      <4> HIDE DEF new, old
      <4> QED BY <1>8, <1>10, <2>3
    <3>2. b = c /\ old(b, i) = old(c, j)
      <4> HIDE DEF new, old
      <4> QED BY <3>1 DEF FateInv, PlacedOnce
    <3>3. b = a => i \in Nat /\ j \in Nat
      BY <1>7, <1>10, <3>2
    <3> QED BY <3>2, <3>3
  <2> QED BY <2>1, <2>2, <2>3
<1>11. PlacedOnce'
  <2>1. arg'.pkt = Null
    BY <1>1 DEF NoArg
  <2>2. \A p \in Packet : p # Null
    BY NullAssumption
  <2>3. \A p \in Packet : p \notin seen => outcome[p] = <<>>
    BY DEF FateInv, PlacedOnce
  <2> HIDE DEF new, old
  <2> QED BY <1>1, <1>9, <1>10, <2>1, <2>2, <2>3 DEF PlacedOnce
<1>12. SettledInPassing'
  <2> SUFFICES ASSUME NEW b \in ReqAddr, NEW i \in DOMAIN Held(b)'
              PROVE  /\ outcome[Held(b)'[i]] = <<>> /\ Len(outcome[Held(b)'[i]]) <= 1
                     /\ \A k \in DOMAIN outcome[Held(b)'[i]] : FALSE
    BY <1>1 DEF SettledInPassing, OnlyUnreachable
  <2>1. outcome[Held(b)'[i]] = <<>>
    BY <1>9
  <2> QED BY <2>1
<1>13. ArgClear' /\ WalkPlace' /\ OneFate'
  BY <1>1, <1>5 DEF ArgClear, NoArg, WalkPlace, FateInv, OneFate
<1> QED BY <1>11, <1>12, <1>13 DEF FateInv

(* Each step of a walk settles the packet it has reached: it is the first to do   *)
(* so, or both threads give up on it.                                             *)
LEMMA FateWalk ==
    ASSUME Inv, FateInv, NEW t \in Thread,
           SendUnreachable(t) \/ (t = "main" /\ SendQueued)
    PROVE  FateInv'
<1>1. PICK o \in Outcome :
        /\ Walking(t) /\ pkts[t] # <<>>
        /\ Record(Head(pkts[t]), o)
        /\ pkts' = [pkts EXCEPT ![t] = Tail(@)]
        /\ UNCHANGED <<heap, pc, cur, arg, seen>>
        /\ ~ReplyOwns(cur[t]) => o.how = "unreachable"
  <2>1. CASE SendUnreachable(t)
    <3>1. Head(pkts[t]) \in Packet
      BY <2>1, WalkHead DEF SendUnreachable, Inv
    <3>2. Unreachable(Head(pkts[t])) \in Outcome
          /\ Unreachable(Head(pkts[t])).how = "unreachable"
      BY <3>1, FunAssumption DEF Unreachable, Outcome
    <3> QED BY <2>1, <3>2 DEF SendUnreachable, InHandler, Walking, cacheVars
  <2>2. CASE t = "main" /\ SendQueued
    <3> DEFINE p == Head(pkts["main"])
               o == IF arg.iface = OutIface[p] THEN Forwarded(p, arg.mac) ELSE Dropped(p)
    <3>1. /\ pc["main"] = "reply" /\ pkts["main"] # <<>> /\ Record(p, o) /\ arg.mac \in Mac
          /\ Walking("main")
      BY <2>2 DEF SendQueued, InHandler, Inv, ArgsGiven, Walking
    <3>2. o \in Outcome
      BY <3>1, WalkHead, FunAssumption DEF Forwarded, Dropped, Outcome, Inv, Thread
    <3>3. ReplyOwns(cur["main"])
      BY <3>1 DEF ReplyOwns
    <3> HIDE DEF o
    <3> QED BY <2>2, <3>1, <3>2, <3>3 DEF SendQueued, cacheVars
  <2> QED BY <2>1, <2>2
<1>22. PICK h \in Packet, a \in ReqAddr : h = Head(pkts[t]) /\ a = cur[t]
  <2>1. Head(pkts[t]) \in Packet /\ cur[t] \in ReqAddr
    BY <1>1, WalkAt DEF Inv, TypeOK
  <2> QED BY <2>1
<1>2. PICK n \in DOMAIN Held(a) :
        /\ n + Len(pkts[t]) = Len(Held(a)) + 1 /\ Held(a)[n] = h /\ ~Passed(t, a, n)
  BY <1>1, <1>22, WalkAt
<1>3. /\ h \in seen /\ Len(outcome[h]) <= 1
      /\ ReplyOwns(a) => outcome[h] = <<>>
      /\ ~ReplyOwns(a) => OnlyUnreachable(h)
  BY <1>1, <1>22, WalkAt
<1>4. /\ Len(pkts[t]) \in Nat /\ Len(pkts[t]) > 0
      /\ DOMAIN pkts[t] = 1 .. Len(pkts[t])
      /\ pkts'[t] = Tail(pkts[t]) /\ Len(pkts'[t]) = Len(pkts[t]) - 1
      /\ DOMAIN pkts'[t] = 1 .. Len(pkts[t]) - 1
      /\ \A j \in 1 .. Len(pkts[t]) - 1 : pkts'[t][j] = pkts[t][j + 1]
      /\ \A u \in Thread : u # t => pkts'[u] = pkts[u]
  BY <1>1, WalkHead DEF Inv, TypeOK
<1>5. /\ \A q \in Packet : q # h => outcome'[q] = outcome[q]
      /\ Len(outcome[h]) \in Nat /\ Len(outcome'[h]) = Len(outcome[h]) + 1
      /\ DOMAIN outcome'[h] = 1 .. Len(outcome[h]) + 1
      /\ DOMAIN outcome[h] = 1 .. Len(outcome[h])
      /\ \A i \in DOMAIN outcome[h] : outcome'[h][i] = outcome[h][i]
      /\ outcome'[h][Len(outcome[h]) + 1] = o
  <2>1. o \in Outcome /\ TypeOK /\ Record(h, o)
    BY <1>1, <1>22 DEF Inv
  <2> HIDE DEF Outcome
  <2> QED BY <2>1, Recorded
<1>6. \A b \in ReqAddr : /\ Held(b)' = Held(b) /\ Len(Held(b)) \in Nat
                         /\ DOMAIN Held(b) = 1 .. Len(Held(b))
                         /\ \A i \in DOMAIN Held(b) : Held(b)[i] \in Packet
  BY <1>1, HeldType DEF Held, Inv
<1>7. /\ \A u \in Thread : Walking(u)' <=> Walking(u)
      /\ \A b \in ReqAddr : ReplyOwns(b)' <=> ReplyOwns(b)
      /\ ArgClear'
  BY <1>1 DEF Walking, ReplyOwns, FateInv, ArgClear
<1>8. ~ReplyOwns(a) => \A k \in DOMAIN outcome'[h] : outcome'[h][k].how = "unreachable"
  BY <1>1, <1>22, <1>3, <1>5 DEF OnlyUnreachable
<1>9. PlacedOnce'
  <2>1. arg.pkt # h
    BY <1>2, <1>3 DEF FateInv, PlacedOnce
  <2>2. arg.pkt # Null => arg.pkt \in seen /\ outcome'[arg.pkt] = <<>>
    <3>1. arg.pkt # Null => arg.pkt \in Packet
      BY DEF Inv, TypeOK
    <3> QED BY <1>5, <2>1, <3>1 DEF FateInv, PlacedOnce
  <2> QED BY <1>1, <1>3, <1>5, <1>6, <2>2 DEF FateInv, PlacedOnce
<1>10. WalkPlace'
  <2>1. ASSUME NEW u \in Thread, Walking(u), NEW b \in ReqAddr, b = cur[u]
        PROVE  /\ Len(pkts'[u]) <= Len(Held(b))
               /\ \A j \in DOMAIN pkts'[u] :
                    pkts'[u][j] = Held(b)[Len(Held(b)) - Len(pkts'[u]) + j]
    <3>1. /\ Len(pkts[u]) <= Len(Held(b))
          /\ \A j \in DOMAIN pkts[u] :
               pkts[u][j] = Held(b)[Len(Held(b)) - Len(pkts[u]) + j]
      BY <2>1 DEF FateInv, WalkPlace
    <3>2. CASE u # t
      BY <1>4, <3>1, <3>2
    <3>3. CASE u = t
      <4>1. Len(pkts'[t]) <= Len(Held(b))
        BY <1>4, <1>6, <3>1, <3>3
      <4>2. ASSUME NEW j \in DOMAIN pkts'[t]
            PROVE  pkts'[t][j] = Held(b)[Len(Held(b)) - Len(pkts'[t]) + j]
        <5>1. j + 1 \in DOMAIN pkts[t] /\ pkts'[t][j] = pkts[t][j + 1]
          BY <1>4, <4>2
        <5>2. pkts[t][j + 1] = Held(b)[Len(Held(b)) - Len(pkts[t]) + (j + 1)]
          BY <3>1, <3>3, <5>1
        <5>3. Len(Held(b)) - Len(pkts[t]) + (j + 1) = Len(Held(b)) - Len(pkts'[t]) + j
          BY <1>4, <1>6, <4>2
        <5> QED BY <5>1, <5>2, <5>3
      <4> QED BY <3>3, <4>1, <4>2
    <3> QED BY <3>2, <3>3
  <2>2. \A u \in Thread : Walking(u) => cur[u] \in ReqAddr
    BY DEF Walking, Inv, ArgsGiven, HandlerPC
  <2>3. ASSUME NEW u \in Thread, Walking(u)', NEW b \in ReqAddr, b = cur'[u]
        PROVE  /\ Len(pkts'[u]) <= Len(Held(b)')
               /\ \A j \in DOMAIN pkts'[u] :
                    pkts'[u][j] = Held(b)'[Len(Held(b)') - Len(pkts'[u]) + j]
    <3>1. Held(b)' = Held(b) /\ Walking(u) /\ b = cur[u]
      BY <1>1, <1>6, <1>7, <2>3
    <3>2. /\ Len(pkts'[u]) <= Len(Held(b))
          /\ \A j \in DOMAIN pkts'[u] :
               pkts'[u][j] = Held(b)[Len(Held(b)) - Len(pkts'[u]) + j]
      BY <2>1, <3>1
    <3> QED BY <3>1, <3>2
  <2>4. \A u \in Thread : Walking(u)' => cur'[u] \in ReqAddr
    BY <1>1, <1>7, <2>2
  <2> QED BY <2>3, <2>4 DEF WalkPlace, Held
<1>11. ASSUME NEW b \in ReqAddr, NEW i \in DOMAIN Held(b), NEW u \in Thread
       PROVE  Passed(u, b, i)' <=> Passed(u, b, i) \/ (u = t /\ b = a /\ i = n)
  <2>1. Passed(u, b, i)' <=> Walking(u) /\ cur[u] = b /\ i + Len(pkts'[u]) <= Len(Held(b))
    BY <1>1, <1>6, <1>7 DEF Passed
  <2>2. CASE u # t
    BY <1>4, <2>1, <2>2 DEF Passed
  <2>3. CASE u = t /\ b # a
    BY <1>22, <2>1, <2>3 DEF Passed
  <2>4. CASE u = t /\ b = a
    <3>1. i \in Nat /\ n \in Nat
      BY <1>2, <1>3, <1>6, <2>4
    <3>2. i + (Len(pkts[t]) - 1) <= Len(Held(b)) <=> i + Len(pkts[t]) <= Len(Held(b)) \/ i = n
      BY <1>2, <1>4, <1>6, <2>4, <3>1
    <3> QED BY <1>1, <1>4, <2>1, <2>4, <1>22, <3>2 DEF Passed
  <2> QED BY <2>2, <2>3, <2>4
<1>12. SettledInPassing'
  <2> SUFFICES ASSUME NEW b \in ReqAddr, NEW i \in DOMAIN Held(b)
              PROVE  /\ (\A u \in Thread : ~Passed(u, b, i)') => outcome'[Held(b)[i]] = <<>>
                     /\ (\E u \in Thread : ~Passed(u, b, i)') =>
                          Len(outcome'[Held(b)[i]]) <= 1
                     /\ ~ReplyOwns(b) => \A k \in DOMAIN outcome'[Held(b)[i]] :
                                            outcome'[Held(b)[i]][k].how = "unreachable"
    BY <1>1, <1>6, <1>7 DEF SettledInPassing, OnlyUnreachable
  <2>1. CASE b = a /\ i = n
    <3>1. Passed(t, b, i)' /\ Held(b)[i] = h
      BY <1>2, <1>11, <2>1
    <3>2. ASSUME NEW u \in Thread, ~Passed(u, b, i)'
          PROVE  Len(outcome'[h]) <= 1
      <4>1. u # t /\ \A v \in Thread : ~Passed(v, b, i)
        <5>1. u # t
          BY <3>1, <3>2
        <5>2. ~Passed(u, b, i)
          BY <1>11, <3>2
        <5>3. ~Passed(t, b, i)
          BY <1>2, <2>1
        <5> QED BY <5>1, <5>2, <5>3 DEF Thread
      <4>2. outcome[h] = <<>>
        BY <3>1, <4>1 DEF FateInv, SettledInPassing
      <4>3. Len(outcome[h]) = 0
        BY <4>2
      <4> QED BY <1>5, <4>3
    <3> QED BY <1>8, <2>1, <3>1, <3>2
  <2>2. CASE ~(b = a /\ i = n)
    <3>1. Held(b)[i] # h /\ Held(b)[i] \in Packet
      BY <1>2, <1>3, <1>6, <2>2 DEF FateInv, PlacedOnce
    <3>2. outcome'[Held(b)[i]] = outcome[Held(b)[i]]
      BY <1>5, <3>1
    <3>3. \A u \in Thread : Passed(u, b, i)' <=> Passed(u, b, i)
      BY <1>11, <2>2
    <3> QED BY <3>2, <3>3 DEF FateInv, SettledInPassing, OnlyUnreachable
  <2> QED BY <2>1, <2>2
<1>13. OneFate'
  <2> SUFFICES ASSUME NEW p \in Packet
              PROVE  /\ Len(outcome'[p]) <= 2
                     /\ Len(outcome'[p]) = 2 =>
                          \A i \in 1 .. 2 : outcome'[p][i].how = "unreachable"
    BY DEF OneFate
  <2>1. CASE p # h
    BY <1>5, <2>1 DEF FateInv, OneFate
  <2>2. CASE p = h /\ ReplyOwns(a)
    <3>1. Len(outcome[h]) = 0
      <4>1. outcome[h] = <<>>
        BY <1>3, <2>2
      <4> QED BY <4>1
    <3>2. Len(outcome'[h]) <= 2 /\ Len(outcome'[h]) # 2
      BY <1>5, <3>1
    <3> QED BY <2>2, <3>2
  <2>3. CASE p = h /\ ~ReplyOwns(a)
    <3>1. Len(outcome'[h]) <= 2
      BY <1>3, <1>5
    <3>2. Len(outcome'[h]) = 2 => 1 \in DOMAIN outcome'[h] /\ 2 \in DOMAIN outcome'[h]
      <4>1. Len(outcome'[h]) = 2 => DOMAIN outcome'[h] = 1 .. 2
        BY <1>5
      <4> QED BY <4>1
    <3>3. \A i \in 1 .. 2 : i = 1 \/ i = 2
      OBVIOUS
    <3> QED BY <1>8, <2>3, <3>1, <3>2, <3>3
  <2> QED BY <2>1, <2>2, <2>3
<1> QED BY <1>7, <1>9, <1>10, <1>12, <1>13 DEF FateInv

(* A destroyed request takes its list with it; nobody else walks over it. *)
LEMMA FateDestroy ==
    ASSUME Inv, FateInv, NEW t \in Thread, Destroy(t)
    PROVE  FateInv'
<1>1. /\ Walking(t) /\ Return(t) /\ UNCHANGED <<seen, outcome>> /\ cur[t] \in ReqAddr
      /\ HandleArpreq(t) /\ StepWith(AnyReply)
  BY DestroyEffect DEF HandleArpreq, StepWith, MainStep, TimeoutStep, Thread
<1>2. PICK a \in ReqAddr : a = cur[t]
  BY <1>1
<1>3. /\ heap'[a] = Null /\ Held(a)' = <<>>
      /\ \A b \in ReqAddr : b # a => heap'[b] = heap[b] /\ Held(b)' = Held(b)
  BY <1>2, DestroyEffect DEF Held
<1>4. DOMAIN Held(a)' = {}
  BY <1>3
<1>5. ArgClear' /\ arg'.pkt \in {arg.pkt, Null}
  <2>1. arg' = arg \/ arg' = NoArg
    BY <1>1 DEF Return
  <2> QED BY <1>1, <2>1, ArgKept DEF FateInv, NoArg
<1>6. \A b \in ReqAddr : \A i \in DOMAIN Held(b)' :
         b # a /\ i \in DOMAIN Held(b) /\ Held(b)'[i] = Held(b)[i] /\ Held(b)[i] \in Packet
  <2>1. \A b \in ReqAddr : \A i \in DOMAIN Held(b) : Held(b)[i] \in Packet
    BY HeldType DEF Inv
  <2> QED BY <1>3, <1>4, <2>1
<1>7. PlacedOnce'
  <2>1. \A p \in Packet : p # Null
    BY NullAssumption
  <2> QED BY <1>1, <1>5, <1>6, <2>1 DEF FateInv, PlacedOnce
<1>8. ~Walking(t)'
  <2>1. pc'[t] \notin {"giveup", "reply"}
    BY <1>1 DEF Return, Inv, TypeOK
  <2> QED BY <2>1 DEF Walking
<1>9. ASSUME NEW u \in Thread, u # t
      PROVE  /\ pc'[u] = pc[u] /\ cur'[u] = cur[u] /\ pkts'[u] = pkts[u]
             /\ Walking(u)' => Walking(u) /\ cur[u] \in ReqAddr /\ cur[u] # a
             /\ Walking(u) /\ cur[u] # a => Walking(u)'
  <2>1. pc'[u] = pc[u] /\ cur'[u] = cur[u] /\ pkts'[u] = pkts[u]
    BY <1>1, <1>9, HandlerMoves
  <2>2. pc[u] \in {"giveup", "reply"} => cur[u] \in ReqAddr
    BY DEF Inv, ArgsGiven, HandlerPC
  <2> QED BY <1>3, <2>1, <2>2 DEF Walking
<1>10. WalkPlace'
  <2>1. ASSUME NEW u \in Thread, Walking(u)', NEW b \in ReqAddr, b = cur'[u]
        PROVE  /\ Len(pkts'[u]) <= Len(Held(b)')
               /\ \A j \in DOMAIN pkts'[u] :
                    pkts'[u][j] = Held(b)'[Len(Held(b)') - Len(pkts'[u]) + j]
    <3>1. u # t /\ Walking(u) /\ b = cur[u] /\ pkts'[u] = pkts[u] /\ b # a
      BY <1>8, <1>9, <2>1
    <3>2. Held(b)' = Held(b)
      BY <1>3, <3>1
    <3> QED BY <3>1, <3>2 DEF FateInv, WalkPlace
  <2>2. \A u \in Thread : Walking(u)' => cur'[u] \in ReqAddr
    BY <1>8, <1>9
  <2> QED BY <2>1, <2>2 DEF WalkPlace, Held
<1>11. ASSUME NEW b \in ReqAddr, NEW i \in DOMAIN Held(b), b # a, NEW u \in Thread
       PROVE  Passed(u, b, i)' <=> Passed(u, b, i)
  <2>1. CASE u = t
    BY <1>2, <1>8, <1>11, <2>1 DEF Passed
  <2>2. CASE u # t
    BY <1>3, <1>9, <1>11, <2>2 DEF Passed
  <2> QED BY <2>1, <2>2
<1>12. \A b \in ReqAddr : b # a => (ReplyOwns(b) => ReplyOwns(b)')
  <2>1. CASE t = "main"
    BY <1>2, <2>1 DEF ReplyOwns
  <2>2. CASE t = "timeout"
    BY <1>9, <2>2 DEF ReplyOwns, Thread
  <2> QED BY <2>1, <2>2 DEF Thread
<1>13. SettledInPassing'
  <2> SUFFICES ASSUME NEW b \in ReqAddr, NEW i \in DOMAIN Held(b)'
              PROVE  /\ (\A u \in Thread : ~Passed(u, b, i)') => outcome[Held(b)'[i]] = <<>>
                     /\ (\E u \in Thread : ~Passed(u, b, i)') =>
                          Len(outcome[Held(b)'[i]]) <= 1
                     /\ ~ReplyOwns(b)' => \A k \in DOMAIN outcome[Held(b)'[i]] :
                                             outcome[Held(b)'[i]][k].how = "unreachable"
    BY <1>1 DEF SettledInPassing, OnlyUnreachable
  <2>1. b # a /\ i \in DOMAIN Held(b) /\ Held(b)'[i] = Held(b)[i]
    BY <1>6
  <2> QED BY <1>11, <1>12, <2>1 DEF FateInv, SettledInPassing, OnlyUnreachable
<1>14. OneFate'
  BY <1>1 DEF FateInv, OneFate
<1> QED BY <1>5, <1>7, <1>10, <1>13, <1>14 DEF FateInv

(* Nothing has happened to any packet at the start. *)
LEMMA FateInit ==
    ASSUME Init
    PROVE  FateInv
<1>1. /\ \A a \in ReqAddr : DOMAIN Held(a) = {}
      /\ \A t \in Thread : ~Walking(t)
      /\ arg.pkt = Null
      /\ \A p \in Packet : outcome[p] = <<>>
  BY DEF Init, Held, Walking, NoArg, Thread
<1>2. ASSUME NEW p \in Packet
      PROVE  Len(outcome[p]) <= 2 /\ Len(outcome[p]) # 2
  <2>1. outcome[p] = <<>>
    BY <1>1
  <2>2. Len(outcome[p]) = 0
    BY <2>1
  <2> QED BY <2>2
<1>3. OneFate
  BY <1>2 DEF OneFate
<1>4. ArgClear
  BY <1>1 DEF ArgClear
<1> QED BY <1>1, <1>3, <1>4 DEF FateInv, PlacedOnce, WalkPlace, SettledInPassing

(* Together. *)
LEMMA FateStep ==
    ASSUME Inv, FateInv, StepWith(AnyReply)
    PROVE  FateInv'
<1>1. ASSUME NEW t \in Thread, HandleArpreq(t)
      PROVE  FateInv'
  <2>1. CASE SendUnreachable(t)
    BY <2>1, FateWalk
  <2>2. CASE Destroy(t)
    BY <2>2, FateDestroy
  <2> QED BY <1>1, <2>1, <2>2, FateHandler DEF HandleArpreq
<1>2. CASE SendQueued
  BY <1>2, FateWalk DEF Thread
<1> QED BY <1>1, <1>2, FateOutside, FateLookup, FateForward, FateQueue
        DEF StepWith, MainStep, TimeoutStep, Thread

(* The fate of packets along a behaviour of the cache. *)
LEMMA FateNext == Inv /\ FateInv /\ [Next]_vars => FateInv'
<1> SUFFICES ASSUME Inv, FateInv, [Next]_vars PROVE FateInv'
  OBVIOUS
<1>1. CASE Next
  <2>1. StepWith(AnyReply)
    BY <1>1, NextIsStep DEF StepWith
  <2> QED BY <2>1, FateStep
<1>2. CASE UNCHANGED vars
  <2>1. /\ UNCHANGED <<heap, pc, cur, pkts, arg, seen, outcome>>
        /\ \A a \in ReqAddr : Held(a)' = Held(a) /\ (ReplyOwns(a)' <=> ReplyOwns(a))
        /\ \A t \in Thread : Walking(t)' <=> Walking(t)
    BY <1>2 DEF vars, Held, Walking, ReplyOwns
  <2>2. ArgClear' /\ OneFate'
    BY <2>1 DEF FateInv, ArgClear, OneFate
  <2>3. \A t \in Thread : Walking(t) => cur[t] \in ReqAddr
    BY DEF Walking, Inv, ArgsGiven, HandlerPC
  <2> QED BY <2>1, <2>2, <2>3, FateFrame
<1> QED BY <1>1, <1>2

(* OneFate for any number of packets, requests and replies: whatever main and     *)
(* the sweep do to a request that both work on, a packet is delivered once at     *)
(* most, and nothing contradicts what its sender was told.                        *)
THEOREM PacketsHaveOneFate == Spec => []OneFate
<1>1. FateInv => OneFate
  BY DEF FateInv
<1>2. Init => FateInv
  BY FateInit
<1> QED BY <1>1, <1>2, FateNext, Invariance, PTL DEF Spec

-----------------------------------------------------------------------------
(* The cache implements Delivery. *)

(* Recording what became of a packet settles it, or repeats what was said of it. *)
LEMMA RecordSettles ==
    ASSUME Inv, NEW h \in Packet, NEW o \in Outcome, Record(h, o), h \in seen,
           alive, UNCHANGED <<seen, alive>>,
           outcome[h] = <<>> \/ (OnlyUnreachable(h) /\ o.how = "unreachable")
    PROVE  [D!Next]_(D!vars)
<1>1. /\ \A q \in Packet : q # h => outcome'[q] = outcome[q]
      /\ Len(outcome[h]) \in Nat /\ Len(outcome'[h]) = Len(outcome[h]) + 1
      /\ DOMAIN outcome[h] = 1 .. Len(outcome[h])
      /\ outcome'[h][Len(outcome[h]) + 1] = o
  <2>1. TypeOK
    BY DEF Inv
  <2> HIDE DEF Outcome
  <2> QED BY <2>1, Recorded
<1>2. Fate(h)' = o.how /\ o.how \in D!Final
  <2>1. outcome'[h] # <<>>
    <3>1. Len(outcome'[h]) # 0
      BY <1>1
    <3>2. Len(<<>>) = 0
      OBVIOUS
    <3> QED BY <3>1, <3>2
  <2>2. outcome'[h][Len(outcome'[h])] = o
    BY <1>1
  <2> QED BY <2>1, <2>2 DEF Fate, Outcome, D!Final
<1>3. \A q \in Packet : q # h => Fate(q)' = Fate(q)
  BY <1>1 DEF Fate
<1> DEFINE F == [p \in Packet |-> Fate(p)]
<1>4. CASE outcome[h] = <<>>
  <2>1. Fate(h) = "waiting"
    BY <1>4 DEF Fate
  <2>2. F' = [F EXCEPT ![h] = o.how]
    BY <1>2, <1>3
  <2>3. D!Settle(h)
    BY <1>2, <2>1, <2>2 DEF D!Settle
  <2> QED BY <2>3 DEF D!Next
<1>5. CASE outcome[h] # <<>> /\ OnlyUnreachable(h) /\ o.how = "unreachable"
  <2>1. Len(outcome[h]) \in DOMAIN outcome[h]
    <3>1. outcome[h] \in Seq(Outcome)
      BY DEF Inv, TypeOK
    <3>2. Len(outcome[h]) # 0
      <4> HIDE DEF Outcome
      <4> QED BY <1>5, <3>1
    <3> QED BY <1>1, <3>2
  <2>2. Fate(h) = "unreachable"
    BY <1>5, <2>1 DEF Fate, OnlyUnreachable
  <2>3. F' = F
    BY <1>2, <1>3, <1>5, <2>2
  <2> QED BY <2>3 DEF D!vars
<1> QED BY <1>4, <1>5

(* Steps that record nothing and take no packet in. *)
LEMMA QuietStep ==
    ASSUME UNCHANGED <<seen, outcome>>, alive, alive' \in {alive, FALSE}
    PROVE  [D!Next]_(D!vars)
<1>1. [p \in Packet |-> Fate(p)]' = [p \in Packet |-> Fate(p)]
  BY DEF Fate
<1>2. CASE alive' = alive
  BY <1>1, <1>2 DEF D!vars
<1>3. CASE alive' = FALSE
  BY <1>1, <1>3 DEF D!Next, D!GoDown
<1> QED BY <1>2, <1>3

(* Each step of the cache accepts a packet, settles one, brings the process      *)
(* down, or is none of Delivery's business.                                      *)
LEMMA StepDelivers ==
    ASSUME Inv, FateInv, StepWith(AnyReply)
    PROVE  [D!Next]_(D!vars)
<1>1. CASE \E p \in Packet : Lookup(p)
  <2>1. PICK p \in Packet : Lookup(p)
    BY <1>1
  <2>2. /\ alive /\ p \notin seen /\ seen' = seen \cup {p} /\ UNCHANGED <<outcome, alive>>
    BY <2>1 DEF Lookup
  <2>3. Fate(p) = "new" /\ Fate(p)' = "waiting"
    BY <2>2 DEF Fate, FateInv, PlacedOnce
  <2>4. \A q \in Packet : q # p => Fate(q)' = Fate(q)
    BY <2>2 DEF Fate
  <2>5. D!Accept(p)
    BY <2>2, <2>3, <2>4 DEF D!Accept
  <2> QED BY <2>5 DEF D!Next
<1>2. CASE ForwardHit
  <2>1. /\ arg.pkt \in Packet /\ arg.mac \in Mac /\ alive /\ UNCHANGED <<seen, alive>>
        /\ Record(arg.pkt, Forwarded(arg.pkt, arg.mac))
    BY <1>2 DEF ForwardHit, Inv, ArgsGiven
  <2>2. Forwarded(arg.pkt, arg.mac) \in Outcome
    BY <2>1, FunAssumption DEF Forwarded, Outcome
  <2>3. arg.pkt \in seen /\ outcome[arg.pkt] = <<>>
    BY <2>1, NullAssumption DEF FateInv, PlacedOnce
  <2> QED BY <2>1, <2>2, <2>3, RecordSettles
<1>3. CASE \E t \in Thread : SendUnreachable(t)
  <2>1. PICK t \in Thread : SendUnreachable(t)
    BY <1>3
  <2>2. PICK h \in Packet : h = Head(pkts[t])
    BY <2>1, WalkHead DEF SendUnreachable, Inv
  <2>3. /\ Walking(t) /\ pkts[t] # <<>> /\ alive /\ UNCHANGED <<seen, alive>>
        /\ Record(h, Unreachable(h))
    BY <2>1, <2>2 DEF SendUnreachable, InHandler, Walking
  <2>4. Unreachable(h) \in Outcome /\ Unreachable(h).how = "unreachable"
    BY FunAssumption DEF Unreachable, Outcome
  <2>5. h \in seen /\ (outcome[h] = <<>> \/ OnlyUnreachable(h))
    BY <2>2, <2>3, WalkAt
  <2> QED BY <2>3, <2>4, <2>5, RecordSettles
<1>4. CASE SendQueued
  <2>1. PICK h \in Packet : h = Head(pkts["main"])
    BY <1>4, WalkHead DEF SendQueued, Inv, Thread
  <2> DEFINE o == IF arg.iface = OutIface[h] THEN Forwarded(h, arg.mac) ELSE Dropped(h)
  <2>2. /\ pc["main"] = "reply" /\ pkts["main"] # <<>> /\ Record(h, o) /\ arg.mac \in Mac
        /\ Walking("main") /\ alive /\ UNCHANGED <<seen, alive>>
    BY <1>4, <2>1 DEF SendQueued, InHandler, Inv, ArgsGiven, Walking
  <2>3. o \in Outcome
    BY <2>2, FunAssumption DEF Forwarded, Dropped, Outcome
  <2>4. ReplyOwns(cur["main"])
    BY <2>2 DEF ReplyOwns
  <2>5. h \in seen /\ outcome[h] = <<>>
    BY <2>1, <2>2, <2>4, WalkAt DEF Thread
  <2> HIDE DEF o
  <2> QED BY <2>2, <2>3, <2>5, RecordSettles
<1>5. CASE Tick
  <2>1. UNCHANGED <<seen, outcome, alive>>
    BY <1>5 DEF Tick
  <2>2. [p \in Packet |-> Fate(p)]' = [p \in Packet |-> Fate(p)]
    BY <2>1 DEF Fate
  <2> QED BY <2>1, <2>2 DEF D!vars
<1>6. CASE StartSweep \/ SweepRequest \/ FollowNext \/ EndSweep \/ QueueReq
           \/ \E r \in AnyReply : Insert(r)
  BY <1>6, QuietStep DEF StartSweep, SweepRequest, FollowNext, EndSweep, QueueReq, Insert
<1>7. CASE \E t \in Thread : HandleArpreq(t) /\ ~SendUnreachable(t)
  <2>1. PICK t \in Thread : HandleArpreq(t) /\ ~SendUnreachable(t)
    BY <1>7
  <2> QED BY <2>1, QuietStep DEF HandleArpreq, CheckSent, CheckTries, Resend, CountSend,
                                 Destroy, UseAfterFree, InHandler
<1> QED BY <1>1, <1>2, <1>3, <1>4, <1>5, <1>6, <1>7
        DEF StepWith, MainStep, TimeoutStep, Thread

(* The detailed specification implements the safety part of Delivery: each packet *)
(* that handle_ip_packet accepts is settled at most once, and nothing that the    *)
(* two threads do later says otherwise.                                           *)
THEOREM CacheDelivers == Spec => SettlesOnce
<1>1. Init => D!Init
  <2> SUFFICES ASSUME Init PROVE D!Init
    OBVIOUS
  <2>1. \A p \in Packet : Fate(p) = "new"
    BY DEF Init, Fate
  <2>2. alive = TRUE
    BY DEF Init
  <2> QED BY <2>1, <2>2 DEF D!Init
<1>2. Inv /\ FateInv /\ [Next]_vars => [D!Next]_(D!vars)
  <2> SUFFICES ASSUME Inv, FateInv, [Next]_vars PROVE [D!Next]_(D!vars)
    OBVIOUS
  <2>1. CASE Next
    <3>1. StepWith(AnyReply)
      BY <2>1, NextIsStep DEF StepWith
    <3> QED BY <3>1, StepDelivers
  <2>2. CASE UNCHANGED vars
    <3>1. UNCHANGED <<seen, outcome, alive>>
      BY <2>2 DEF vars
    <3>2. [p \in Packet |-> Fate(p)]' = [p \in Packet |-> Fate(p)]
      BY <3>1 DEF Fate
    <3> QED BY <3>1, <3>2 DEF D!vars
  <2> QED BY <2>1, <2>2
<1>3. Init => FateInv
  BY FateInit
<1> QED BY <1>1, <1>2, <1>3, FateNext, Invariance, PTL DEF Spec, SettlesOnce, D!Safety

=============================================================================
