------------------------------ MODULE ArpCache ------------------------------
(***************************************************************************)
(* The ARP cache and the ARP request queue of the router (sr_arpcache.c)   *)
(* and the two code paths of sr_router.c that use them: forwarding an IP   *)
(* packet to its next hop, and servicing an ARP reply.                     *)
(*                                                                         *)
(* Two threads share the cache.  "main" reads one frame after the other    *)
(* from the VNS server and handles it to the end (sr_main.c's loop);       *)
(* "timeout" is sr_arpcache_timeout, which wakes up every second, expires  *)
(* entries and sweeps the request queue.  The mutex of the cache protects  *)
(* lookup, queuereq, insert, destroy and the whole sweep; handle_arpreq    *)
(* takes it only inside sr_arpreq_destroy, so when main calls it from      *)
(* handle_ip_packet the request is used WITHOUT the lock.  A section that  *)
(* main runs under the lock is one atomic action; everything that may      *)
(* interleave is a step of its own.                                        *)
(*                                                                         *)
(* Time is relative.  time(NULL) has a granularity of one second; Tick is  *)
(* the passing of one.  What the code stores as absolute seconds is kept   *)
(* as what the code asks of it: the age of an entry, saturating just past  *)
(* SR_ARPCACHE_TO, and whether a second has passed since a request was     *)
(* sent.                                                                   *)
(***************************************************************************)
EXTENDS Naturals, Sequences

CONSTANTS
    Packet,       \* the IP packets that arrive for forwarding, each once
    IP,           \* next-hop addresses
    Mac,          \* Ethernet addresses of the hosts around the router
    Iface,        \* the router's interfaces
    ReqAddr,      \* heap addresses calloc may return for a struct sr_arpreq
    Gw,           \* Packet -> IP: the next hop the routing table gives
    InIface,      \* Packet -> Iface: where the packet came in
    OutIface,     \* Packet -> Iface: the interface of its route
    Replies,      \* the ARP replies the network may deliver
    ArpcacheSz,   \* SR_ARPCACHE_SZ, 100 in the code
    ArpcacheTO,   \* SR_ARPCACHE_TO, 15 in the code
    MaxSends,     \* ARP requests before giving up, 5 in the code
    Null          \* the null pointer, and "no value"

ASSUME FunAssumption ==
    /\ Gw \in [Packet -> IP]
    /\ InIface \in [Packet -> Iface]
    /\ OutIface \in [Packet -> Iface]
    /\ Replies \subseteq [ip : IP, mac : Mac, iface : Iface]

ASSUME NumAssumption ==
    /\ ArpcacheSz \in Nat \ {0}
    /\ ArpcacheTO \in Nat
    /\ MaxSends \in Nat \ {0}

Thread == {"main", "timeout"}

Slot == 1 .. ArpcacheSz

Entry == [ip : IP, mac : Mac, age : 0 .. ArpcacheTO + 1]

\* struct sr_arpreq: due is difftime(time(NULL), sent) >= 1.0
Request == [ip : IP, due : BOOLEAN, times_sent : Nat, packets : Seq(Packet)]

Outcome == [how   : {"forwarded", "unreachable", "dropped"},
            iface : Iface,
            mac   : Mac \cup {Null}]

\* Null is none of the values it stands in for.
ASSUME NullAssumption ==
    /\ Null \notin Packet \cup Mac \cup Iface \cup ReqAddr
    /\ Null \notin Entry
    /\ Null \notin Request
    /\ Null # "timeout"

NoArg == [pkt |-> Null, mac |-> Null, iface |-> Null]

VARIABLES
    entries,   \* sr_arpcache.entries: a record for a valid slot, or Null
    requests,  \* sr_arpcache.requests: the linked list, newest first
    heap,      \* what each request address holds, Null when it is free
    lock,      \* the owner of sr_arpcache.lock, or Null
    pc,        \* where each thread is
    cur,       \* the request each thread works on (req, cached_arp_req)
    stale,     \* a second has passed since the thread read "now"
    reg,       \* times_sent as the thread loaded it for times_sent++
    pkts,      \* the packets of cur that the thread has still to walk over
    rest,      \* the requests the sweep reaches by next pointers after cur
    slept,     \* the timeout thread's sleep(1) may be over
    arg,       \* main: the packet, or the reply's mac and interface
    seen,      \* the packets that main has taken in
    outcome,   \* for each packet, what was sent or refused because of it
    alive      \* FALSE once the process has been killed by a memory fault

cacheVars == <<entries, requests, heap, lock>>
handlerVars == <<cur, stale, reg, pkts>>
vars == <<entries, requests, heap, lock, pc, cur, stale, reg, pkts, rest,
          slept, arg, seen, outcome, alive>>

-----------------------------------------------------------------------------
HandlerPC == {"check", "tries", "resend", "count", "giveup"}
MainPC == {"idle", "hit", "miss", "reply"} \cup HandlerPC
TimeoutPC == {"sleep", "sweep", "next"} \cup HandlerPC

(* Every variable has the shape its declaration says. *)
TypeOK ==
    /\ entries \in [Slot -> Entry \cup {Null}]
    /\ requests \in Seq(ReqAddr)
    /\ heap \in [ReqAddr -> Request \cup {Null}]
    /\ lock \in {Null, "timeout"}
    /\ pc \in [Thread -> MainPC \cup TimeoutPC]
    /\ pc["main"] \in MainPC /\ pc["timeout"] \in TimeoutPC
    /\ cur \in [Thread -> ReqAddr \cup {Null}]
    /\ stale \in [Thread -> BOOLEAN]
    /\ reg \in [Thread -> Nat]
    /\ pkts \in [Thread -> Seq(Packet)]
    /\ rest \in Seq(ReqAddr)
    /\ slept \in BOOLEAN
    /\ arg \in [pkt : Packet \cup {Null}, mac : Mac \cup {Null},
                iface : Iface \cup {Null}]
    /\ seen \in SUBSET Packet
    /\ outcome \in [Packet -> Seq(Outcome)]
    /\ alive \in BOOLEAN

-----------------------------------------------------------------------------
(* sr_arpcache_init; the threads before their first step. *)

Init ==
    /\ entries = [i \in Slot |-> Null]
    /\ requests = <<>>
    /\ heap = [a \in ReqAddr |-> Null]
    /\ lock = Null
    /\ pc = [t \in Thread |-> IF t = "main" THEN "idle" ELSE "sleep"]
    /\ cur = [t \in Thread |-> Null]
    /\ stale = [t \in Thread |-> TRUE]
    /\ reg = [t \in Thread |-> 0]
    /\ pkts = [t \in Thread |-> <<>>]
    /\ rest = <<>>
    /\ slept = FALSE
    /\ arg = NoArg
    /\ seen = {}
    /\ outcome = [p \in Packet |-> <<>>]
    /\ alive = TRUE

-----------------------------------------------------------------------------
(* Helpers. *)

\* Mutants: a plain mutex, and no mutex at all.
CanLock_NotRecursive(t) == lock = Null
CanLock_Ignored(t) == TRUE

\* PTHREAD_MUTEX_RECURSIVE: the owner may lock again.
CanLock(t) == lock \in {Null, t}

\* Mutant: the predecessor's next pointer is cleared.
Unlink_LosesNext(s, i) == SubSeq(s, 1, i - 1)

\* The list without its i-th element: prev->next = req->next.
Unlink(s, i) == [j \in 1 .. Len(s) - 1 |-> IF j < i THEN s[j] ELSE s[j + 1]]

\* i is where the walk over the queue for this ip stops.
QueuedAt(ip, i) ==
    /\ heap[requests[i]].ip = ip
    /\ \A j \in DOMAIN requests : j < i => heap[requests[j]].ip # ip

\* Mutant: the walk starts at the second request.
NotQueued_SkipsHead(ip) ==
    \A j \in DOMAIN requests : j > 1 => heap[requests[j]].ip # ip

NotQueued(ip) == \A j \in DOMAIN requests : heap[requests[j]].ip # ip

\* The frame for p left, or was refused, as o says.
Record(p, o) == outcome' = [outcome EXCEPT ![p] = Append(@, o)]

Forwarded(p, mac) ==
    [how |-> "forwarded", iface |-> OutIface[p], mac |-> mac]
Unreachable(p) ==
    [how |-> "unreachable", iface |-> OutIface[p], mac |-> Null]
Dropped(p) ==
    [how |-> "dropped", iface |-> OutIface[p], mac |-> Null]

\* handle_arpreq, or the reply path, is done with its request: main waits for
\* its next frame, the sweep follows the next pointer of the request.
Return(t) ==
    /\ pc' = [pc EXCEPT ![t] = IF t = "main" THEN "idle" ELSE "next"]
    /\ cur' = IF t = "main" THEN [cur EXCEPT ![t] = Null] ELSE cur
    /\ stale' = [stale EXCEPT ![t] = TRUE]
    /\ reg' = [reg EXCEPT ![t] = 0]
    /\ pkts' = [pkts EXCEPT ![t] = <<>>]
    /\ arg' = IF t = "main" THEN NoArg ELSE arg

-----------------------------------------------------------------------------
(* Time. *)

\* One second passes.
Tick ==
    /\ entries' = [i \in Slot |->
                     IF entries[i] = Null \/ entries[i].age > ArpcacheTO
                     THEN entries[i]
                     ELSE [entries[i] EXCEPT !.age = @ + 1]]
    /\ heap' = [a \in ReqAddr |->
                  IF heap[a] = Null THEN Null
                  ELSE [heap[a] EXCEPT !.due = TRUE]]
    /\ stale' = [t \in Thread |-> TRUE]
    /\ slept' = TRUE
    /\ UNCHANGED <<requests, lock, pc, cur, reg, pkts, rest, arg, seen,
                   outcome, alive>>

-----------------------------------------------------------------------------
(* handle_arpreq(sr, cur[t]), called by main without the lock and by the   *)
(* sweep with it.                                                          *)

InHandler(t, l) == alive /\ pc[t] = l /\ heap[cur[t]] # Null

\* now = time(NULL); difftime(now, req->sent) >= 1.0
CheckSent(t) ==
    /\ InHandler(t, "check")
    /\ \/ /\ heap[cur[t]].due
          /\ pc' = [pc EXCEPT ![t] = "tries"]
          /\ stale' = [stale EXCEPT ![t] = FALSE]
          /\ UNCHANGED <<cur, reg, pkts, arg>>
       \/ /\ ~heap[cur[t]].due
          /\ Return(t)
    /\ UNCHANGED <<cacheVars, rest, slept, seen, outcome, alive>>

\* Mutant: the fifth request is not sent.
Exhausted_OneEarly(req) == req.times_sent + 1 >= MaxSends

Exhausted(req) == req.times_sent >= MaxSends

\* req->times_sent >= 5
CheckTries(t) ==
    /\ InHandler(t, "tries")
    /\ \/ /\ Exhausted(heap[cur[t]])
          /\ pc' = [pc EXCEPT ![t] = "giveup"]
          /\ pkts' = [pkts EXCEPT ![t] = heap[cur[t]].packets]
       \/ /\ ~Exhausted(heap[cur[t]])
          /\ pc' = [pc EXCEPT ![t] = "resend"]
          /\ pkts' = pkts
    /\ UNCHANGED <<cacheVars, cur, stale, reg, rest, slept, arg, seen,
                   outcome, alive>>

\* Broadcast the ARP request, req->sent = now, load times_sent.
Resend(t) ==
    /\ InHandler(t, "resend")
    /\ pc' = [pc EXCEPT ![t] = "count"]
    /\ heap' = [heap EXCEPT ![cur[t]].due = stale[t]]
    /\ reg' = [reg EXCEPT ![t] = heap[cur[t]].times_sent]
    /\ UNCHANGED <<entries, requests, lock, cur, stale, pkts, rest, slept,
                   arg, seen, outcome, alive>>

\* Store times_sent + 1: the increment is neither atomic nor, in main, locked.
CountSend(t) ==
    /\ InHandler(t, "count")
    /\ heap' = [heap EXCEPT ![cur[t]].times_sent = reg[t] + 1]
    /\ Return(t)
    /\ UNCHANGED <<entries, requests, lock, rest, slept, seen, outcome, alive>>

\* sr_send_icmp_t3(pkt, 3, 1), on the interface the packet was queued for.
SendUnreachable(t) ==
    /\ InHandler(t, "giveup")
    /\ pkts[t] # <<>>
    /\ Record(Head(pkts[t]), Unreachable(Head(pkts[t])))
    /\ pkts' = [pkts EXCEPT ![t] = Tail(@)]
    /\ UNCHANGED <<cacheVars, pc, cur, stale, reg, rest, slept, arg, seen,
                   alive>>

\* sr_arpreq_destroy, at the end of the list of packets of handle_arpreq's
\* last branch and of the reply path: unlink the request if it is queued, and
\* free it with its packets.
Destroy(t) ==
    /\ \/ InHandler(t, "giveup")
       \/ InHandler(t, "reply")
    /\ pkts[t] = <<>>
    /\ CanLock(t)
    /\ \/ \E i \in DOMAIN requests :
            /\ requests[i] = cur[t]
            /\ \A j \in DOMAIN requests : j < i => requests[j] # cur[t]
            /\ requests' = Unlink(requests, i)
       \/ /\ \A j \in DOMAIN requests : requests[j] # cur[t]
          /\ requests' = requests
    /\ heap' = [heap EXCEPT ![cur[t]] = Null]
    /\ Return(t)
    /\ UNCHANGED <<entries, lock, rest, slept, seen, outcome, alive>>

\* The request was freed by the other thread: what handle_arpreq reads of it
\* is the allocator's.  The process dies of it (a wild packet pointer, or the
\* allocator detects the double free), or the handler returns: what it wrote
\* went to the freed chunk, and what it sent, if anything, was made of freed
\* bytes and concerns none of the packets.
UseAfterFree(t) ==
    /\ alive
    /\ pc[t] \in HandlerPC
    /\ heap[cur[t]] = Null
    /\ \/ /\ alive' = FALSE
          /\ UNCHANGED <<pc, cur, stale, reg, pkts, arg>>
       \/ alive' = alive /\ Return(t)
    /\ UNCHANGED <<cacheVars, rest, slept, seen, outcome>>

HandleArpreq(t) ==
    \/ CheckSent(t)
    \/ CheckTries(t)
    \/ Resend(t)
    \/ CountSend(t)
    \/ SendUnreachable(t)
    \/ Destroy(t)
    \/ UseAfterFree(t)

-----------------------------------------------------------------------------
(* The main thread: handle_ip_packet's forwarding branch. *)

\* Mutant: any valid entry will do.
Hits_AnyIP(ip) == {i \in Slot : entries[i] # Null}

\* The valid entries for ip.
Hits(ip) == {i \in Slot : entries[i] # Null /\ entries[i].ip = ip}

\* sr_arpcache_lookup, whose loop keeps the last match, and its two results.
Lookup(p) ==
    /\ alive /\ pc["main"] = "idle"
    /\ p \notin seen
    /\ CanLock("main")
    /\ seen' = seen \cup {p}
    /\ \/ \E i \in Hits(Gw[p]) :
            /\ \A j \in Hits(Gw[p]) : j <= i
            /\ pc' = [pc EXCEPT !["main"] = "hit"]
            /\ arg' = [NoArg EXCEPT !.pkt = p, !.mac = entries[i].mac]
       \/ /\ Hits(Gw[p]) = {}
          /\ pc' = [pc EXCEPT !["main"] = "miss"]
          /\ arg' = [NoArg EXCEPT !.pkt = p]
    /\ UNCHANGED <<cacheVars, handlerVars, rest, slept, outcome, alive>>

\* Send the packet to the address in main's own copy of the entry.
ForwardHit ==
    /\ alive /\ pc["main"] = "hit"
    /\ Record(arg.pkt, Forwarded(arg.pkt, arg.mac))
    /\ pc' = [pc EXCEPT !["main"] = "idle"]
    /\ arg' = NoArg
    /\ UNCHANGED <<cacheVars, handlerVars, rest, slept, seen, alive>>

\* Mutant: the new packet does not keep the list it is put before.
AddPacket_Alone(req, p) == [req EXCEPT !.packets = <<p>>]

AddPacket(req, p) == [req EXCEPT !.packets = <<p>> \o @]

NewRequest(p) ==
    [ip |-> Gw[p], due |-> TRUE, times_sent |-> 0, packets |-> <<p>>]

\* sr_arpcache_queuereq: join the queued request, or calloc one (sent = 0,
\* so it is due) and put it first; the packet becomes the first of its list.
\* The pointer is returned after the unlock.
QueueReq ==
    /\ alive /\ pc["main"] = "miss"
    /\ CanLock("main")
    /\ \/ \E i \in DOMAIN requests :
            /\ QueuedAt(Gw[arg.pkt], i)
            /\ heap' = [heap EXCEPT ![requests[i]] = AddPacket(@, arg.pkt)]
            /\ cur' = [cur EXCEPT !["main"] = requests[i]]
            /\ requests' = requests
       \/ /\ NotQueued(Gw[arg.pkt])
          /\ \E a \in ReqAddr :
               /\ heap[a] = Null
               /\ heap' = [heap EXCEPT ![a] = NewRequest(arg.pkt)]
               /\ cur' = [cur EXCEPT !["main"] = a]
               /\ requests' = <<a>> \o requests
    /\ pc' = [pc EXCEPT !["main"] = "check"]
    /\ arg' = NoArg
    /\ UNCHANGED <<entries, lock, stale, reg, pkts, rest, slept, seen,
                   outcome, alive>>

-----------------------------------------------------------------------------
(* The main thread: handle_arp_packet's reply branch. *)

NewEntry(r) == [ip |-> r.ip, mac |-> r.mac, age |-> 0]

\* Mutant: no test of the index after the search, which a full cache leaves one past the
\* end.
StoreEntry_PastEnd(r) ==
    \E i \in 1 .. ArpcacheSz + 1 :
        /\ i \in Slot => entries[i] = Null
        /\ \A j \in Slot : j < i => entries[j] # Null
        /\ entries' = [j \in Slot \cup {i} |-> IF j = i THEN NewEntry(r) ELSE entries[j]]

\* The mapping goes to the first invalid slot; a full cache stays as it is.
StoreEntry(r) ==
    \/ \E i \in Slot :
         /\ entries[i] = Null
         /\ \A j \in Slot : j < i => entries[j] # Null
         /\ entries' = [entries EXCEPT ![i] = NewEntry(r)]
    \/ (\A i \in Slot : entries[i] # Null) /\ entries' = entries

\* sr_arpcache_insert: take the request for this ip off the queue, if there
\* is one, and store the mapping.
Insert(r) ==
    /\ alive /\ pc["main"] = "idle"
    /\ CanLock("main")
    /\ StoreEntry(r)
    /\ \/ \E i \in DOMAIN requests :
            /\ QueuedAt(r.ip, i)
            /\ requests' = Unlink(requests, i)
            /\ cur' = [cur EXCEPT !["main"] = requests[i]]
            /\ pkts' = [pkts EXCEPT !["main"] = heap[requests[i]].packets]
            /\ pc' = [pc EXCEPT !["main"] = "reply"]
            /\ arg' = [NoArg EXCEPT !.mac = r.mac, !.iface = r.iface]
       \/ /\ NotQueued(r.ip)
          /\ UNCHANGED <<requests, cur, pkts, pc, arg>>
    /\ UNCHANGED <<heap, lock, stale, reg, rest, slept, seen, outcome, alive>>

\* The frame carries the address of the interface the reply came in on, and
\* is given to sr_send_packet for the interface of the packet's route:
\* sr_ether_addrs_match_interface lets it through only if they are the same.
SendQueued ==
    /\ InHandler("main", "reply")
    /\ pkts["main"] # <<>>
    /\ LET p == Head(pkts["main"]) IN
         Record(p, IF arg.iface = OutIface[p]
                   THEN Forwarded(p, arg.mac) ELSE Dropped(p))
    /\ pkts' = [pkts EXCEPT !["main"] = Tail(@)]
    /\ UNCHANGED <<cacheVars, pc, cur, stale, reg, rest, slept, arg, seen,
                   alive>>

-----------------------------------------------------------------------------
(* The timeout thread: sr_arpcache_timeout and sr_arpcache_sweepreqs. *)

Expired(i) == entries[i] # Null /\ entries[i].age > ArpcacheTO

\* Mutant: the loop ends one slot early.
Swept_AllButLast ==
    [i \in Slot |-> IF Expired(i) /\ i < ArpcacheSz THEN Null ELSE entries[i]]

\* The entries without those older than SR_ARPCACHE_TO.
Swept == [i \in Slot |-> IF Expired(i) THEN Null ELSE entries[i]]

\* Awake: lock, invalidate the entries older than SR_ARPCACHE_TO, and take
\* the head of the request queue.
StartSweep ==
    /\ alive /\ pc["timeout"] = "sleep"
    /\ slept
    /\ CanLock("timeout")
    /\ lock' = "timeout"
    /\ entries' = Swept
    /\ rest' = requests
    /\ pc' = [pc EXCEPT !["timeout"] = "sweep"]
    /\ UNCHANGED <<requests, heap, handlerVars, slept, arg, seen, outcome,
                   alive>>

\* handle_arpreq on the request the walk has reached.
SweepRequest ==
    /\ alive /\ pc["timeout"] = "sweep"
    /\ rest # <<>>
    /\ cur' = [cur EXCEPT !["timeout"] = Head(rest)]
    /\ rest' = Tail(rest)
    /\ pc' = [pc EXCEPT !["timeout"] = "check"]
    /\ UNCHANGED <<cacheVars, stale, reg, pkts, slept, arg, seen, outcome,
                   alive>>

\* req = req->next, read from a request that handle_arpreq may have freed: the
\* freed chunk still holds the pointer, or the access kills the process.
FollowNext ==
    /\ alive /\ pc["timeout"] = "next"
    /\ \/ /\ alive' = alive
          /\ pc' = [pc EXCEPT !["timeout"] = "sweep"]
          /\ cur' = [cur EXCEPT !["timeout"] = Null]
       \/ /\ heap[cur["timeout"]] = Null
          /\ alive' = FALSE
          /\ UNCHANGED <<pc, cur>>
    /\ UNCHANGED <<cacheVars, stale, reg, pkts, rest, slept, arg, seen, outcome>>

\* The end of the queue: unlock, and sleep for a second.
EndSweep ==
    /\ alive /\ pc["timeout"] = "sweep"
    /\ rest = <<>>
    /\ lock' = Null
    /\ slept' = FALSE
    /\ pc' = [pc EXCEPT !["timeout"] = "sleep"]
    /\ UNCHANGED <<entries, requests, heap, handlerVars, rest, arg, seen,
                   outcome, alive>>

-----------------------------------------------------------------------------
(* The specification. *)

\* What main does once it has taken a frame, up to waiting for the next one.
MainStep == ForwardHit \/ QueueReq \/ SendQueued \/ HandleArpreq("main")

TimeoutStep ==
    StartSweep \/ SweepRequest \/ FollowNext \/ EndSweep
    \/ HandleArpreq("timeout")

\* The frames the network delivers, at any time and in any order.
Receive == (\E p \in Packet : Lookup(p)) \/ (\E r \in Replies : Insert(r))

Next == Tick \/ Receive \/ MainStep \/ TimeoutStep

\* Both threads keep running and time passes; no frame has to arrive.  Main is
\* strongly fair because it competes for the mutex with a thread that sleeps
\* for a second between two sweeps.
Fairness == WF_vars(Tick) /\ SF_vars(MainStep) /\ WF_vars(TimeoutStep)

Spec == Init /\ [][Next]_vars /\ Fairness

-----------------------------------------------------------------------------
(* Safety. *)

Requests == {requests[i] : i \in DOMAIN requests}
Allocated == {a \in ReqAddr : heap[a] # Null}

\* The reply path of handle_arp_packet has taken this request off the queue.
ReplyOwns(a) == pc["main"] = "reply" /\ cur["main"] = a

\* The queue that every walk of sr_arpcache.c follows is sound at every step of
\* either thread: it holds only allocated requests, at most one per next hop
\* (so a packet joins the request that is already out), each with at least one
\* packet, because handle_arpreq reads req->packets->iface unconditionally.
QueueSound ==
    \A i, j \in DOMAIN requests :
        /\ heap[requests[i]] # Null
        /\ heap[requests[i]].packets # <<>>
        /\ i # j => heap[requests[i]].ip # heap[requests[j]].ip

\* No request leaks, and main owns what it took: an allocated request is on the
\* queue or is the one the reply path is walking, never both, and the reply
\* path's request stays allocated until that path itself destroys it.
NoRequestLeaked ==
    /\ \A a \in Allocated : (a \in Requests) # ReplyOwns(a)
    /\ pc["main"] = "reply" => cur["main"] \in Allocated

\* While the sweep runs, what it will still visit is the tail of the queue, and
\* the request that handle_arpreq works on is the one before that tail: nobody
\* moves the queue under the sweep although handle_arpreq itself unlinks.
SweepFollowsQueue ==
    LET n == Len(requests) - Len(rest) IN
    /\ n >= 0
    /\ \A i \in DOMAIN rest : rest[i] = requests[n + i]
    /\ pc["timeout"] \in HandlerPC => n > 0 /\ requests[n] = cur["timeout"]

\* Where a packet waits: with main, or in the list of an allocated request.
InRequest(p, a) ==
    a \in Allocated
    /\ \E i \in DOMAIN heap[a].packets : heap[a].packets[i] = p

\* No packet that was taken in vanishes: as long as nothing was sent or refused
\* because of it, main holds it or it waits in a request, whichever thread
\* gives up on the request or frees it, and however their steps interleave.
NoPacketLost ==
    \A p \in seen :
        \/ outcome[p] # <<>>
        \/ arg.pkt = p
        \/ \E a \in ReqAddr : InRequest(p, a)

\* A packet is delivered at most once, and a sender is never told that the host
\* is unreachable for a packet that was delivered or refused.  Only the host
\* unreachable may be doubled, when both threads give up on one request.
OneFate ==
    \A p \in Packet :
        /\ Len(outcome[p]) <= 2
        /\ Len(outcome[p]) = 2 =>
              \A i \in 1 .. 2 : outcome[p][i].how = "unreachable"

\* A packet leaves only for a station that announced itself as the packet's next
\* hop, whether its address came from the cache or straight from the reply.
CorrectNextHop ==
    \A p \in Packet : \A i \in DOMAIN outcome[p] :
        outcome[p][i].how = "forwarded" =>
            \E r \in Replies : r.ip = Gw[p] /\ r.mac = outcome[p][i].mac

-----------------------------------------------------------------------------
(* Liveness. *)

\* A sweep ends: the timeout thread gives the mutex back, although
\* handle_arpreq locks it again in sr_arpreq_destroy.
SweepEnds == (lock = "timeout") ~> (lock = Null \/ ~alive)

\* An entry does not outlive SR_ARPCACHE_TO for ever: its slot is freed for
\* another mapping.
EntriesExpire ==
    \A i \in Slot :
        Expired(i) ~> (entries[i] = Null \/ ~alive)

-----------------------------------------------------------------------------
(* What comments of the repository say, and the code does not do. *)

\* sr_arpcache.h, on the sweep: "make sure to save the next pointer before
\* calling handle_arpreq": the sweep never reads the next pointer of a request
\* that has been freed.
NextReadFromLiveRequest ==
    pc["timeout"] = "next" => heap[cur["timeout"]] # Null

\* sr_arpcache.h: "send icmp host unreachable to source addr of all pkts
\* waiting on this request": it leaves by the interface the packet came from.
UnreachableReachesSender ==
    \A p \in Packet : \A i \in DOMAIN outcome[p] :
        outcome[p][i].how = "unreachable" => outcome[p][i].iface = InIface[p]

=============================================================================
