----------------------------- MODULE Discovery -----------------------------
(***************************************************************************)
(* The service discovery of the autopilot example: class Consuld           *)
(* (include/ServiceDiscovery.h) as examples/Autopilot pattern example/     *)
(* app1.cpp uses it.  app1 asks Consul for the address of app2 while its   *)
(* static objects are constructed, and again in its handler of SIGHUP,     *)
(* which ContainerPilot sends when the instances of app2 change.           *)
(*                                                                         *)
(* The handler runs on whichever thread takes the signal, in the middle of *)
(* whatever that thread does, and on several threads at once: a thread has *)
(* its own control state (pc) and, on top of it, the handler's (hpc).      *)
(* Consul, ContainerPilot, the network and the allocator are external.     *)
(***************************************************************************)
EXTENDS Naturals, Sequences, FiniteSets

CONSTANTS
  Threads,        \* the threads of app1, any of which may take the signal
  Hosts,          \* the addresses instances of app2 run at
  Consul,         \* the host of "Consuld" in config.json
  Agents,         \* the addresses at which something answers Consul's queries
  Garbage,        \* what a string read from freed memory may hold
  None,           \* nobody holds the allocator's lock
  MaxChanges,     \* how often the world changes
  NDEBUG          \* the build drops assertions

ASSUME DiscoveryAssumption ==
  /\ Consul \in Agents
  /\ Agents \subseteq Hosts \cup {Consul}
  /\ {Consul, Garbage} \cap Hosts = {} /\ Consul # Garbage
  /\ None \notin Threads
  /\ MaxChanges \in Nat
  /\ NDEBUG \in BOOLEAN

VARIABLES
  catalog,    \* the instances of app2 Consul lists
  consulUp,   \* Consul answers at its own address
  changes,    \* changes of the world so far
  hup,        \* SIGHUP is pending for the process
  status,     \* "start", "loaded" (statics constructed), "up", "dead"
  host,       \* Consuld::host, the address the next query goes to
  upstreams,  \* Consuld::upstreams
  upstream,   \* uRest::upstream, the address biz() connects to
  pc,         \* what a thread does for a request
  heap,       \* the thread inside the allocator
  hpc,        \* where a thread is in signalHandler()
  asked,      \* the address its handler sent its query to
  found       \* the string its handler got: from Consul, then from front()

world  == <<catalog, consulUp, changes>>
consul == <<host, upstreams>>
dvars  == <<catalog, consulUp, changes, hup, status, host, upstreams, upstream,
            pc, heap, hpc, asked, found>>

Addresses == Hosts \cup {Consul, Garbage}

DiscoveryTypeOK ==
  /\ catalog \in SUBSET Hosts
  /\ consulUp \in BOOLEAN
  /\ changes \in 0..MaxChanges
  /\ hup \in BOOLEAN
  /\ status \in {"start", "loaded", "up", "dead"}
  /\ host \in Addresses
  /\ upstreams \in Seq(Hosts)
  /\ upstream \in Addresses
  /\ pc \in [Threads -> {"idle", "format", "alloc", "app2"}]
  /\ heap \in Threads \cup {None}
  /\ hpc \in [Threads -> {"none", "enter", "ask", "push", "pushing", "front",
                          "set", "setting"}]
  /\ asked \in [Threads -> Addresses]
  /\ found \in [Threads -> Addresses]

Init ==
  /\ catalog \in (SUBSET Hosts) \ {{}}
  /\ consulUp \in BOOLEAN
  /\ changes = 0
  /\ hup = FALSE
  /\ status = "start"
  /\ host = Consul
  /\ upstreams = <<>>
  /\ upstream = Consul
  /\ pc = [t \in Threads |-> "idle"]
  /\ heap = None
  /\ hpc = [t \in Threads |-> "none"]
  /\ asked = [t \in Threads |-> Consul]
  /\ found = [t \in Threads |-> Consul]

-----------------------------------------------------------------------------
(* The world.                                                              *)

\* Instances come and go; onChange is run for every change and sends SIGHUP,
\* one pending bit, to the service as its comments assume (the example's
\* containerpilot.json names a process that is not there).
CatalogChanges ==
  /\ changes < MaxChanges
  /\ \E S \in SUBSET Hosts \ {catalog} : catalog' = S
  /\ changes' = changes + 1
  /\ hup' = TRUE
  /\ UNCHANGED <<consulUp, status, consul, upstream, pc, heap, hpc, asked, found>>

ConsulComesOrGoes ==
  /\ changes < MaxChanges
  /\ consulUp' = ~consulUp
  /\ changes' = changes + 1
  /\ UNCHANGED <<catalog, hup, status, consul, upstream, pc, heap, hpc, asked, found>>

\* Something at h answers with the instances Consul lists.
Answers(h) ==
  /\ h \in Agents
  /\ h = Consul => consulUp
  /\ h \in Hosts => h \in catalog

-----------------------------------------------------------------------------
(* Before main(): Consuld consul; upstream = consul.Upstream();            *)

Die == status' = "dead"

StartUp ==
  /\ status = "start"
  /\ IF Answers(host) /\ catalog # {}
       THEN \E a \in catalog : /\ upstreams' = Append(upstreams, a)
                               /\ upstream' = Head(upstreams')
                               /\ status' = "loaded"
       ELSE Die /\ UNCHANGED <<upstreams, upstream>>
  /\ UNCHANGED <<world, hup, host, pc, heap, hpc, asked, found>>

\* signal(SIGHUP, signalHandler), then Answer() starts the threads.
Main ==
  /\ status = "loaded"
  /\ status' = "up"
  /\ UNCHANGED <<world, hup, consul, upstream, pc, heap, hpc, asked, found>>

\* Mutant of EarlySignal: signal() is never called.
EarlySignalAnyTime ==
  /\ status # "dead"
  /\ hup
  /\ hup' = FALSE
  /\ Die
  /\ UNCHANGED <<world, consul, upstream, pc, heap, hpc, asked, found>>

\* Until then SIGHUP has its default disposition.
EarlySignal ==
  /\ status \in {"start", "loaded"}
  /\ hup
  /\ hup' = FALSE
  /\ Die
  /\ UNCHANGED <<world, consul, upstream, pc, heap, hpc, asked, found>>

-----------------------------------------------------------------------------
(* biz(): builds its strings, asks app2 and answers.  A thread that runs   *)
(* the signal handler does nothing else.                                   *)

Serving(t) == status = "up" /\ hpc[t] = "none"

BizUnchanged == UNCHANGED <<world, hup, status, consul, upstream, hpc, asked, found>>

Request(t) ==
  /\ Serving(t)
  /\ pc[t] = "idle"
  /\ pc' = [pc EXCEPT ![t] = "format"]
  /\ UNCHANGED heap
  /\ BizUnchanged

Malloc(t) ==
  /\ Serving(t)
  /\ pc[t] = "format"
  /\ heap = None
  /\ heap' = t
  /\ pc' = [pc EXCEPT ![t] = "alloc"]
  /\ BizUnchanged

Malloced(t) ==
  /\ Serving(t)
  /\ pc[t] = "alloc"
  /\ heap' = None
  /\ pc' = [pc EXCEPT ![t] = "app2"]
  /\ BizUnchanged

\* GetHttp2("/app2", upstream, ...) returned app2's answer or an error text.
Reply(t) ==
  /\ Serving(t)
  /\ pc[t] = "app2"
  /\ pc' = [pc EXCEPT ![t] = "idle"]
  /\ UNCHANGED heap
  /\ BizUnchanged

-----------------------------------------------------------------------------
(* signalHandler(): v = consul.Upstream(); consul.sethost(v);              *)

\* Another thread is in the middle of changing the vector, or the string.
PushRace(t) == \E u \in Threads \ {t} : hpc[u] = "pushing"
SetRace(t)  == \E u \in Threads \ {t} : hpc[u] = "setting"

Goto(t, l) == hpc' = [hpc EXCEPT ![t] = l] /\ UNCHANGED status

HandlerUnchanged == UNCHANGED <<world, upstream, pc, heap>>

\* SIGHUP is blocked in a thread while its own handler runs.
Deliver(t) ==
  /\ Serving(t)
  /\ hup
  /\ hup' = FALSE
  /\ Goto(t, "enter")
  /\ UNCHANGED <<consul, asked, found>> /\ HandlerUnchanged

\* The handler allocates too.  It then copies the host for its query, which
\* another thread's sethost() may be changing.
SendQuery(t) ==
  /\ status = "up"
  /\ hpc[t] = "enter"
  /\ heap = None
  /\ \/ /\ Goto(t, "ask")
        /\ \E h \in {host} \cup (IF SetRace(t) THEN {Garbage} ELSE {}) :
             asked' = [asked EXCEPT ![t] = h]
     \/ SetRace(t) /\ Die /\ UNCHANGED <<hpc, asked>>
  /\ UNCHANGED <<hup, consul, found>> /\ HandlerUnchanged

\* getupstream() on an answer that lists an instance.
ListReceived(t) ==
  /\ status = "up"
  /\ hpc[t] = "ask"
  /\ Answers(asked[t])
  /\ \E a \in catalog : found' = [found EXCEPT ![t] = a]
  /\ Goto(t, "push")
  /\ UNCHANGED <<hup, consul, asked>> /\ HandlerUnchanged

\* Mutant of NoListReceived: the handler waits for a Consul that does not
\* answer.
NoListWaits(t) ==
  /\ status = "up"
  /\ hpc[t] = "ask"
  /\ Answers(asked[t]) /\ catalog = {}
  /\ Die
  /\ UNCHANGED <<hpc, hup, consul, asked, found>> /\ HandlerUnchanged

\* getupstream() on anything else: an error text of GetHttp(), or an empty
\* list.  The parse error is reported, and then d.IsArray() or the index in
\* d[0] is asserted.  Without assertions d[0] is undefined: it crashes, or
\* reads a value without a "Service".
NoListReceived(t) ==
  /\ status = "up"
  /\ hpc[t] = "ask"
  /\ ~Answers(asked[t]) \/ catalog = {}
  /\ \/ Die /\ UNCHANGED hpc
     \/ NDEBUG /\ Goto(t, "front")
  /\ UNCHANGED <<hup, consul, asked, found>> /\ HandlerUnchanged

\* upstreams.push_back(), which is not atomic: two at once lose an element
\* or corrupt the vector.
PushBegin(t) ==
  /\ status = "up"
  /\ hpc[t] = "push"
  /\ \/ Goto(t, "pushing")
     \/ PushRace(t) /\ Die /\ UNCHANGED hpc
  /\ UNCHANGED <<hup, consul, asked, found>> /\ HandlerUnchanged

PushEnd(t) ==
  /\ status = "up"
  /\ hpc[t] = "pushing"
  /\ \/ upstreams' = Append(upstreams, found[t])
     \/ PushRace(t) /\ UNCHANGED upstreams
  /\ Goto(t, "front")
  /\ UNCHANGED <<hup, host, asked, found>> /\ HandlerUnchanged

\* Mutant of Upstream: upstreams.back().
UpstreamBack == upstreams[Len(upstreams)]

\* upstreams.front(): the element may be moving to a larger array.
Upstream == Head(upstreams)

Front(t) ==
  /\ status = "up"
  /\ hpc[t] = "front"
  /\ \/ /\ Goto(t, "set")
        /\ \E a \in {Upstream} \cup (IF PushRace(t) THEN {Garbage} ELSE {}) :
             found' = [found EXCEPT ![t] = a]
     \/ PushRace(t) /\ Die /\ UNCHANGED <<hpc, found>>
  /\ UNCHANGED <<hup, consul, asked>> /\ HandlerUnchanged

SetBegin(t) ==
  /\ status = "up"
  /\ hpc[t] = "set"
  /\ \/ Goto(t, "setting")
     \/ SetRace(t) /\ Die /\ UNCHANGED hpc
  /\ UNCHANGED <<hup, consul, asked, found>> /\ HandlerUnchanged

\* The handler's locals go out of scope.
SetHost(t) ==
  /\ status = "up"
  /\ hpc[t] = "setting"
  /\ \E a \in {found[t]} \cup (IF SetRace(t) THEN {Garbage} ELSE {}) : host' = a
  /\ Goto(t, "none")
  /\ asked' = [asked EXCEPT ![t] = Consul]
  /\ found' = [found EXCEPT ![t] = Consul]
  /\ UNCHANGED <<hup, upstreams>> /\ HandlerUnchanged

-----------------------------------------------------------------------------
BizStep(t) == Malloc(t) \/ Malloced(t) \/ Reply(t)

HandlerStep(t) ==
  \/ SendQuery(t)
  \/ ListReceived(t)
  \/ NoListReceived(t)
  \/ PushBegin(t)
  \/ PushEnd(t)
  \/ Front(t)
  \/ SetBegin(t)
  \/ SetHost(t)

Next ==
  \/ CatalogChanges
  \/ ConsulComesOrGoes
  \/ StartUp
  \/ Main
  \/ EarlySignal
  \/ \E t \in Threads : Request(t) \/ BizStep(t) \/ Deliver(t) \/ HandlerStep(t)

Spec == Init /\ [][Next]_dvars

\* The scheduler runs a thread that can run, a query is answered or refused in
\* the end, and a thread that finds the allocator free again and again gets it.
FairSpec ==
  Spec /\ \A t \in Threads : /\ WF_dvars(BizStep(t)) /\ SF_dvars(Malloc(t))
                             /\ WF_dvars(HandlerStep(t)) /\ SF_dvars(SendQuery(t))

-----------------------------------------------------------------------------
(* Properties.                                                             *)

\* sethost() is never given a newer instance: front() is the address found at
\* start-up, so apart from a torn read the host is Consul's or that one.
NeverANewerInstance ==
  status = "up" => host \in {Consul, upstream, Garbage}

\* What a handler found is what Consul listed until it is pushed, and the first
\* address ever found (or a torn read of it) when it is given to sethost().
FoundConsistent ==
  \A t \in Threads :
    /\ hpc[t] \in {"push", "pushing"} => found[t] \in Hosts
    /\ hpc[t] \in {"set", "setting"} => found[t] \in {upstream, Garbage}

\* The address biz() connects to stays the first of the list.
FrontIsUpstream ==
  /\ status \in {"loaded", "up"} => upstreams # <<>> /\ upstream = Head(upstreams)
  /\ status \in {"start", "loaded"} =>
       host = Consul /\ \A t \in Threads : hpc[t] = "none"

\* Inductive, and the reason why NeverANewerInstance holds.
DInv == /\ DiscoveryTypeOK
        /\ FoundConsistent
        /\ FrontIsUpstream
        /\ NeverANewerInstance

\* A handler never returns while it waits for the allocator its own thread
\* was interrupted in; nothing else keeps a handler from returning.
SelfDeadlock == \E t \in Threads : heap = t /\ hpc[t] = "enter"

HandlerReturns ==
  \A t \in Threads :
    (hpc[t] # "none") ~> (hpc[t] = "none" \/ status = "dead" \/ SelfDeadlock)

\* Likewise for a request.
RequestAnswered ==
  \A t \in Threads :
    (pc[t] = "format") ~> (pc[t] = "idle" \/ status = "dead" \/ SelfDeadlock)

\* Handlers and requests alike come to their end.
ThreadsReturn == HandlerReturns /\ RequestAnswered

\* Once it serves, the process dies only inside a handler that got no list or
\* that overlaps with another handler: one signal at a time and a Consul that
\* answers with an instance never kill it.
DiesOnlyInHandler ==
  [][status = "up" /\ status' = "dead" =>
       \E t \in Threads : \/ hpc[t] = "ask" /\ (~Answers(asked[t]) \/ catalog = {})
                          \/ PushRace(t) \/ SetRace(t)]_dvars
=============================================================================
