-------------------------- MODULE Discovery_proofs --------------------------
(***************************************************************************)
(* Proofs about Discovery, for any number of threads, instances, agents    *)
(* and signals, in both builds.                                            *)
(***************************************************************************)
EXTENDS Discovery, SequenceTheorems, TLAPS

\* push_back leaves the front of a list that had one.
LEMMA HeadOfAppend ==
  ASSUME NEW S, NEW s \in Seq(S), NEW a \in S
  PROVE  /\ Append(s, a) \in Seq(S) /\ Append(s, a) # <<>>
         /\ s # <<>> => Head(Append(s, a)) = Head(s)
<1>1. Append(s, a) \in Seq(S) /\ Append(s, a) # <<>>
  BY SMTT(30)
<1>2. ASSUME s # <<>> PROVE Head(Append(s, a)) = Head(s)
  BY <1>2, SMTT(30)
<1> QED BY <1>1, <1>2

\* It holds before start-up.
LEMMA DInvInit == Init => DInv
<1> SUFFICES ASSUME Init PROVE DInv
  OBVIOUS
<1>1. DiscoveryTypeOK
  <2>1. upstreams \in Seq(Hosts) /\ Consul \in Addresses
    BY DEF Init, Addresses
  <2>2. changes \in 0..MaxChanges
    BY DiscoveryAssumption DEF Init
  <2>3. catalog \in SUBSET Hosts
    BY DEF Init
  <2> QED BY <2>1, <2>2, <2>3 DEF Init, DiscoveryTypeOK
<1> QED BY <1>1 DEF Init, DInv, FoundConsistent, FrontIsUpstream, NeverANewerInstance

\* The world, the start of the process and its requests.
LEMMA DInvWorld ==
  ASSUME DInv, CatalogChanges \/ ConsulComesOrGoes \/ EarlySignal \/ Main
  PROVE  DInv'
<1>1. DiscoveryTypeOK'
  <2>1. hup' \in BOOLEAN
    BY DEF CatalogChanges, ConsulComesOrGoes, EarlySignal, Main, DInv, DiscoveryTypeOK
  <2>2. consulUp' \in BOOLEAN
    BY DEF CatalogChanges, ConsulComesOrGoes, EarlySignal, Main, world, DInv, DiscoveryTypeOK
  <2>3. changes' \in 0..MaxChanges
    BY DiscoveryAssumption
       DEF CatalogChanges, ConsulComesOrGoes, EarlySignal, Main, world, DInv, DiscoveryTypeOK
  <2>4. catalog' \in SUBSET Hosts
    BY DEF CatalogChanges, ConsulComesOrGoes, EarlySignal, Main, world, DInv, DiscoveryTypeOK
  <2>5. /\ UNCHANGED <<consul, upstream, pc, heap, hpc, asked, found>>
        /\ status' \in {status, "dead", "up"}
    BY DEF CatalogChanges, ConsulComesOrGoes, EarlySignal, Main, Die, world
  <2> QED BY <2>1, <2>2, <2>3, <2>4, <2>5 DEF DInv, DiscoveryTypeOK, consul
<1>2. UNCHANGED <<host, upstreams, upstream, hpc, found>>
  BY DEF CatalogChanges, ConsulComesOrGoes, EarlySignal, Main, consul
<1>3. \/ status' = status \/ status' = "dead" 
      \/ status = "loaded" /\ status' = "up"
  BY DEF CatalogChanges, ConsulComesOrGoes, EarlySignal, Main, Die
<1> QED BY <1>1, <1>2, <1>3
    DEF DInv, FoundConsistent, FrontIsUpstream, NeverANewerInstance

\* The constructor's lookup fills the list, or the process ends.
LEMMA DInvStartUp ==
  ASSUME DInv, StartUp
  PROVE  DInv'
<1>1. UNCHANGED <<catalog, consulUp, changes, hup, host, pc, heap, hpc, asked, found>>
  BY DEF StartUp, world
<1>2. CASE status' = "dead" /\ UNCHANGED <<upstreams, upstream>>
  BY <1>1, <1>2 DEF DInv, DiscoveryTypeOK, FoundConsistent, FrontIsUpstream,
                    NeverANewerInstance
<1>3. ASSUME NEW a \in catalog, upstreams' = Append(upstreams, a),
             upstream' = Head(upstreams'), status' = "loaded"
      PROVE  DInv'
  <2>1. a \in Hosts /\ upstreams \in Seq(Hosts) /\ upstreams' \in Seq(Hosts) /\ upstreams' # <<>>
    BY <1>3 DEF DInv, DiscoveryTypeOK
  <2>2. Head(upstreams') \in Hosts
    BY <2>1
  <2>3. DiscoveryTypeOK'
    BY <1>1, <1>3, <2>1, <2>2 DEF DInv, DiscoveryTypeOK, Addresses
  <2> QED BY <1>1, <1>3, <2>1, <2>3
      DEF StartUp, DInv, FoundConsistent, FrontIsUpstream, NeverANewerInstance
<1> QED BY <1>2, <1>3 DEF StartUp, Die

\* A request handler copies addresses and changes neither list nor host.
LEMMA DInvBiz ==
  ASSUME DInv, NEW t \in Threads, Request(t) \/ BizStep(t)
  PROVE  DInv'
<1>1. UNCHANGED <<catalog, consulUp, changes, hup, status, host, upstreams, upstream,
                  hpc, asked, found>>
  BY DEF Request, BizStep, Malloc, Malloced, Reply, BizUnchanged, world, consul
<1>2. /\ pc' \in [Threads -> {"idle", "format", "alloc", "app2"}]
      /\ heap' \in Threads \cup {None}
  BY DEF Request, BizStep, Malloc, Malloced, Reply, DInv, DiscoveryTypeOK
<1> QED BY <1>1, <1>2
    DEF DInv, DiscoveryTypeOK, FoundConsistent, FrontIsUpstream, NeverANewerInstance

\* The handler.
LEMMA DInvDeliver ==
  ASSUME DInv, NEW t \in Threads, Deliver(t)
  PROVE  DInv'
BY DEF Deliver, Serving, Goto, HandlerUnchanged, world, consul, DInv, DiscoveryTypeOK,
       FoundConsistent, FrontIsUpstream, NeverANewerInstance

\* Steps of the handler that change neither the host nor the list.
LEMMA DInvHandler ==
  ASSUME DInv, NEW t \in Threads,
         \/ SendQuery(t) \/ ListReceived(t) \/ NoListReceived(t) \/ PushBegin(t)
         \/ Front(t) \/ SetBegin(t)
  PROVE  DInv'
<1>1. /\ UNCHANGED <<catalog, consulUp, changes, hup, host, upstreams, upstream, pc, heap>>
      /\ status = "up"
  BY DEF SendQuery, ListReceived, NoListReceived, PushBegin, Front, SetBegin,
         HandlerUnchanged, world, consul
<1>2. \/ status' = "dead" /\ UNCHANGED hpc
      \/ UNCHANGED status
  BY DEF SendQuery, ListReceived, NoListReceived, PushBegin, Front, SetBegin, Goto, Die
<1>3. FrontIsUpstream' /\ NeverANewerInstance'
  BY <1>1, <1>2 DEF DInv, FrontIsUpstream, NeverANewerInstance
<1>4. CASE SendQuery(t)
  <2>1. UNCHANGED found /\ \A u \in Threads : hpc'[u] \in {hpc[u], "ask"}
    BY <1>4 DEF SendQuery, Goto, DInv, DiscoveryTypeOK
  <2>2. asked' \in [Threads -> Addresses]
    BY <1>4 DEF SendQuery, DInv, DiscoveryTypeOK, Addresses
  <2>3. DiscoveryTypeOK'
    BY <1>1, <1>4, <2>2 DEF SendQuery, Goto, Die, DInv, DiscoveryTypeOK
  <2> QED BY <1>1, <1>3, <2>1, <2>3 DEF DInv, FoundConsistent
<1>5. CASE ListReceived(t)
  <2>1. PICK a \in Hosts : found' = [found EXCEPT ![t] = a]
    BY <1>5 DEF ListReceived, DInv, DiscoveryTypeOK
  <2>2. DiscoveryTypeOK'
    BY <1>1, <1>5, <2>1 DEF ListReceived, Goto, DInv, DiscoveryTypeOK, Addresses
  <2> QED BY <1>1, <1>3, <1>5, <2>1, <2>2
      DEF ListReceived, Goto, DInv, DiscoveryTypeOK, FoundConsistent
<1>6. CASE Front(t)
  <2>1. UNCHANGED asked
    BY <1>6 DEF Front
  <2>2. \/ UNCHANGED <<found, hpc>> /\ status' = "dead"
        \/ \E a \in {upstream, Garbage} :
             /\ found' = [found EXCEPT ![t] = a]
             /\ hpc' = [hpc EXCEPT ![t] = "set"]
             /\ UNCHANGED status
    BY <1>1, <1>6 DEF Front, Goto, Die, Upstream, DInv, FrontIsUpstream
  <2>3. DiscoveryTypeOK'
    BY <1>1, <2>1, <2>2 DEF DInv, DiscoveryTypeOK, Addresses
  <2>4. FoundConsistent'
    BY <1>1, <2>2 DEF DInv, DiscoveryTypeOK, FoundConsistent
  <2> QED BY <1>3, <2>3, <2>4 DEF DInv
<1>7. CASE NoListReceived(t) \/ PushBegin(t) \/ SetBegin(t)
  <2>1. UNCHANGED <<asked, found>>
    BY <1>7 DEF NoListReceived, PushBegin, SetBegin
  <2>2. DiscoveryTypeOK'
    BY <1>1, <1>7, <2>1 DEF NoListReceived, PushBegin, SetBegin, Goto, Die, DInv, DiscoveryTypeOK
  <2>3. FoundConsistent'
    BY <1>1, <1>7, <2>1
       DEF NoListReceived, PushBegin, SetBegin, Goto, DInv, DiscoveryTypeOK, FoundConsistent
  <2> QED BY <1>3, <2>2, <2>3 DEF DInv
<1> QED BY <1>4, <1>5, <1>6, <1>7

\* The second half of push_back(), behind whatever another handler did to the list.
LEMMA DInvPushEnd ==
  ASSUME DInv, NEW t \in Threads, PushEnd(t)
  PROVE  DInv'
<1>1. /\ UNCHANGED <<catalog, consulUp, changes, hup, status, host, upstream, pc, heap,
                     asked, found>>
      /\ hpc' = [hpc EXCEPT ![t] = "front"] /\ status = "up" /\ hpc[t] = "pushing"
  BY DEF PushEnd, Goto, HandlerUnchanged, world
<1>2. found[t] \in Hosts /\ upstreams \in Seq(Hosts) /\ upstreams # <<>>
  BY <1>1 DEF DInv, DiscoveryTypeOK, FoundConsistent, FrontIsUpstream
<1>3. upstreams' \in Seq(Hosts) /\ upstreams' # <<>> /\ Head(upstreams') = Head(upstreams)
  BY <1>2, HeadOfAppend DEF PushEnd
<1>4. DiscoveryTypeOK'
  BY <1>1, <1>3 DEF DInv, DiscoveryTypeOK
<1> QED BY <1>1, <1>3, <1>4
    DEF DInv, DiscoveryTypeOK, FoundConsistent, FrontIsUpstream, NeverANewerInstance

\* The second half of the assignment of host.
LEMMA DInvSetHost ==
  ASSUME DInv, NEW t \in Threads, SetHost(t)
  PROVE  DInv'
<1>1. /\ UNCHANGED <<catalog, consulUp, changes, hup, status, upstreams, upstream, pc, heap>>
      /\ hpc' = [hpc EXCEPT ![t] = "none"] /\ status = "up"
      /\ asked' = [asked EXCEPT ![t] = Consul] /\ found' = [found EXCEPT ![t] = Consul]
  BY DEF SetHost, Goto, HandlerUnchanged, world
<1>2. host' \in {upstream, Garbage}
  BY DEF SetHost, DInv, FoundConsistent
<1>3. DiscoveryTypeOK'
  BY <1>1, <1>2, DiscoveryAssumption DEF DInv, DiscoveryTypeOK, Addresses
<1> QED BY <1>1, <1>2, <1>3
    DEF DInv, DiscoveryTypeOK, FoundConsistent, FrontIsUpstream, NeverANewerInstance

\* Every step keeps it.
LEMMA DInvStep ==
  ASSUME DInv, [Next]_dvars
  PROVE  DInv'
<1>1. CASE UNCHANGED dvars
  BY <1>1 DEF dvars, DInv, DiscoveryTypeOK, FoundConsistent, FrontIsUpstream,
              NeverANewerInstance
<1>2. CASE Next
  BY <1>2, DInvWorld, DInvStartUp, DInvBiz, DInvDeliver, DInvHandler, DInvPushEnd,
     DInvSetHost DEF Next, HandlerStep
<1> QED BY <1>1, <1>2

\* The invariant of the discovery: the list's front is the instance found at start-up,
\* whichever handlers are in the middle of push_back() or sethost() (Consuld, app1).
THEOREM DiscoveryInductive == Spec => []DInv
BY DInvInit, DInvStep, PTL DEF Spec

\* The members and the handlers' locals keep their types.
THEOREM DiscoveryTypeCorrect == Spec => []DiscoveryTypeOK
BY DiscoveryInductive, PTL DEF DInv

\* However many signals, changes and overlapping handlers there are, the host
\* is Consul's or the address found at start-up (or torn): what the handler
\* looks up never reaches the place it is used in.
THEOREM NothingNewer == Spec => []NeverANewerInstance
BY DiscoveryInductive, PTL DEF DInv

\* While the process serves, only three steps of a handler can end it: a query
\* that brought no list, and a change of the vector or of the host that another
\* handler is in the middle of.  Signals, requests and changes of the catalogue
\* cannot.
THEOREM DiesInHandler == Spec => DiesOnlyInHandler
<1> DEFINE Cause == \E t \in Threads : \/ hpc[t] = "ask" /\ (~Answers(asked[t]) \/ catalog = {})
                                       \/ PushRace(t) \/ SetRace(t)
<1>1. ASSUME [Next]_dvars, status = "up", status' = "dead" PROVE Cause
  <2>1. PICK t \in Threads : SendQuery(t) \/ NoListReceived(t) \/ PushBegin(t) \/ Front(t) \/ SetBegin(t)
    <3>1. ~UNCHANGED dvars
      BY <1>1 DEF dvars
    <3>2. ~(CatalogChanges \/ ConsulComesOrGoes \/ StartUp \/ Main \/ EarlySignal)
      BY <1>1 DEF CatalogChanges, ConsulComesOrGoes, StartUp, Main, EarlySignal
    <3>3. ASSUME NEW t \in Threads
          PROVE  ~(Request(t) \/ BizStep(t) \/ Deliver(t) \/ ListReceived(t) \/ PushEnd(t) \/ SetHost(t))
      BY <1>1, <3>3 DEF Request, BizStep, Malloc, Malloced, Reply, BizUnchanged, Deliver, ListReceived,
         PushEnd, SetHost, Goto
    <3> QED BY <1>1, <3>1, <3>2, <3>3 DEF Next, HandlerStep
  <2>2. CASE NoListReceived(t)
    BY <2>2 DEF NoListReceived
  <2>3. CASE SendQuery(t) \/ SetBegin(t)
    BY <1>1, <2>3 DEF SendQuery, SetBegin, Goto
  <2>4. CASE PushBegin(t) \/ Front(t)
    BY <1>1, <2>4 DEF PushBegin, Front, Goto
  <2> QED BY <2>1, <2>2, <2>3, <2>4
<1> QED BY <1>1, PTL DEF Spec, DiesOnlyInHandler
=============================================================================
