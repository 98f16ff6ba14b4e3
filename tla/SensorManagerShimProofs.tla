----------------------- MODULE SensorManagerShimProofs -----------------------
(***************************************************************************)
(* Proofs about SensorManagerShim, for any number of client threads and of *)
(* instances of the service.                                               *)
(***************************************************************************)
EXTENDS SensorManagerShim, TLAPS

\* Only instances that were started are named, connected to or fetched from.
KnownInstances ==
    /\ registered # NULL => registered <= service
    /\ mSensorServer # NULL => mSensorServer <= service
    /\ \A c \in Clients : held[c] # NULL => held[c].from <= service

\* Where the thread that holds mLock, or the constructor, is in
\* assertStateLocked tells how far the connection is made; of the constructor's
\* nothing may be left after linkToDeath.
ConnectionBuilt ==
    \A c \in Clients :
        /\ pc[c] = "try" => mSensorServer = NULL
        /\ pc[c] = "link" => mSensorServer # NULL /\ linked = {}
        /\ pc[c] \in {"fetch", "list", "use"} =>
             \/ mSensorServer # NULL /\ mSensorServer \in linked
             \/ c = constructor /\ mSensorServer = NULL
        /\ pc[c] = "list" => mSensors = mSensorServer
        /\ pc[c] = "use" => mSensorList = mSensorServer /\ c # constructor

\* Before the constructor has returned nobody has a list, and nothing is
\* connected but by it.
NothingBefore ==
    /\ ~constructed => \A c \in Clients : held[c] = NULL
    /\ ~constructed /\ constructor = NULL => mSensorServer = NULL

\* The only notice to come is that of the instance the cache is connected to.
OneNotice == linked \subseteq {mSensorServer} \ {NULL}

\* A list that a client has is the one in the cache, or its instance is dead.
HeldIsCached ==
    \A c \in Clients : held[c] # NULL =>
        \/ Dead(held[c].from)
        \/ /\ held[c].valid
           /\ held[c].from = mSensorServer /\ mSensorServer # NULL
           /\ \A d \in Clients : pc[d] \notin {"link", "fetch", "list"}

IInv == /\ TypeOK /\ StaleIsNoticed
        /\ KnownInstances /\ ConnectionBuilt /\ OneNotice /\ HeldIsCached
        /\ NothingBefore

-----------------------------------------------------------------------------
\* There is no SensorManager yet.
LEMMA InitInv == Init => IInv
<1> SUFFICES ASSUME Init PROVE IInv
  OBVIOUS
<1>1. TypeOK
  <2>1. held \in [Clients -> [from : Instances, valid : BOOLEAN] \union {NULL}]
    BY DEF Init
  <2>2. \A c \in Clients : pc[c] = "idle" /\ mLock # c /\ constructor # c
    BY ShimAssumption DEF Init
  <2>3. /\ pc \in [Clients -> {"idle", "want", "try", "link", "fetch", "list", "use"}]
        /\ call \in [Clients -> Calls] /\ tries \in 0 .. 3
    BY DEF Init, Calls
  <2>4. service \in 0 .. MaxStarts /\ linked \subseteq Instances
    BY ShimAssumption DEF Init
  <2>5. alive \in BOOLEAN
    BY DEF Init
  <2> QED
    BY <2>1, <2>2, <2>3, <2>4, <2>5 DEF Init, TypeOK
<1>2. /\ StaleIsNoticed /\ KnownInstances /\ ConnectionBuilt /\ OneNotice
      /\ HeldIsCached /\ NothingBefore
  BY DEF Init, StaleIsNoticed, KnownInstances, ConnectionBuilt, OneNotice,
     HeldIsCached, NothingBefore
<1> QED
  BY <1>1, <1>2 DEF IInv

\* The service and its manager change which instances are dead, and nothing of
\* the cache: an instance that died stays dead.
LEMMA ServiceInv ==
    ASSUME IInv, ServiceStarts \/ ServiceDies \/ Unregister
    PROVE  IInv'
<1>1. CASE ServiceStarts
  BY <1>1, ShimAssumption
  DEF ServiceStarts, object, cache, IInv, TypeOK, StaleIsNoticed, KnownInstances,
      ConnectionBuilt, OneNotice, HeldIsCached, NothingBefore, Instances, Dead
<1>2. CASE ServiceDies
  BY <1>2, ShimAssumption
  DEF ServiceDies, object, cache, IInv, TypeOK, StaleIsNoticed, KnownInstances,
      ConnectionBuilt, OneNotice, HeldIsCached, NothingBefore, Instances, Dead
<1>3. CASE Unregister
  BY <1>3, ShimAssumption
  DEF Unregister, object, cache, IInv, TypeOK, StaleIsNoticed, KnownInstances,
      ConnectionBuilt, OneNotice, HeldIsCached, NothingBefore, Instances, Dead
<1> QED
  BY <1>1, <1>2, <1>3

\* assertStateLocked begins with no connection at all, or with a complete one.
LEMMA AcquireInv ==
    ASSUME IInv, NEW c \in Clients, Acquire(c)
    PROVE  IInv'
BY ShimAssumption
DEF Acquire, LockFree, Cached, external, object, cache, IInv, TypeOK, StaleIsNoticed,
    KnownInstances,
    ConnectionBuilt, OneNotice, HeldIsCached, NothingBefore, Instances, Dead

\* A connection is made only where there was none, so every list a client has
\* is of an instance that died before.
LEMMA TryServiceInv ==
    ASSUME IInv, NEW c \in Clients, TryService(c)
    PROVE  IInv'
<1>1. TypeOK'
  <2>1. CASE mLock' = mLock /\ UNCHANGED object /\ pc'[c] \in {"try", "link"}
    BY <2>1, ShimAssumption
    DEF TryService, Return, LastTry, external, object, cache, IInv, TypeOK
  <2>2. CASE Return(c) /\ UNCHANGED <<mSensorServer, tries>>
    BY <2>2, ShimAssumption
    DEF TryService, Return, LastTry, external, object, cache, IInv, TypeOK
  <2>. QED
    BY <2>1, <2>2 DEF TryService, IInv, TypeOK, object
<1>2. StaleIsNoticed'
  BY ShimAssumption
  DEF TryService, Return, LastTry, external, object, cache,
      IInv, TypeOK, StaleIsNoticed, ConnectionBuilt
<1>3. KnownInstances'
  BY ShimAssumption
  DEF TryService, Return, LastTry, external, object, cache,
      IInv, TypeOK, KnownInstances, Instances
<1>4. ConnectionBuilt'
  BY ShimAssumption
  DEF TryService, Return, LastTry, external, object, cache,
      IInv, TypeOK, ConnectionBuilt, OneNotice
<1>5. OneNotice'
  BY ShimAssumption
  DEF TryService, Return, LastTry, external, object, cache,
      IInv, TypeOK, OneNotice, ConnectionBuilt
<1>6. HeldIsCached'
  BY ShimAssumption
  DEF TryService, Return, LastTry, external, object, cache,
      IInv, TypeOK, HeldIsCached, ConnectionBuilt, OneNotice, KnownInstances, Dead
<1>7. NothingBefore'
  BY ShimAssumption
  DEF TryService, Return, LastTry, external, object, cache,
      IInv, TypeOK, NothingBefore, ConnectionBuilt
<1> QED
  BY <1>1, <1>2, <1>3, <1>4, <1>5, <1>6, <1>7 DEF IInv

\* The notice asked for is that of the new connection.
LEMMA LinkToDeathInv ==
    ASSUME IInv, NEW c \in Clients, LinkToDeath(c)
    PROVE  IInv'
BY ShimAssumption
DEF LinkToDeath, external, object, cache, IInv, TypeOK, StaleIsNoticed, KnownInstances,
    ConnectionBuilt, OneNotice, HeldIsCached, NothingBefore, Instances, Dead

\* A list that is no longer valid is still one of an instance.
LEMMA InvalidatedType ==
    ASSUME TypeOK
    PROVE  Invalidated \in [Clients -> [from : Instances, valid : BOOLEAN] \union {NULL}]
<1>1. ASSUME NEW c \in Clients, held[c] # NULL
      PROVE  [held[c] EXCEPT !.valid = FALSE] \in [from : Instances, valid : BOOLEAN]
  BY <1>1 DEF TypeOK
<1>. QED BY <1>1 DEF Invalidated

\* mSensors is replaced: only lists of dead instances become invalid.
LEMMA FetchSensorsInv ==
    ASSUME IInv, NEW c \in Clients, FetchSensors(c)
    PROVE  IInv'
<1>1. TypeOK'
  <2>1. held' \in [Clients -> [from : Instances, valid : BOOLEAN] \union {NULL}]
    BY InvalidatedType DEF FetchSensors, IInv
  <2>. QED
    BY <2>1, ShimAssumption DEF FetchSensors, external, object, cache, IInv, TypeOK
<1>2. StaleIsNoticed'
  BY ShimAssumption
  DEF FetchSensors, Invalidated, external, object, cache, IInv, TypeOK, StaleIsNoticed
<1>3. KnownInstances'
  BY ShimAssumption
  DEF FetchSensors, Invalidated, external, object, cache, IInv, TypeOK, KnownInstances,
      Instances
<1>4. ConnectionBuilt'
  BY ShimAssumption
  DEF FetchSensors, Invalidated, external, object, cache, IInv, TypeOK, ConnectionBuilt
<1>5. OneNotice'
  BY ShimAssumption
  DEF FetchSensors, Invalidated, external, object, cache, IInv, TypeOK, OneNotice
<1>6. HeldIsCached'
  BY ShimAssumption
  DEF FetchSensors, Invalidated, external, object, cache, IInv, TypeOK, HeldIsCached,
      ConnectionBuilt, OneNotice, KnownInstances, Dead
<1>7. NothingBefore'
  BY DEF FetchSensors, Invalidated, object, IInv, TypeOK, NothingBefore
<1> QED
  BY <1>1, <1>2, <1>3, <1>4, <1>5, <1>6, <1>7 DEF IInv

\* The array is that of mSensors, and of the connection; the constructor may
\* find them gone, and leaves an empty cache.
LEMMA MakeListInv ==
    ASSUME IInv, NEW c \in Clients, MakeList(c)
    PROVE  IInv'
<1>1. TypeOK'
  <2>1. CASE c = constructor
    BY <2>1, ShimAssumption
    DEF MakeList, Return, external, object, cache, IInv, TypeOK
  <2>2. CASE c # constructor
    BY <2>2, ShimAssumption
    DEF MakeList, external, object, cache, IInv, TypeOK
  <2>. QED
    BY <2>1, <2>2
<1>2. StaleIsNoticed'
  BY ShimAssumption
  DEF MakeList, Return, external, object, cache,
      IInv, TypeOK, StaleIsNoticed, ConnectionBuilt
<1>3. KnownInstances'
  BY ShimAssumption
  DEF MakeList, Return, external, object, cache,
      IInv, TypeOK, KnownInstances, Instances
<1>4. ConnectionBuilt'
  BY ShimAssumption
  DEF MakeList, Return, external, object, cache,
      IInv, TypeOK, ConnectionBuilt, OneNotice
<1>5. OneNotice'
  BY ShimAssumption
  DEF MakeList, Return, external, object, cache,
      IInv, TypeOK, OneNotice, ConnectionBuilt
<1>6. HeldIsCached'
  BY ShimAssumption
  DEF MakeList, Return, external, object, cache,
      IInv, TypeOK, HeldIsCached, ConnectionBuilt, OneNotice, KnownInstances, Dead
<1>7. NothingBefore'
  BY ShimAssumption
  DEF MakeList, Return, external, object, cache,
      IInv, TypeOK, NothingBefore, ConnectionBuilt
<1> QED
  BY <1>1, <1>2, <1>3, <1>4, <1>5, <1>6, <1>7 DEF IInv

\* A crash leaves nothing; only the constructor meets it.
LEMMA CrashInv ==
    ASSUME IInv, NEW c \in Clients, Crash(c)
    PROVE  IInv'
BY ShimAssumption
DEF Crash, external, object, cache, IInv, TypeOK, StaleIsNoticed,
    KnownInstances,
    ConnectionBuilt, OneNotice, HeldIsCached, NothingBefore, Instances, Dead

\* The constructor begins with no connection.
LEMMA SensorManagerInv ==
    ASSUME IInv, NEW c \in Clients, SensorManager(c)
    PROVE  IInv'
BY ShimAssumption
DEF SensorManager, external, object, cache, IInv, TypeOK, StaleIsNoticed,
    KnownInstances,
    ConnectionBuilt, OneNotice, HeldIsCached, NothingBefore, Instances, Dead

\* The list handed out is the one in the cache.
LEMMA UseListInv ==
    ASSUME IInv, NEW c \in Clients, UseList(c)
    PROVE  IInv'
BY ShimAssumption
DEF UseList, Return, external, object, cache, IInv, TypeOK, StaleIsNoticed,
    KnownInstances,
    ConnectionBuilt, OneNotice, HeldIsCached, NothingBefore, Instances, Dead

\* createEventQueue returns and leaves the cache as it is.
LEMMA ConnectInv ==
    ASSUME IInv, NEW c \in Clients, Connect(c)
    PROVE  IInv'
BY ShimAssumption
DEF Connect, Return, external, object, cache, IInv, TypeOK, StaleIsNoticed,
    KnownInstances,
    ConnectionBuilt, OneNotice, HeldIsCached, NothingBefore, Instances, Dead

\* So does a turn of createEventQueue's loop on a dead instance.
LEMMA StutterInv ==
    ASSUME IInv, UNCHANGED vars
    PROVE  IInv'
BY DEF vars, external, object, cache, IInv, TypeOK, StaleIsNoticed, KnownInstances,
    ConnectionBuilt, OneNotice, HeldIsCached, NothingBefore, Dead

\* A call that begins changes nothing yet.
LEMMA CallInv ==
    ASSUME IInv, NEW c \in Clients, NEW what \in Calls, Call(c, what)
    PROVE  IInv'
BY ShimAssumption
DEF Call, external, object, cache, IInv, TypeOK, StaleIsNoticed, KnownInstances,
    ConnectionBuilt, OneNotice, HeldIsCached, NothingBefore, Instances, Dead

\* The notice that arrives is that of the cached instance, which is dead: the
\* lists it invalidates are of that instance or of earlier ones.
LEMMA DiedInv ==
    ASSUME IInv, NEW i \in Instances, sensorManagerDied(i)
    PROVE  IInv'
<1>1. TypeOK'
  BY ShimAssumption
  DEF sensorManagerDied, Invalidated, LockFree, external, object, cache, IInv,
      TypeOK
<1>2. StaleIsNoticed'
  BY ShimAssumption
  DEF sensorManagerDied, Invalidated, LockFree, external, object, cache, IInv,
      TypeOK, StaleIsNoticed
<1>3. KnownInstances'
  BY ShimAssumption
  DEF sensorManagerDied, Invalidated, LockFree, external, object, cache, IInv,
      TypeOK, KnownInstances, Instances
<1>4. ConnectionBuilt'
  BY ShimAssumption
  DEF sensorManagerDied, Invalidated, LockFree, external, object, cache, IInv,
      TypeOK, OneNotice, ConnectionBuilt
<1>5. OneNotice'
  BY ShimAssumption
  DEF sensorManagerDied, Invalidated, LockFree, external, object, cache, IInv,
      TypeOK, OneNotice
<1>6. HeldIsCached'
  BY ShimAssumption
  DEF sensorManagerDied, Invalidated, LockFree, external, object, cache, IInv,
      TypeOK, HeldIsCached, ConnectionBuilt, OneNotice, KnownInstances, Dead
<1>7. NothingBefore'
  BY DEF sensorManagerDied, Invalidated, object, IInv, TypeOK, NothingBefore
<1> QED
  BY <1>1, <1>2, <1>3, <1>4, <1>5, <1>6, <1>7 DEF IInv

\* Every step keeps the invariant.
LEMMA NextInv == IInv /\ [Next]_vars => IInv'
<1> SUFFICES ASSUME IInv, [Next]_vars PROVE IInv'
  OBVIOUS
<1>1. CASE ServiceStarts \/ ServiceDies \/ Unregister
  BY <1>1, ServiceInv
<1>2. ASSUME NEW c \in Clients, NEW what \in Calls, Call(c, what)
      PROVE  IInv'
  BY <1>2, CallInv
<1>3. ASSUME NEW c \in Clients, SensorManager(c) \/ Acquire(c) \/ ClientStep(c)
      PROVE  IInv'
  <2>1. CASE ConnectAgain(c)
    BY <2>1, StutterInv DEF ConnectAgain
  <2> QED
    BY <1>3, <2>1, SensorManagerInv, AcquireInv, TryServiceInv, LinkToDeathInv,
       FetchSensorsInv, MakeListInv, CrashInv, UseListInv, ConnectInv
    DEF ClientStep
<1>4. ASSUME NEW i \in Instances, sensorManagerDied(i)
      PROVE  IInv'
  BY <1>4, DiedInv
<1>5. CASE UNCHANGED vars
  BY <1>5, StutterInv
<1> QED
  BY <1>1, <1>2, <1>3, <1>4, <1>5 DEF Next

\* The inductive invariant, for any number of threads and instances: how far the
\* connection is made, which notice is to come, and which lists are valid.
THEOREM InvariantHolds == SafeSpec => []IInv
BY InitInv, NextInv, PTL DEF SafeSpec

\* Types, and the lock: a thread is inside a call exactly while it holds mLock.
THEOREM TypeCorrect == SafeSpec => []TypeOK
BY InvariantHolds, PTL DEF IInv

\* With no call under way, the death notice that will drop the connection is
\* still to come, and the list is of the same instance, whenever and however
\* often the service died (SensorManager.cpp 86-104).
THEOREM StaleConnectionNoticed == SafeSpec => []StaleIsNoticed
BY InvariantHolds, PTL DEF IInv

\* Under mLock the connection and its list stay until the call returns, however
\* often the service dies: only the constructor, which does not take mLock, can
\* find the connection gone (SensorManager.cpp 44-49, 99, 157).
THEOREM LockKeepsConnection == SafeSpec => []ConnectionStays
<1>1. IInv => ConnectionStays
  BY DEF IInv, ConnectionBuilt, ConnectionStays
<1>. QED BY <1>1, InvariantHolds, PTL

\* A list whose instance is alive is the cached one, and that is valid.
LEMMA ValidWhileAlive == IInv => HeldWhileServiceLives
BY DEF IInv, HeldIsCached, HeldWhileServiceLives

\* The array a client reads is not freed while the service lives that it was
\* fetched from (SensorManager.cpp 56-63, 119-146).
THEOREM ListsStayValid == SafeSpec => []HeldWhileServiceLives
BY InvariantHolds, ValidWhileAlive, PTL

=============================================================================
