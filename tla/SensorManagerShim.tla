------------------------- MODULE SensorManagerShim -------------------------
(***************************************************************************)
(* The SensorManager of src/libshims/gui/SensorManager.cpp: a cached       *)
(* connection to the sensor service and the list fetched through it, used  *)
(* by the threads of a process under mLock; the thread that constructs it  *)
(* does not take mLock.  The service dies and starts again; the death      *)
(* notice of the instance the cache is linked to arrives on a thread of    *)
(* its own, which takes mLock to drop the cache.                           *)
(*                                                                         *)
(* External: the service, the service manager, which may go on naming an   *)
(* instance that died, binder, which delivers a notice for every linked    *)
(* instance that dies or has died, and Singleton, which constructs the     *)
(* SensorManager at the first use and lets nobody have it before.          *)
(***************************************************************************)
EXTENDS Integers

CONSTANTS Clients,           \* threads that call the SensorManager
          MaxStarts,         \* bound: instances of the service
          NULL

ASSUME ShimAssumption == MaxStarts \in Nat /\ NULL \notin Clients

Instances == 1 .. MaxStarts
Calls     == {"list", "queue"}     \* getSensorList and getDefaultSensor; createEventQueue

VARIABLES service, alive,    \* the latest instance, and whether it lives
          registered,        \* the instance the service manager names, or NULL
          mLock,             \* the thread that holds it, or NULL
          constructor,       \* the thread that is in SensorManager(), or NULL
          constructed,       \* whether that returned
          mSensorServer,     \* an instance, or NULL
          mSensors,          \* the instance they are of, or NULL: there are none
          mSensorList,       \* likewise
          linked,            \* instances with a death notice to come
          pc, call, tries,   \* the clients, and i of assertStateLocked
          held               \* history: the list a client was given, from which
                             \* instance, and whether it is still allocated

external == <<service, alive, registered>>
cache    == <<mSensorServer, mSensors, mSensorList, linked>>
object   == <<constructor, constructed>>
vars     == <<external, mLock, object, cache, pc, call, tries, held>>

Dead(i) == i < service \/ ~alive

\* There is no SensorManager yet, and no service.
Init ==
    /\ service = 0 /\ alive = FALSE /\ registered = NULL
    /\ mLock = NULL /\ constructor = NULL /\ constructed = FALSE
    /\ mSensorServer = NULL /\ mSensors = NULL /\ mSensorList = NULL
    /\ linked = {}
    /\ pc = [c \in Clients |-> "idle"]
    /\ call = [c \in Clients |-> "list"]
    /\ tries = 0
    /\ held = [c \in Clients |-> NULL]

-----------------------------------------------------------------------------
\* External: the service.
ServiceStarts ==
    /\ ~alive /\ service < MaxStarts
    /\ service' = service + 1 /\ alive' = TRUE /\ registered' = service'
    /\ UNCHANGED <<mLock, object, cache, pc, call, tries, held>>

ServiceDies ==
    /\ alive /\ alive' = FALSE
    /\ UNCHANGED <<service, registered, mLock, object, cache, pc, call, tries, held>>

\* External: the service manager hears of it.
Unregister ==
    /\ registered # NULL /\ Dead(registered) /\ registered' = NULL
    /\ UNCHANGED <<service, alive, mLock, object, cache, pc, call, tries, held>>

-----------------------------------------------------------------------------
\* The first use of the Singleton: the constructor calls assertStateLocked.
SensorManager(c) ==
    /\ constructor = NULL /\ ~constructed
    /\ constructor' = c
    /\ tries' = 0
    /\ pc' = [pc EXCEPT ![c] = "try"]
    /\ UNCHANGED <<external, mLock, constructed, cache, call, held>>

Call(c, what) ==
    /\ constructed /\ pc[c] = "idle"
    /\ pc' = [pc EXCEPT ![c] = "want"]
    /\ call' = [call EXCEPT ![c] = what]
    /\ UNCHANGED <<external, mLock, object, cache, tries, held>>

\* Mutant: the connection is made anew in every call.
Cached_Never == FALSE

Cached == mSensorServer # NULL

\* Mutant: mLock is not taken.
LockFree_Ignored == TRUE

LockFree == mLock = NULL

\* The lock is taken, and assertStateLocked looks whether there is a connection.
Acquire(c) ==
    /\ pc[c] = "want" /\ LockFree
    /\ mLock' = c
    /\ tries' = 0
    /\ pc' = [pc EXCEPT ![c] = IF Cached THEN "use" ELSE "try"]
    /\ UNCHANGED <<external, object, cache, call, held>>

\* A call returns, or the constructor.
Return(c) ==
    /\ mLock' = NULL /\ pc' = [pc EXCEPT ![c] = "idle"]
    /\ constructor' = NULL /\ constructed' = TRUE

\* Mutant: it goes on until there is a service.
LastTry_None == FALSE

LastTry == tries = 3

\* A turn of the loop "try for one second".
TryService(c) ==
    /\ pc[c] = "try"
    /\ \/ /\ registered # NULL
          /\ mSensorServer' = registered
          /\ pc' = [pc EXCEPT ![c] = "link"]
          /\ UNCHANGED <<mLock, object, tries>>
       \/ /\ registered = NULL /\ ~LastTry
          /\ tries' = IF tries < 3 THEN tries + 1 ELSE tries
          /\ UNCHANGED <<mSensorServer, mLock, object, pc>>
       \/ /\ registered = NULL /\ LastTry
          /\ Return(c)
          /\ UNCHANGED <<mSensorServer, tries>>
    /\ UNCHANGED <<external, mSensors, mSensorList, linked, call, held>>

\* Mutant: only the first instance is watched.
LinkToDeath_Once(c) ==
    /\ pc[c] = "link"
    /\ linked' = IF mSensorServer = 1 THEN {1} ELSE linked
    /\ pc' = [pc EXCEPT ![c] = "fetch"]
    /\ UNCHANGED <<external, mLock, object, mSensorServer, mSensors, mSensorList,
                   call, tries, held>>

LinkToDeath(c) ==
    /\ pc[c] = "link"
    /\ linked' = linked \union {mSensorServer}
    /\ pc' = [pc EXCEPT ![c] = "fetch"]
    /\ UNCHANGED <<external, mLock, object, mSensorServer, mSensors, mSensorList,
                   call, tries, held>>

\* What clients hold when mSensors is replaced or cleared.
Invalidated == [c \in Clients |-> IF held[c] = NULL THEN NULL
                                  ELSE [held[c] EXCEPT !.valid = FALSE]]

\* mSensors is replaced by what the instance answers, ...
FetchSensors(c) ==
    /\ pc[c] = "fetch" /\ mSensorServer # NULL
    /\ mSensors' = mSensorServer
    /\ held' = Invalidated
    /\ pc' = [pc EXCEPT ![c] = "list"]
    /\ UNCHANGED <<external, mLock, object, mSensorServer, mSensorList, linked,
                   call, tries>>

\* ... and the array of pointers into it is made.
MakeList(c) ==
    /\ pc[c] = "list"
    /\ mSensorList' = mSensors
    /\ \/ c = constructor /\ Return(c)
       \/ /\ c # constructor
          /\ pc' = [pc EXCEPT ![c] = "use"]
          /\ UNCHANGED <<mLock, object>>
    /\ UNCHANGED <<external, mSensorServer, mSensors, linked, call, tries, held>>

\* The constructor calls through mSensorServer, which the notice has cleared
\* since linkToDeath: the process crashes, and another begins.
Crash(c) ==
    /\ pc[c] = "fetch" /\ mSensorServer = NULL
    /\ pc' = [d \in Clients |-> "idle"]
    /\ mLock' = NULL /\ constructor' = NULL /\ constructed' = FALSE
    /\ mSensors' = NULL /\ mSensorList' = NULL /\ linked' = {}
    /\ held' = [d \in Clients |-> NULL]
    /\ UNCHANGED <<external, mSensorServer, call, tries>>

\* getSensorList and getDefaultSensor hand out a pointer into the array.
UseList(c) ==
    /\ pc[c] = "use" /\ call[c] = "list"
    /\ held' = [held EXCEPT ![c] = [from |-> mSensorList, valid |-> TRUE]]
    /\ Return(c)
    /\ UNCHANGED <<external, cache, call, tries>>

\* createEventQueue: the live instance answers with a connection.
Connect(c) ==
    /\ pc[c] = "use" /\ call[c] = "queue" /\ ~Dead(mSensorServer)
    /\ Return(c)
    /\ UNCHANGED <<external, cache, call, tries, held>>

\* A dead one does not; the loop goes round, assertStateLocked has a
\* connection and leaves it, and mLock is still held.
ConnectAgain(c) ==
    /\ pc[c] = "use" /\ call[c] = "queue" /\ Dead(mSensorServer)
    /\ UNCHANGED vars

\* The notice of a dead instance drops the cache.
sensorManagerDied(i) ==
    /\ i \in linked /\ Dead(i) /\ LockFree
    /\ linked' = linked \ {i}
    /\ mSensorServer' = NULL /\ mSensors' = NULL /\ mSensorList' = NULL
    /\ held' = Invalidated
    /\ UNCHANGED <<external, mLock, object, pc, call, tries>>

ClientStep(c) ==
    \/ TryService(c) \/ LinkToDeath(c) \/ FetchSensors(c) \/ MakeList(c) \/ Crash(c)
    \/ UseList(c) \/ Connect(c) \/ ConnectAgain(c)

Next ==
    \/ ServiceStarts \/ ServiceDies \/ Unregister
    \/ \E c \in Clients : \/ SensorManager(c) \/ \E what \in Calls : Call(c, what)
                         \/ Acquire(c) \/ ClientStep(c)
    \/ \E i \in Instances : sensorManagerDied(i)

SafeSpec == Init /\ [][Next]_vars

\* The threads run, and mLock serves a thread that keeps trying.  Nothing is
\* asked of the service, which may stay dead, nor of its manager.
Fairness ==
    /\ \A c \in Clients : WF_vars(ClientStep(c)) /\ SF_vars(Acquire(c))
    /\ \A i \in Instances : SF_vars(sensorManagerDied(i))

Spec == SafeSpec /\ Fairness

-----------------------------------------------------------------------------
(* The type invariant, with: a call holds the lock until it returns, and    *)
(* the constructor is called once, and returns, before any.                 *)
TypeOK ==
    /\ service \in 0 .. MaxStarts /\ alive \in BOOLEAN
    /\ registered \in Instances \union {NULL}
    /\ mLock \in Clients \union {NULL}
    /\ mSensorServer \in Instances \union {NULL}
    /\ mSensors \in Instances \union {NULL}
    /\ mSensorList \in Instances \union {NULL}
    /\ linked \subseteq Instances
    /\ pc \in [Clients -> {"idle", "want", "try", "link", "fetch", "list", "use"}]
    /\ call \in [Clients -> Calls] /\ tries \in 0 .. 3
    /\ held \in [Clients -> [from : Instances, valid : BOOLEAN] \union {NULL}]
    /\ constructor \in Clients \union {NULL} /\ constructed \in BOOLEAN
    /\ \A c \in Clients : pc[c] \in {"idle", "want"} <=> mLock # c /\ constructor # c
    /\ ~constructed => \A c \in Clients : pc[c] # "idle" => c = constructor
    /\ constructed => constructor = NULL

(* A connection to a dead instance does not stay: when no call is under way *)
(* the notice that will drop it is still to come (linkToDeath is called     *)
(* for every new connection, SensorManager.cpp 97), also after a            *)
(* constructor that the notice overtook.                                    *)
StaleIsNoticed ==
    mLock = NULL /\ constructor = NULL /\ mSensorServer # NULL =>
        mSensorServer \in linked /\ mSensorList = mSensorServer

(* assertStateLocked makes sure of the connection that the rest of a call   *)
(* goes through, and of its list: under mLock nothing drops them in         *)
(* between, however the service dies.  The constructor alone can find the   *)
(* connection gone, "not locked here" (SensorManager.cpp 47).               *)
ConnectionStays ==
    \A c \in Clients \ {constructor} :
        /\ pc[c] \in {"fetch", "list", "use"} => mSensorServer # NULL
        /\ pc[c] = "use" => mSensorList = mSensorServer

(* A pointer that getSensorList or getDefaultSensor handed out stays valid  *)
(* as long as the instance lives that it was fetched from: the array is     *)
(* freed by the death notice alone (SensorManager.cpp 56-63).               *)
HeldWhileServiceLives ==
    \A c \in Clients : held[c] # NULL /\ ~Dead(held[c].from) => held[c].valid

\* createEventQueue keeps the lock and asks a dead instance.
Stuck == \E c \in Clients : pc[c] = "use" /\ call[c] = "queue" /\ Dead(mSensorServer)

(* Every call returns, with the service alive or not, starting again or     *)
(* not, unless createEventQueue meets an instance that died under it.       *)
CallsReturn ==
    []~Stuck => \A c \in Clients : pc[c] = "want" ~> pc[c] = "idle"

(* A connection to a dead instance is dropped in the end, with the same     *)
(* exception, so that the next call connects to the new one.                *)
StaleIsDropped ==
    []~Stuck => \A i \in Instances :
        mSensorServer = i /\ Dead(i) ~> mSensorServer # i

(* createEventQueue treats a missing connection as "SensorService just      *)
(* died" and tries again (SensorManager.cpp 158): the call ends.            *)
EventQueueReturns ==
    \A c \in Clients : pc[c] = "want" /\ call[c] = "queue" ~> pc[c] = "idle"

=============================================================================
