---------------------------- MODULE ComLifetime ----------------------------
(***************************************************************************)
(* The life of the COM objects of ScreenCam: class factories, the filter   *)
(* (with its one pin, whose references are the filter's), the enumerators  *)
(* it hands out, and the reference clock it is given; and the counters by  *)
(* which the DLL answers DllCanUnloadNow.                                  *)
(*                                                                         *)
(* Sources: combase.cpp (CBaseObject, CUnknown), dllentry.cpp              *)
(* (CClassFactory, DllGetClassObject, DllCanUnloadNow), source.cpp and     *)
(* ccamfilter.cpp (construction and destruction), amfilter.cpp (CBaseFilter*)
(* clock and enumerators, the delegation of a pin's references).           *)
(*                                                                         *)
(* A thread runs one call at a time.  todo[t] is what its call has still   *)
(* to do, innermost first: another thread may run between any two entries. *)
(***************************************************************************)
EXTENDS Integers, Sequences, FiniteSets

CONSTANTS
    Threads,     \* threads of the host (the class is registered "Both")
    Factories,   \* slots for CClassFactory objects
    Filters,     \* slots for CCamFilter objects
    Enums,       \* slots for CEnumPins and CEnumMediaTypes objects
    Clocks,      \* reference clocks, objects of the host
    NoObject,
    Lockers,     \* threads that call IClassFactory::LockServer
    MaxHeld      \* bound: references one thread holds on one object

Counted == Factories \cup Filters          \* derived from CBaseObject
Objects == Counted \cup Enums \cup Clocks

ASSUME LifetimeAssumption ==
    /\ IsFiniteSet(Threads) /\ IsFiniteSet(Objects)
    /\ Factories \cap Filters = {} /\ Counted \cap Enums = {} /\ (Counted \cup Enums) \cap Clocks = {}
    /\ Lockers \subseteq Threads
    /\ NoObject \notin Objects
    /\ MaxHeld \in Nat \ {0}

VARIABLES
    life,       \* "none", "live", "gone"
    ref,        \* m_cRef
    target,     \* of an enumerator: m_pFilter, or the filter of m_pPin
    clockOf,    \* of a filter: m_pClock
    runner,     \* of a filter: the thread that started its worker thread
    m_cObjects, \* of CBaseObject: the objects of the DLL
    locked,     \* CClassFactory::m_cLocked
    todo,       \* what the call of a thread has still to do
    held,       \* the references each thread holds and must release
    locks,      \* the LockServer(TRUE) each thread must undo
    loaded      \* the DLL is mapped

objectVars == <<life, ref, target, clockOf>>
dllVars    == <<m_cObjects, locked, loaded>>
vars == <<objectVars, runner, dllVars, todo, held, locks>>

Todo == [op : {"wrap", "qi", "release", "destroy", "members", "objects"}, on : Objects \cup {NoObject}]

Do(op, o) == [op |-> op, on |-> o]

Idle(t) == todo[t] = <<>>

Doing(t, op, o) == todo[t] # <<>> /\ Head(todo[t]) = Do(op, o)

Then(t, steps) == todo' = [todo EXCEPT ![t] = steps \o Tail(@)]

Holds(t, o) == held[t][o] > 0

CanHold(t, o) == held[t][o] < MaxHeld

Gain(t, o) == held' = [held EXCEPT ![t][o] = @ + 1]

\* What refers to an object: the pointers of threads, of enumerators and
\* filters, and the reference a call in progress is about to give back.
Pointers(o) == {p \in Threads \X (1..MaxHeld + 1) : p[2] <= held[p[1]][o]}

ThreadRefs(o) == Cardinality(Pointers(o))

Enumerating(o) == {e \in Enums : life[e] = "live" /\ target[e] = o}

Timed(o) == {f \in Filters : life[f] = "live" /\ clockOf[f] = o}

ObjectRefs(o) == Cardinality(Enumerating(o)) + Cardinality(Timed(o))

GivesBack(steps, o) ==
    \E i \in DOMAIN steps : /\ steps[i] = Do("release", o)
                           /\ ~ \E j \in 1..i : steps[j] = Do("wrap", o)

Givers(o) == {t \in Threads : GivesBack(todo[t], o)}

CallRefs(o) == Cardinality(Givers(o))

References(o) == ThreadRefs(o) + ObjectRefs(o) + CallRefs(o)

-----------------------------------------------------------------------------
Init ==
    /\ life = [o \in Objects |-> IF o \in Clocks THEN "live" ELSE "none"]
    /\ \E t \in Threads :
         held = [u \in Threads |-> [o \in Objects |->
                    IF u = t /\ o \in Clocks THEN 1 ELSE 0]]
    /\ ref = [o \in Objects |-> IF o \in Clocks THEN 1 ELSE 0]
    /\ target = [e \in Enums |-> NoObject]
    /\ clockOf = [f \in Filters |-> NoObject]
    /\ runner = [f \in Filters |-> NoObject]
    /\ m_cObjects = 0 /\ locked = 0 /\ loaded = TRUE
    /\ todo = [t \in Threads |-> <<>>]
    /\ locks = [t \in Threads |-> 0]

\* DllGetClassObject: a new factory, with the caller's reference.
DllGetClassObject(t, c) ==
    /\ Idle(t) /\ life[c] = "none"
    /\ life' = [life EXCEPT ![c] = "live"]
    /\ ref' = [ref EXCEPT ![c] = 1]
    /\ m_cObjects' = m_cObjects + 1
    /\ loaded' = TRUE
    /\ Gain(t, c)
    /\ UNCHANGED <<target, clockOf, runner, locked, todo, locks>>


NewFilter_CountsOne(f) ==       \* mutated form: the pin is not counted
    /\ life[f] = "none"
    /\ life' = [life EXCEPT ![f] = "live"]
    /\ ref' = [ref EXCEPT ![f] = 0]
    /\ m_cObjects' = m_cObjects + 1

\* The template's CreateInstance: filter and pin, two counted objects, and
\* no reference yet.
NewFilter(f) ==
    /\ life[f] = "none"
    /\ life' = [life EXCEPT ![f] = "live"]
    /\ ref' = [ref EXCEPT ![f] = 0]
    /\ m_cObjects' = m_cObjects + 2


CreateInstance_NoRelease(t, c, f) ==    \* mutated form: a failed query leaks
    /\ Idle(t) /\ Holds(t, c)
    /\ NewFilter(f)
    /\ todo' = [todo EXCEPT ![t] = <<Do("wrap", f), Do("qi", f)>>]
    /\ UNCHANGED <<target, clockOf, runner, locked, loaded, held, locks>>

\* CClassFactory::CreateInstance: the query for the interface is wrapped in
\* an AddRef and a Release.
CreateInstance(t, c, f) ==
    /\ Idle(t) /\ Holds(t, c)
    /\ NewFilter(f)
    /\ todo' = [todo EXCEPT ![t] = <<Do("wrap", f), Do("qi", f), Do("release", f)>>]
    /\ UNCHANGED <<target, clockOf, runner, locked, loaded, held, locks>>

Wrap(t, f) ==
    /\ Doing(t, "wrap", f)
    /\ ref' = [ref EXCEPT ![f] = @ + 1]
    /\ Then(t, <<>>)
    /\ UNCHANGED <<life, target, clockOf, runner, dllVars, held, locks>>

\* NonDelegatingQueryInterface: a reference, or E_NOINTERFACE.
Query(t, f) ==
    /\ Doing(t, "qi", f)
    /\ Then(t, <<>>)
    /\ \/ ref' = [ref EXCEPT ![f] = @ + 1] /\ Gain(t, f)
       \/ UNCHANGED <<ref, held>>
    /\ UNCHANGED <<life, target, clockOf, runner, dllVars, locks>>

\* AddRef, or QueryInterface, of something a thread holds, or of something
\* another thread holds and passes on.  A factory stays with its thread.
AddRef(t, u, o) ==
    /\ Idle(t) /\ Idle(u) /\ Holds(t, o) /\ CanHold(u, o)
    /\ o \in Factories \cup Clocks => u = t
    /\ ref' = [ref EXCEPT ![o] = @ + 1]
    /\ Gain(u, o)
    /\ UNCHANGED <<life, target, clockOf, runner, dllVars, todo, locks>>

\* The caller gives up its pointer; the decrement is a step of its own.
CallRelease(t, o) ==
    /\ Idle(t) /\ Holds(t, o)
    /\ o \in Filters /\ runner[o] = t => held[t][o] > 1
    /\ held' = [held EXCEPT ![t][o] = @ - 1]
    /\ todo' = [todo EXCEPT ![t] = <<Do("release", o)>>]
    /\ UNCHANGED <<objectVars, runner, dllVars, locks>>

\* Release: at zero the object is destroyed; a CUnknown first counts one
\* reference again, against re-entry from its destructor.
Release(t, o) ==
    /\ Doing(t, "release", o)
    /\ ref' = [ref EXCEPT ![o] = IF @ = 1 /\ o \in Filters THEN 1 ELSE @ - 1]
    /\ Then(t, IF ref[o] = 1 THEN <<Do("destroy", o)>> ELSE <<>>)
    /\ UNCHANGED <<life, target, clockOf, runner, dllVars, held, locks>>

\* ~CClassFactory, and the end of a clock.
Destroy(t, o) ==
    /\ o \in Factories \cup Clocks
    /\ Doing(t, "destroy", o)
    /\ life' = [life EXCEPT ![o] = "gone"]
    /\ m_cObjects' = m_cObjects - (IF o \in Factories THEN 1 ELSE 0)
    /\ Then(t, <<>>)
    /\ UNCHANGED <<ref, target, clockOf, runner, locked, loaded, held, locks>>

\* ~CEnumPins and ~CEnumMediaTypes: the reference on the filter goes last.
DestroyEnum(t, e) ==
    /\ Doing(t, "destroy", e)
    /\ life' = [life EXCEPT ![e] = "gone"]
    /\ target' = [target EXCEPT ![e] = NoObject]
    /\ Then(t, <<Do("release", target[e])>>)
    /\ UNCHANGED <<ref, clockOf, runner, dllVars, held, locks>>

\* ~CCamFilter: deletes the pin.
DestroyPin(t, f) ==
    /\ Doing(t, "destroy", f)
    /\ m_cObjects' = m_cObjects - 1
    /\ Then(t, <<Do("members", f)>>)
    /\ UNCHANGED <<objectVars, runner, locked, loaded, held, locks>>


\* ~CBaseFilter releases the clock; ~CBaseObject counts the filter out.
DestroyFilter(t, f) ==
    /\ Doing(t, "members", f)
    /\ life' = [life EXCEPT ![f] = "gone"]
    /\ clockOf' = [clockOf EXCEPT ![f] = NoObject]
    /\ m_cObjects' = m_cObjects - 1
    /\ Then(t, IF clockOf[f] = NoObject THEN <<>> ELSE <<Do("release", clockOf[f])>>)
    /\ UNCHANGED <<ref, target, runner, locked, loaded, held, locks>>

\* EnumPins, EnumMediaTypes: a new enumerator with the caller's reference
\* holds one on the filter.
NewEnum(t, f, e) ==
    /\ life[e] = "none"
    /\ life' = [life EXCEPT ![e] = "live"]
    /\ target' = [target EXCEPT ![e] = f]
    /\ ref' = [ref EXCEPT ![e] = 1, ![f] = @ + 1]
    /\ Gain(t, e)
    /\ UNCHANGED <<clockOf, runner, dllVars, todo, locks>>

Enumerate(t, f, e) == Idle(t) /\ Holds(t, f) /\ NewEnum(t, f, e)

Clone(t, e, new) == Idle(t) /\ Holds(t, e) /\ NewEnum(t, target[e], new)

\* Next returns the pin; FindPin by way of the filter does the same.
NextPin(t, e) ==
    /\ Idle(t) /\ Holds(t, e)
    /\ CanHold(t, target[e])
    /\ ref' = [ref EXCEPT ![target[e]] = @ + 1]
    /\ Gain(t, target[e])
    /\ UNCHANGED <<life, target, clockOf, runner, dllVars, todo, locks>>

-----------------------------------------------------------------------------

SetSyncSource_NoAddRef(t, f, k) ==      \* mutated form: the new clock is not counted
    /\ Idle(t) /\ Holds(t, f) /\ runner[f] = NoObject
    /\ k # NoObject => Holds(t, k)
    /\ todo' = [todo EXCEPT ![t] =
                  IF clockOf[f] = NoObject THEN <<>> ELSE <<Do("release", clockOf[f])>>]
    /\ clockOf' = [clockOf EXCEPT ![f] = k]
    /\ UNCHANGED <<life, ref, target, runner, dllVars, held, locks>>

\* SetSyncSource, under the filter's lock: the new clock is counted before
\* the old one is released.  The filter graph calls it on a stopped filter.
SetSyncSource(t, f, k) ==
    /\ Idle(t) /\ Holds(t, f) /\ runner[f] = NoObject
    /\ k # NoObject => Holds(t, k)
    /\ LET old     == clockOf[f]
           counted == IF k = NoObject THEN ref ELSE [ref EXCEPT ![k] = @ + 1]
       IN /\ ref' = counted
          /\ todo' = [todo EXCEPT ![t] =
                        IF old = NoObject THEN <<>> ELSE <<Do("release", old)>>]
    /\ clockOf' = [clockOf EXCEPT ![f] = k]
    /\ UNCHANGED <<life, target, runner, dllVars, held, locks>>

\* GetSyncSource, under the lock.
GetSyncSource(t, f) ==
    /\ Idle(t) /\ Holds(t, f)
    /\ clockOf[f] # NoObject /\ CanHold(t, clockOf[f])
    /\ ref' = [ref EXCEPT ![clockOf[f]] = @ + 1]
    /\ Gain(t, clockOf[f])
    /\ UNCHANGED <<life, target, clockOf, runner, dllVars, todo, locks>>

\* The worker thread, which reads m_pClock in StreamTime without the lock,
\* lives from Pause to Stop.  The filter graph that starts it keeps its
\* reference on the filter until it has stopped it.
Start(t, f) ==
    /\ Idle(t) /\ Holds(t, f) /\ runner[f] = NoObject
    /\ runner' = [runner EXCEPT ![f] = t]
    /\ UNCHANGED <<objectVars, dllVars, todo, held, locks>>

Stop(t, f) ==
    /\ Idle(t) /\ runner[f] = t
    /\ runner' = [runner EXCEPT ![f] = NoObject]
    /\ UNCHANGED <<objectVars, dllVars, todo, held, locks>>

-----------------------------------------------------------------------------
\* IClassFactory::LockServer.
LockServer(t, c, fLock) ==
    /\ t \in Lockers /\ Idle(t) /\ Holds(t, c)
    /\ IF fLock THEN locks[t] = 0 ELSE locks[t] = 1
    /\ locked' = locked + (IF fLock THEN 1 ELSE -1)
    /\ locks' = [locks EXCEPT ![t] = IF fLock THEN 1 ELSE 0]
    /\ UNCHANGED <<objectVars, runner, m_cObjects, loaded, todo, held>>

\* DllCanUnloadNow reads the lock count, and then the object count; the host
\* unmaps the DLL on S_OK.
DllCanUnloadNow(t) ==
    /\ Idle(t) /\ loaded /\ locked = 0
    /\ todo' = [todo EXCEPT ![t] = <<Do("objects", NoObject)>>]
    /\ UNCHANGED <<objectVars, runner, dllVars, held, locks>>

ObjectsActive(t) ==
    /\ Doing(t, "objects", NoObject)
    /\ Then(t, <<>>)
    /\ loaded' = (m_cObjects > 0)
    /\ UNCHANGED <<objectVars, runner, m_cObjects, locked, held, locks>>

-----------------------------------------------------------------------------
\* The steps of a call in progress.
Continue(t) ==
    \/ \E f \in Filters : Wrap(t, f) \/ Query(t, f) \/ DestroyPin(t, f) \/ DestroyFilter(t, f)
    \/ \E o \in Objects : Release(t, o) \/ Destroy(t, o)
    \/ \E e \in Enums : DestroyEnum(t, e)
    \/ ObjectsActive(t)

Call(t) ==
    \/ \E c \in Factories : \/ DllGetClassObject(t, c)
                            \/ \E f \in Filters : CreateInstance(t, c, f)
                            \/ \E fLock \in BOOLEAN : LockServer(t, c, fLock)
    \/ \E o \in Objects : CallRelease(t, o) \/ \E u \in Threads : AddRef(t, u, o)
    \/ \E f \in Filters : \/ \E e \in Enums : Enumerate(t, f, e)
                          \/ \E k \in Clocks \cup {NoObject} : SetSyncSource(t, f, k)
                          \/ GetSyncSource(t, f)
                          \/ Start(t, f) \/ Stop(t, f)
    \/ \E e \in Enums : NextPin(t, e) \/ \E new \in Enums : Clone(t, e, new)
    \/ DllCanUnloadNow(t)

Next == \E t \in Threads : Continue(t) \/ Call(t)

\* A call that has begun runs to its end.
Fairness == \A t \in Threads : WF_vars(Continue(t))

Spec == Init /\ [][Next]_vars /\ Fairness

-----------------------------------------------------------------------------
TypeOK ==
    /\ life \in [Objects -> {"none", "live", "gone"}]
    /\ ref \in [Objects -> Nat]
    /\ target \in [Enums -> Filters \cup {NoObject}]
    /\ clockOf \in [Filters -> Clocks \cup {NoObject}]
    /\ runner \in [Filters -> Threads \cup {NoObject}]
    /\ m_cObjects \in Nat /\ locked \in Nat /\ loaded \in BOOLEAN
    /\ todo \in [Threads -> Seq(Todo)]
    /\ held \in [Threads -> [Objects -> 0..MaxHeld + 1]]
    /\ locks \in [Threads -> 0..1]

BeingDestroyed(o) == \E t \in Threads : Doing(t, "destroy", o) \/ Doing(t, "members", o)

\* No reference is lost and none is invented: an object's count is the number
\* of pointers to it, whatever the threads, the enumerators, the filter's clock
\* pointer and the wrapped query of CreateInstance are in the middle of.
CountIsReferences ==
    \A o \in Objects : life[o] = "live" /\ ~BeingDestroyed(o) => ref[o] = References(o)

\* Nothing points to an object whose destructor has begun: no thread, no
\* enumerator, no filter's m_pClock, no call that will still release it.
NoDanglingPointer ==
    \A o \in Objects : BeingDestroyed(o) \/ life[o] # "live" => References(o) = 0

\* The worker thread uses the filter and, without the lock and without a
\* reference of its own, the clock: while it runs neither is destroyed.
WorkerHasFilterAndClock ==
    \A f \in Filters : runner[f] # NoObject =>
        /\ life[f] = "live" /\ ~BeingDestroyed(f)
        /\ clockOf[f] # NoObject => life[clockOf[f]] = "live" /\ ~BeingDestroyed(clockOf[f])

\* What the COM rules ask of every holder of a pointer, taken together.
ReferencesSound == CountIsReferences /\ NoDanglingPointer /\ WorkerHasFilterAndClock

\* The answer S_OK of DllCanUnloadNow is given when no pointer into the DLL
\* exists anywhere: no factory, no filter, no enumerator, no call in progress.
UnloadedWhenUnused ==
    [][loaded /\ ~loaded' =>
        /\ \A o \in Objects \ Clocks : life[o] # "live" /\ References(o) = 0
        /\ \A t \in Threads, o \in Objects \ Clocks : ~Doing(t, "qi", o) /\ ~Doing(t, "destroy", o)]_vars

\* No object is left over: one that nobody refers to is destroyed in the end,
\* unless the call that is creating it hands it out.
NoLeak ==
    \A o \in Objects : (life[o] = "live" /\ References(o) = 0)
                          ~> (life[o] = "gone" \/ References(o) > 0)
=============================================================================
