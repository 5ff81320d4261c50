-------------------------- MODULE ConfigureDialog --------------------------
(***************************************************************************)
(* The DLL's Configure entry point (setup.cpp) beside the other users of   *)
(* the DLL: it creates a filter without a factory, shows the property      *)
(* dialog on it, and disposes of it.                                       *)
(***************************************************************************)
EXTENDS ComLifetime

VARIABLES
    stage,      \* where a thread is in Configure
    instance    \* its pInstance, a pointer that is not counted

configureVars == <<stage, instance>>

ConfigureInit ==
    /\ Init
    /\ stage = [t \in Threads |-> "outside"]
    /\ instance = [t \in Threads |-> NoObject]

Configure(t, f) ==
    /\ Idle(t) /\ stage[t] = "outside"
    /\ NewFilter(f)
    /\ todo' = [todo EXCEPT ![t] = <<Do("qi", f)>>]
    /\ stage' = [stage EXCEPT ![t] = "dialog"]
    /\ instance' = [instance EXCEPT ![t] = f]
    /\ UNCHANGED <<target, clockOf, runner, locked, loaded, held, locks>>

\* The query for IBaseFilter succeeded: the dialog, whose references on the
\* filter are all returned when it closes, and then pFilter->Release().
CloseDialog(t) ==
    /\ Idle(t) /\ stage[t] = "dialog"
    /\ Holds(t, instance[t])
    /\ CallRelease(t, instance[t])
    /\ stage' = [stage EXCEPT ![t] = "delete"]
    /\ UNCHANGED instance

\* It failed.
SkipDialog(t) ==
    /\ Idle(t) /\ stage[t] = "dialog"
    /\ ~Holds(t, instance[t])
    /\ stage' = [stage EXCEPT ![t] = "delete"]
    /\ UNCHANGED <<vars, instance>>

\* delete pInstance.
DeleteInstance(t) ==
    /\ Idle(t) /\ stage[t] = "delete"
    /\ todo' = [todo EXCEPT ![t] = <<Do("destroy", instance[t])>>]
    /\ stage' = [stage EXCEPT ![t] = "outside"]
    /\ instance' = [instance EXCEPT ![t] = NoObject]
    /\ UNCHANGED <<objectVars, runner, dllVars, held, locks>>

ConfigureNext ==
    \E t \in Threads :
       \/ Continue(t) /\ UNCHANGED configureVars
       \/ stage[t] = "outside" /\ Call(t) /\ UNCHANGED configureVars
       \/ \E f \in Filters : Configure(t, f)
       \/ CloseDialog(t) \/ SkipDialog(t) \/ DeleteInstance(t)

ConfigureSpec == ConfigureInit /\ [][ConfigureNext]_<<vars, configureVars>>

-----------------------------------------------------------------------------
\* ccamfilter.cpp says of the destructor that "COM should call this when the
\* refcount hits 0": a destructor runs on a live object, and so only once.
DestroyedOnce ==
    \A t \in Threads, o \in Objects : Doing(t, "destroy", o) => life[o] = "live"
=============================================================================
