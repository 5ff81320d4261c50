----------------------------- MODULE Registration -----------------------------
(***************************************************************************)
(* Registering and unregistering the library: the classes of its factory   *)
(* templates under CLSID in the registry, and its filters with the filter  *)
(* mapper.  Four programs do it: ScreenCam's own RegisterFilters (setup.cpp*)
(* of ScreenCam) and, in the base classes, AMovieDllRegisterServer2 with   *)
(* the new filter mapper or the old one, and AMovieDllRegisterServer and   *)
(* AMovieDllUnregisterServer, which let every object register itself.      *)
(*                                                                         *)
(* What is written stays when a later step is refused and when the process *)
(* ends in between; a call may follow any number of such calls.            *)
(***************************************************************************)
EXTENDS Integers, Sequences

CONSTANTS
    Impls,          \* the programs that are looked at
    MaxCalls        \* bound: calls

RegistrationAssumption ==
    /\ Impls \subseteq {"screencam", "mapper2", "mapper1", "objects"} /\ MaxCalls \in Nat

g_Templates == << "ScreenCam", "Settings" >>
Filters     == { "ScreenCam" }      \* the other class is the property page
N           == Len(g_Templates)
Classes     == { g_Templates[i] : i \in 1..N }

VARIABLES
    impl,
    key,            \* how much of AMovieSetupRegisterServer is there: none, the class's key,
                    \* its description, the server's key, the file's name, the threading model
    entry,          \* of a filter with the mapper: none, without its pins, whole
    calls,
    op,             \* "register", "unregister", or None
    stage, i,       \* what is done next, for which template
    hr,             \* the result so far: has it succeeded
    undisturbed,    \* no step of this call was refused
    last            \* what the last call was, and its result; None after a broken one

vars == << impl, key, entry, calls, op, stage, i, hr, undisturbed, last >>

None == "none"
NoCall == [op |-> None, ok |-> FALSE, undisturbed |-> FALSE]
Whole == 5
Creatable(c) == key[c] >= 4

Init ==
    /\ impl \in Impls
    /\ key = [c \in Classes |-> 0] /\ entry = [f \in Filters |-> 0]
    /\ calls = 0 /\ op = None /\ stage = "idle" /\ i = 1
    /\ hr = TRUE /\ undisturbed = TRUE /\ last = NoCall

Class == g_Templates[i]
OfFilter == Class \in Filters

-----------------------------------------------------------------------------
(* The order of the steps.                                                 *)

Goto(s, n) == stage' = s /\ i' = n /\ UNCHANGED << impl, calls, op, last >>

Return(ok, calm) ==
    /\ stage' = "idle" /\ i' = 1 /\ op' = None
    /\ last' = [op |-> op, ok |-> ok, undisturbed |-> calm]
    /\ UNCHANGED << impl, calls >>

\* The process's end, or its crash, in the middle.
Broken ==
    /\ stage' = "idle" /\ i' = 1 /\ op' = None /\ last' = NoCall
    /\ UNCHANGED << impl, calls >>

\* The next template of a loop, in the order the loop takes; what follows when there is none.
NextTemplate(s, after) == IF i < N THEN Goto(s, i + 1) ELSE after

Call(o) ==
    /\ stage = "idle" /\ calls < MaxCalls
    /\ calls' = calls + 1 /\ op' = o /\ hr' = TRUE /\ undisturbed' = TRUE
    /\ stage' = CASE impl = "objects" /\ o = "unregister" -> "object"
                  [] o = "register" -> "servers"
                  [] OTHER -> "mapper"
    /\ i' = IF impl = "objects" /\ o = "unregister" THEN N ELSE 1
    /\ UNCHANGED << impl, key, entry, last >>

-----------------------------------------------------------------------------
(* The classes.                                                            *)

\* AMovieSetupRegisterServer, refused after n of its writes (or not, if n is all).
RegisterServer(c, n) == key' = [key EXCEPT ![c] = IF @ > n THEN @ ELSE n]

\* EliminateSubKey: the key cannot be opened, or not be deleted itself; its result is dropped.
Remains(c) == { 0, IF key[c] > 2 THEN 2 ELSE key[c], key[c] }

\* ScreenCam goes on with the next class; only the last one's result counts.
RegisterServers ==
    /\ stage = "servers"
    /\ \E n \in 0..Whole :
         /\ RegisterServer(Class, n)
         /\ hr' = (n = Whole)
         /\ undisturbed' = (undisturbed /\ n = Whole)
         /\ CASE impl = "objects" /\ n = Whole -> Goto("object", i)
              [] impl # "objects" /\ (n = Whole \/ (impl = "screencam" /\ i < N)) ->
                   NextTemplate("servers", Goto("mapper", 1))
              [] OTHER -> Return(FALSE, FALSE)
    /\ UNCHANGED entry

\* CoCreateInstance of the filter mapper.
CreateMapper ==
    /\ stage = "mapper"
    /\ \/ Goto("unmap", 1) /\ UNCHANGED << hr, undisturbed >>
       \/ Return(FALSE, FALSE) /\ UNCHANGED << hr, undisturbed >>
    /\ UNCHANGED << key, entry >>

UnregisterServers ==
    /\ stage = "clear"
    /\ \E n \in Remains(Class) :
         /\ key' = [key EXCEPT ![Class] = n]
         /\ undisturbed' = (undisturbed /\ n = 0)
         /\ IF impl = "objects"
            THEN IF i > 1 THEN Goto("object", i - 1) ELSE Return(TRUE, undisturbed')
            ELSE NextTemplate("clear", Return(TRUE, undisturbed'))
    /\ UNCHANGED << entry, hr >>

-----------------------------------------------------------------------------
(* The filters.                                                            *)

\* After the mapper has been told of a filter, with that result.
FilterDone(ok, calm) ==
    /\ undisturbed' = calm
    /\ CASE ~ok -> Return(FALSE, calm)
         [] ok /\ impl = "objects" /\ op = "register" ->
              NextTemplate("servers", Return(TRUE, calm))
         [] ok /\ impl = "objects" /\ op = "unregister" -> Goto("clear", i)
         [] ok /\ impl # "objects" /\ i = N ->
              IF op = "register" THEN Return(TRUE, calm) ELSE Goto("clear", 1)
         [] OTHER -> Goto("unmap", i + 1)

\* The object is created to register itself; a class whose server is not there fails.
CreateObject ==
    /\ stage = "object"
    /\ UNCHANGED << key, entry, hr >>
    /\ \/ /\ ~Creatable(Class) /\ Return(FALSE, undisturbed) /\ UNCHANGED undisturbed
       \/ /\ Creatable(Class) /\ OfFilter /\ Goto("unmap", i) /\ UNCHANGED undisturbed
       \/ /\ Creatable(Class) /\ ~OfFilter /\ FilterDone(TRUE, undisturbed)

\* A template without filter is passed over.
NoFilter ==
    /\ stage = "unmap" /\ ~OfFilter /\ FilterDone(TRUE, undisturbed)
    /\ UNCHANGED << key, entry, hr >>

NotFoundAccepted_Never == FALSE     \* mutated form: a filter that is not there is an error
NotFoundAccepted == impl # "screencam"

\* UnregisterFilter: it is removed, was not there, or may not be removed.
Unmap ==
    /\ stage = "unmap" /\ OfFilter /\ ~(impl = "screencam" /\ op = "register")
    /\ \E refused \in BOOLEAN :
         LET ok == ~refused /\ (entry[Class] > 0 \/ NotFoundAccepted) IN
         /\ entry' = IF refused THEN entry ELSE [entry EXCEPT ![Class] = 0]
         /\ \/ op = "register" /\ impl # "objects" /\ Goto("map", i)
               /\ undisturbed' = (undisturbed /\ ~refused)
            \/ op = "register" /\ impl = "objects"
               /\ undisturbed' = (undisturbed /\ ~refused)
               /\ IF ok THEN Goto("map", i) ELSE Return(FALSE, FALSE)
            \/ op = "unregister" /\ FilterDone(ok, undisturbed /\ ~refused)
    /\ UNCHANGED << key, hr >>

\* RegisterFilter.  The old mapper is told of the pins afterwards.  CBaseFilter::Register drops
\* the result; ScreenCam releases a moniker that it has not been given.
Map ==
    /\ \/ stage = "map"
       \/ stage = "unmap" /\ OfFilter /\ impl = "screencam" /\ op = "register"
    /\ \E n \in 0..2 :
         /\ impl \in {"mapper2", "screencam"} => n # 1
         /\ entry' = [entry EXCEPT ![Class] = IF @ > n THEN @ ELSE n]
         /\ IF impl = "screencam" /\ n = 0 THEN Broken /\ undisturbed' = FALSE
            ELSE FilterDone(n = 2 \/ impl = "objects", undisturbed /\ n = 2)
    /\ UNCHANGED << key, hr >>

-----------------------------------------------------------------------------
Crash == stage # "idle" /\ Broken /\ UNCHANGED << key, entry, hr, undisturbed >>

Next ==
    \/ \E o \in {"register", "unregister"} : Call(o)
    \/ RegisterServers \/ CreateMapper \/ UnregisterServers
    \/ CreateObject \/ NoFilter \/ Unmap \/ Map \/ Crash

Spec == Init /\ [][Next]_vars

-----------------------------------------------------------------------------
Registered   == /\ \A c \in Classes : key[c] = Whole
                /\ \A f \in Filters : entry[f] = 2
Unregistered == /\ \A c \in Classes : key[c] = 0
                /\ \A f \in Filters : entry[f] = 0

\* The classes that must be creatable while a filter is found with the mapper: RegisterFilters
\* of ScreenCam loses the result of all but the last.
Needed(f) ==
    CASE impl = "objects"   -> { f }
      [] impl = "screencam" -> { g_Templates[N] }
      [] OTHER              -> Classes

(* Whatever calls were refused or broken off before, the filter is found    *)
(* with the mapper only when its server can be created, at every moment of  *)
(* every call; and the results are true ones.  Registering without a        *)
(* refusal succeeds and repairs what earlier calls left; unregistering with *)
(* the base classes' table, without a refusal, succeeds and removes what    *)
(* they left, also half of a registration; a call that says it has          *)
(* succeeded has done its work, but for keys that may not be deleted        *)
(* (AMovieSetupUnregisterServer always says so), for the registration of    *)
(* the other classes in ScreenCam and that of objects' filters.             *)
RegistrySound ==
    /\ \A f \in Filters : entry[f] > 0 => \A c \in Needed(f) : Creatable(c)
    /\ stage = "idle" /\ last.op = "register" =>
         /\ last.undisturbed => last.ok /\ Registered
         /\ last.ok /\ impl \in {"mapper1", "mapper2"} => Registered
         /\ last.ok => key[g_Templates[N]] = Whole
    /\ stage = "idle" /\ last.op = "unregister" =>
         /\ last.ok /\ last.undisturbed => Unregistered
         /\ last.ok => \A f \in Filters : entry[f] = 0
         /\ last.undisturbed /\ impl \in {"mapper1", "mapper2"} => last.ok

==============================================================================
