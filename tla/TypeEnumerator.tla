--------------------------- MODULE TypeEnumerator ---------------------------
(***************************************************************************)
(* CEnumMediaTypes (amfilter.cpp) over the media types of a pin whose      *)
(* derived class changes them and then calls IncrementTypeVersion.  No     *)
(* method takes a lock, so Next is a sequence of calls of GetMediaType,    *)
(* and unlike CEnumPins an enumerator that is out of sync stays so until   *)
(* it is reset.  A media type is a value; an enumerator has one client.    *)
(***************************************************************************)
EXTENDS Integers, SequencesExt

CONSTANTS
    MediaTypes,
    Enums,
    MaxTypes,     \* bound: types the pin has at a time
    MaxAsk,       \* bound: types asked for or skipped at a time
    MaxVersion,   \* bound: changes of the pin's types
    MaxPosition   \* bound: a call begins no further than this

TypeEnumAssumption == MaxAsk \in Nat \ {0} /\ {MaxTypes, MaxVersion, MaxPosition} \subseteq Nat

VARIABLES
    types, m_TypeVersion,    \* of the pin
    retyped,                 \* the types have changed and the version has not yet
    m_Version, m_Position,   \* of each enumerator
    pc,
    asked,                   \* of each call of Next: the types still to get
    handed,                  \* the types given to the owner since creation or Reset
    gap                      \* a type was skipped, or lost for want of memory

pinVars  == <<types, m_TypeVersion, retyped>>
enumVars == <<m_Version, m_Position>>
vars == <<pinVars, enumVars, pc, asked, handed, gap>>

TypeLists == {s \in SeqOf(MediaTypes, MaxTypes) : IsInjective(s)}

Init ==
    /\ types \in TypeLists
    /\ m_TypeVersion = 1 /\ retyped = FALSE
    /\ m_Version = [e \in Enums |-> 0]
    /\ m_Position = [e \in Enums |-> 0]
    /\ pc = [e \in Enums |-> "none"]
    /\ asked = [e \in Enums |-> 0]
    /\ handed = [e \in Enums |-> <<>>]
    /\ gap = [e \in Enums |-> FALSE]

Goto(e, label) == pc' = [pc EXCEPT ![e] = label]

-----------------------------------------------------------------------------
(* The pin. *)

\* The derived class changes what its GetMediaType offers.
Retype(list) ==
    /\ ~retyped /\ m_TypeVersion < MaxVersion
    /\ list # types
    /\ types' = list /\ retyped' = TRUE
    /\ UNCHANGED <<m_TypeVersion, enumVars, pc, asked, handed, gap>>

IncrementTypeVersion ==
    /\ retyped
    /\ m_TypeVersion' = m_TypeVersion + 1 /\ retyped' = FALSE
    /\ UNCHANGED <<types, enumVars, pc, asked, handed, gap>>

\* GetMediaType(iPosition) answers S_OK.
Offers(iPosition) == iPosition < Len(types)

-----------------------------------------------------------------------------
(* The enumerator. *)

AreWeOutOfSync(e) == m_Version[e] # m_TypeVersion

StartOver(e) ==
    /\ m_Position' = [m_Position EXCEPT ![e] = 0]
    /\ handed' = [handed EXCEPT ![e] = <<>>]
    /\ gap' = [gap EXCEPT ![e] = FALSE]

\* EnumMediaTypes creates an enumerator; Reset starts one over.
Begin(e) ==
    /\ pc[e] \in {"none", "idle"}
    /\ StartOver(e) /\ Goto(e, "version")
    /\ UNCHANGED <<pinVars, m_Version, asked>>

GetMediaTypeVersion(e) ==
    /\ pc[e] = "version"
    /\ m_Version' = [m_Version EXCEPT ![e] = m_TypeVersion]
    /\ Goto(e, "idle")
    /\ UNCHANGED <<pinVars, m_Position, asked, handed, gap>>

CallNext(e, cMediaTypes) ==
    /\ pc[e] = "idle" /\ ~AreWeOutOfSync(e) /\ m_Position[e] <= MaxPosition
    /\ asked' = [asked EXCEPT ![e] = cMediaTypes] /\ Goto(e, "next")
    /\ UNCHANGED <<pinVars, enumVars, handed, gap>>

\* One pass of the loop: GetMediaType(m_Position++), then memory for the copy.
\* Either failure ends the loop, with the position already advanced.
Fetch(e, allocated) ==
    /\ pc[e] = "next" /\ asked[e] > 0
    /\ m_Position' = [m_Position EXCEPT ![e] = @ + 1]
    /\ IF Offers(m_Position[e]) /\ allocated
       THEN /\ handed' = [handed EXCEPT ![e] = Append(@, types[m_Position[e] + 1])]
            /\ asked' = [asked EXCEPT ![e] = @ - 1]
            /\ UNCHANGED <<pc, gap>>
       ELSE /\ gap' = [gap EXCEPT ![e] = @ \/ Offers(m_Position[e])]
            /\ asked' = [asked EXCEPT ![e] = 0]       \* S_FALSE
            /\ Goto(e, "idle") /\ UNCHANGED handed
    /\ UNCHANGED <<pinVars, m_Version>>

Return(e) ==
    /\ pc[e] = "next" /\ asked[e] = 0
    /\ Goto(e, "idle")
    /\ UNCHANGED <<pinVars, enumVars, asked, handed, gap>>

\* The position moves first; whether that was past the end is only reported.
Skip(e, cMediaTypes) ==
    /\ pc[e] = "idle" /\ ~AreWeOutOfSync(e) /\ m_Position[e] <= MaxPosition
    /\ m_Position' = [m_Position EXCEPT ![e] = @ + cMediaTypes]
    /\ gap' = [gap EXCEPT ![e] = TRUE]
    /\ UNCHANGED <<pinVars, m_Version, pc, asked, handed>>

Copied_VersionOfPin(e, new) ==   \* mutated form: the clone counts as new
    /\ m_Position' = [m_Position EXCEPT ![new] = m_Position[e]]
    /\ m_Version' = [m_Version EXCEPT ![new] = m_TypeVersion]

\* The constructor with an enumerator to copy.
Copied(e, new) ==
    /\ m_Position' = [m_Position EXCEPT ![new] = m_Position[e]]
    /\ m_Version' = [m_Version EXCEPT ![new] = m_Version[e]]

\* Clone tests first and copies in a step of its own; its owner has seen what
\* the original has given out.
CloneTest(e, new) ==
    /\ pc[e] = "idle" /\ pc[new] = "none" /\ ~AreWeOutOfSync(e)
    /\ pc' = [pc EXCEPT ![e] = "cloning", ![new] = "clone"]
    /\ UNCHANGED <<pinVars, enumVars, asked, handed, gap>>

CloneCopy(e, new) ==
    /\ pc[e] = "cloning" /\ pc[new] = "clone"
    /\ Copied(e, new)
    /\ handed' = [handed EXCEPT ![new] = handed[e]]
    /\ gap' = [gap EXCEPT ![new] = gap[e]]
    /\ pc' = [pc EXCEPT ![e] = "idle", ![new] = "idle"]
    /\ UNCHANGED <<pinVars, asked>>

\* Release by the owner: the destructor.
Release(e) ==
    /\ pc[e] = "idle" /\ Goto(e, "none")
    /\ StartOver(e)
    /\ m_Version' = [m_Version EXCEPT ![e] = 0]
    /\ UNCHANGED <<pinVars, asked>>

Next ==
    \/ \E list \in TypeLists : Retype(list)
    \/ IncrementTypeVersion
    \/ \E e \in Enums :
          \/ Begin(e) \/ GetMediaTypeVersion(e) \/ Return(e) \/ Release(e)
          \/ \E allocated \in BOOLEAN : Fetch(e, allocated)
          \/ \E n \in 1..MaxAsk : CallNext(e, n) \/ Skip(e, n)
          \/ \E new \in Enums : CloneTest(e, new) \/ CloneCopy(e, new)

Spec == Init /\ [][Next]_vars

-----------------------------------------------------------------------------
\* An enumerator that is in sync, skipped nothing and lost nothing has given
\* out the pin's types in order, all of them once Next ran into their end,
\* however the pin changed them between two calls or inside one, or between a
\* clone's test and its copy.
TypesInOrder ==
    \A e \in Enums :
        pc[e] = "idle" /\ ~retyped /\ ~AreWeOutOfSync(e) /\ ~gap[e]
          => /\ IsPrefix(handed[e], types)
             /\ m_Position[e] > Len(handed[e]) => handed[e] = types
=============================================================================
