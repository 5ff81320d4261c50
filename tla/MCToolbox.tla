------------------------------ MODULE MCToolbox ------------------------------
(***************************************************************************)
(* The parts that run step by step without waiting for one another: how    *)
(* ScreenCam captures, that is the times of its frames (FrameClock) and    *)
(* its settings from the dialog and the registry to the pin                *)
(* (SettingsPage), and what the base classes build everything else from:   *)
(* lists, enumerators of pins and of media types, the samples that carry   *)
(* them, long arithmetic, and the registration of the library.  One run    *)
(* checks them one at a time: part says which one works, and the others    *)
(* stay in their initial states.                                           *)
(***************************************************************************)
EXTENDS FrameClock, SettingsPage

CONSTANTS Lists, Nodes, Data, Null, iCacheSize          \* of BaseList
CONSTANTS Pins, Enums, MaxPins, MaxAsk, MaxVersion      \* of PinEnumerator
CONSTANTS MediaTypes, MaxTypes, MaxPosition             \* of TypeEnumerator
CONSTANTS Impls, MaxCalls                               \* of Registration
CONSTANTS Blocks, Formats                               \* of MediaSample
CONSTANTS W                                             \* of LongArithmetic

VARIABLES heap, contents

VARIABLES
    m_paStreams, m_PinVersion, changed, m_Version, m_PinCount, m_Position, m_PinCache, pc,
    wanted, handed, skipped

VARIABLES
    types, m_TypeVersion, retyped, typesVersion, typesPosition, typesPc,
    typesWanted, typesHanded, gap

VARIABLES impl, key, entry, calls, op, stage, i, hr, undisturbed, last

VARIABLES
    blocks, data, refs, m_mt, copy, inUse, m_dwFlags, m_pMediaType, set, intended, failed,
    declared

VARIABLES args, done, long, short

VARIABLE part

Listing    == INSTANCE BaseList
Pinning    == INSTANCE PinEnumerator WITH asked <- wanted
Typing     == INSTANCE TypeEnumerator
                 WITH m_Version <- typesVersion, m_Position <- typesPosition, pc <- typesPc,
                      asked <- typesWanted, handed <- typesHanded
Registry   == INSTANCE Registration
Sample     == INSTANCE MediaSample WITH heap <- blocks
Arithmetic == INSTANCE LongArithmetic

ASSUME ToolboxAssumption ==
    /\ Listing!ListAssumption /\ Pinning!EnumAssumption /\ Typing!TypeEnumAssumption
    /\ Registry!RegistrationAssumption /\ Sample!MediaSampleAssumption
    /\ Arithmetic!WAssumption

listVars == << heap, contents >>

pinVars ==
    << m_paStreams, m_PinVersion, changed, m_Version, m_PinCount, m_Position, m_PinCache, pc,
       wanted, handed, skipped >>

typeVars ==
    << types, m_TypeVersion, retyped, typesVersion, typesPosition, typesPc,
       typesWanted, typesHanded, gap >>

registryVars == << impl, key, entry, calls, op, stage, i, hr, undisturbed, last >>

sampleVars ==
    << blocks, data, refs, m_mt, copy, inUse, m_dwFlags, m_pMediaType, set, intended, failed,
       declared >>

argVars == << args, done, long, short >>

toolVars == << listVars, pinVars, typeVars, registryVars, sampleVars, argVars >>

Zero == [a |-> 0, b |-> 0, c |-> 0, d |-> 0]

\* Everything but what works starts in one of its initial states.
MCInit ==
    /\ part \in {"clock", "page", "list", "pins", "types", "registry", "sample", "arithmetic"}
    /\ Init /\ PageInit
    /\ part # "clock" => ~hasClock /\ streamTime = 0 /\ m_rtFrameLength = MinLength
    /\ part # "page" => \A w \in Windows : screen[w].client = CHOOSE n \in Widths : TRUE
    /\ Listing!Init /\ Pinning!Init /\ Typing!Init /\ Registry!Init /\ Sample!Init
    /\ part # "pins" => m_paStreams = << >>
    /\ part # "types" => types = << >>
    /\ part # "registry" => impl = CHOOSE p \in Impls : TRUE
    /\ IF part = "arithmetic" THEN Arithmetic!Init ELSE Arithmetic!Asked({ Zero })

ToolNext ==
    \/ /\ part = "list" /\ Listing!Next
       /\ UNCHANGED << pinVars, typeVars, registryVars, sampleVars, argVars >>
    \/ /\ part = "pins" /\ Pinning!Next
       /\ UNCHANGED << listVars, typeVars, registryVars, sampleVars, argVars >>
    \/ /\ part = "types" /\ Typing!Next
       /\ UNCHANGED << listVars, pinVars, registryVars, sampleVars, argVars >>
    \/ /\ part = "registry" /\ Registry!Next
       /\ UNCHANGED << listVars, pinVars, typeVars, sampleVars, argVars >>
    \/ /\ part = "sample" /\ Sample!Next
       /\ UNCHANGED << listVars, pinVars, typeVars, registryVars, argVars >>
    \/ /\ part = "arithmetic" /\ Arithmetic!Next
       /\ UNCHANGED << listVars, pinVars, typeVars, registryVars, sampleVars >>

MCNext ==
    /\ UNCHANGED part
    /\ \/ part = "clock" /\ Next /\ UNCHANGED << pageVars, toolVars >>
       \/ part = "page" /\ PageNext /\ UNCHANGED << vars, toolVars >>
       \/ ToolNext /\ UNCHANGED << vars, pageVars >>

MCSpec == MCInit /\ [][MCNext]_<< part, vars, pageVars, toolVars >>

------------------------------------------------------------------------------
\* A list read forwards and backwards is the sequence its operations promised,
\* and every node is in one list, one cache or free (BaseList).
ListsSound == part = "list" => Listing!IsItsContents /\ Listing!NodesAccounted

\* An enumerator gives out no pin twice between two Resets, and all of them when
\* it comes to its end in sync (PinEnumerator), and the types in order
\* (TypeEnumerator); the filter is with the mapper only while its server can be
\* created, and the results of registering are true (Registration), where for
\* ScreenCam's own RegisterFilters, which keeps the result of its last class only,
\* "its server" is the property page's, not the filter's; every block of memory has
\* one owner, the interface of a type is counted once for each holder, less once for
\* each copy that failed half way, and a sample reports only times and a type of its
\* present life, unless its client raised the flag of an end alone (MediaSample); and a
\* quotient that can be represented is right (LongArithmetic).
ToolsSound ==
    /\ part = "pins" => Pinning!NoPinTwice /\ Pinning!EnumerationComplete
    /\ part = "types" => Typing!TypesInOrder
    /\ part = "registry" => Registry!RegistrySound
    /\ part = "sample" => Sample!MemorySound /\ Sample!TimesAreThisLifes
    /\ part = "arithmetic" => Arithmetic!QuotientsRight
==============================================================================
