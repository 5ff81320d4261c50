------------------------------ MODULE MediaSample ------------------------------
(***************************************************************************)
(* A media sample of the allocator (CMediaSample, baseclasses amfilter.cpp)*)
(* as its clients change it, by the single methods and by SetProperties;   *)
(* and the media types it carries, which own memory: the structure, the    *)
(* format block, and a reference on an interface (baseclasses mtype.cpp).  *)
(*                                                                         *)
(* One client sets the sample's type from its own CMediaType object and    *)
(* holds one copy it has been given.  Every allocation may fail.  A copy   *)
(* that fails half way keeps the interface without counting it, so that    *)
(* one reference too many is released later; the client is followed until  *)
(* the interface is gone, and what the code does with it then is undefined.*)
(***************************************************************************)
EXTENDS Integers, FiniteSetsExt

CONSTANTS
    Blocks,         \* the memory, none at the null address; bound: how much is allocated at a time
    Formats         \* contents of a format block

MediaSampleAssumption == Blocks \subseteq Nat \ {0} /\ IsFiniteSet(Blocks)

VARIABLES
    heap,           \* the allocated blocks
    data,           \* what the format blocks contain
    refs,           \* the reference count of the interface
    m_mt,           \* the client's CMediaType object
    copy,           \* an AM_MEDIA_TYPE that the client was given, or None
    inUse,
    m_dwFlags, m_pMediaType,
    set,            \* the times that were really set in this life
    intended,       \* the type that was set in this life: a format or none
    failed,         \* history: copies that kept the interface without counting it
    declared        \* history: SetProperties raised the flag of an end that nobody gave

vars == << heap, data, refs, m_mt, copy, inUse, m_dwFlags, m_pMediaType, set, intended,
           failed, declared >>

\* A media type: where the structure is (if it is allocated), its format block, and whether it
\* holds the interface.  Without a block, cbFormat is zero.
Nowhere == 0
None == [at |-> Nowhere, pbFormat |-> Nowhere, pUnk |-> FALSE, is |-> FALSE]
Empty == [None EXCEPT !.is = TRUE]
Nothing == "nothing"

Init ==
    /\ heap = {} /\ data = [b \in Blocks |-> Nothing] /\ refs = 1
    /\ m_mt = Empty /\ copy = None
    /\ inUse = FALSE
    /\ m_dwFlags = {} /\ m_pMediaType = None /\ set = {} /\ intended = Nothing
    /\ failed = 0 /\ declared = FALSE

Contents(mt) == IF mt.pbFormat = Nowhere THEN Nothing ELSE data[mt.pbFormat]

-----------------------------------------------------------------------------
(* Memory.  A step gives back the blocks it frees before it takes new ones, *)
(* except where the code allocates first.                                  *)

Owned(mt) == { mt.at, mt.pbFormat } \ { Nowhere }
Held(mt)  == IF mt.pUnk THEN 1 ELSE 0

\* FreeMediaType and, for an allocated structure, DeleteMediaType.
Freed(mt, memory) == memory \ Owned(mt)

\* CreateMediaType of a type, in the given memory: the new type, or None.
Created(mt, memory) ==
    LET free   == Blocks \ memory
        needed == IF mt.pbFormat = Nowhere THEN 1 ELSE 2
        first  == Min(free)
    IN  IF Cardinality(free) < needed THEN None
        ELSE [at |-> first, pUnk |-> mt.pUnk, is |-> TRUE,
              pbFormat |-> IF needed = 1 THEN Nowhere ELSE Min(free \ { first })]

\* What a freed block contained is forgotten.
Contains(d) == data' = [b \in Blocks |-> IF b \in heap' THEN d[b] ELSE Nothing]

Copied(to, from) ==
    Contains(IF to.pbFormat = Nowhere THEN data ELSE [data EXCEPT ![to.pbFormat] = Contents(from)])

-----------------------------------------------------------------------------
(* The client's own type: CMediaType.                                      *)

\* SetFormat: a block of the right size is used again; the new one is allocated first.
SetFormat(f) ==
    /\ \/ /\ m_mt.pbFormat # Nowhere
          /\ data' = [data EXCEPT ![m_mt.pbFormat] = f] /\ UNCHANGED << heap, m_mt >>
       \/ \E b \in Blocks \ heap :
            /\ b = Min(Blocks \ heap)
            /\ heap' = (heap \ { m_mt.pbFormat }) \union { b }
            /\ Contains([data EXCEPT ![b] = f])
            /\ m_mt' = [m_mt EXCEPT !.pbFormat = b]
    /\ UNCHANGED << refs, copy, inUse, m_dwFlags, m_pMediaType, set, intended, failed, declared >>

ResetFormatBuffer ==
    /\ m_mt.pbFormat # Nowhere
    /\ heap' = heap \ { m_mt.pbFormat } /\ m_mt' = [m_mt EXCEPT !.pbFormat = Nowhere]
    /\ Contains(data)
    /\ UNCHANGED << refs, copy, inUse, m_dwFlags, m_pMediaType, set, intended, failed, declared >>

\* The client puts a counted interface into its type.
SetInterface ==
    /\ ~m_mt.pUnk /\ m_mt' = [m_mt EXCEPT !.pUnk = TRUE] /\ refs' = refs + 1
    /\ UNCHANGED << heap, data, copy, inUse, m_dwFlags, m_pMediaType, set, intended, failed,
                    declared >>

\* CMediaType::Set from the copy: the old format is freed first.  When there is no memory for
\* the block, the interface has been copied and not counted.
Set ==
    /\ copy.is
    /\ LET memory == heap \ Owned(m_mt) IN
         \/ \E b \in Blocks \ memory :
              /\ copy.pbFormat # Nowhere /\ b = Min(Blocks \ memory)
              /\ heap' = memory \union { b }
              /\ m_mt' = [copy EXCEPT !.at = Nowhere, !.pbFormat = b]
              /\ Contains([data EXCEPT ![b] = Contents(copy)])
              /\ refs' = refs - Held(m_mt) + Held(copy) /\ UNCHANGED failed
         \/ /\ copy.pbFormat = Nowhere
            /\ heap' = memory /\ m_mt' = [copy EXCEPT !.at = Nowhere]
            /\ refs' = refs - Held(m_mt) + Held(copy) /\ Contains(data) /\ UNCHANGED failed
         \/ /\ copy.pbFormat # Nowhere
            /\ heap' = memory /\ m_mt' = [copy EXCEPT !.at = Nowhere, !.pbFormat = Nowhere]
            /\ refs' = refs - Held(m_mt) /\ failed' = failed + Held(copy) /\ Contains(data)
    /\ UNCHANGED << copy, inUse, m_dwFlags, m_pMediaType, set, intended, declared >>

DeleteCopy ==
    /\ copy.is /\ copy' = None
    /\ heap' = Freed(copy, heap) /\ refs' = refs - Held(copy) /\ Contains(data)
    /\ UNCHANGED << m_mt, inUse, m_dwFlags, m_pMediaType, set, intended, failed, declared >>

-----------------------------------------------------------------------------
(* The sample.                                                             *)

GetBuffer ==
    /\ ~inUse
    /\ inUse' = TRUE
    /\ UNCHANGED << set, intended, heap, data, refs, m_mt, copy, m_dwFlags, m_pMediaType,
                    failed, declared >>

\* The last reference: the type is dropped only if the flag says that there is one.
Release ==
    /\ inUse /\ inUse' = FALSE
    /\ m_dwFlags' = {}
    /\ IF "Type" \in m_dwFlags
       THEN /\ heap' = Freed(m_pMediaType, heap) /\ refs' = refs - Held(m_pMediaType)
            /\ m_pMediaType' = None /\ Contains(data)
       ELSE UNCHANGED << heap, refs, m_pMediaType, data >>
    /\ intended' = Nothing /\ set' = {} /\ declared' = FALSE
    /\ UNCHANGED << m_mt, copy, failed >>

SetTime ==
    /\ inUse
    /\ \/ m_dwFlags' = m_dwFlags \ { "Time", "Stop" } /\ UNCHANGED set
       \/ m_dwFlags' = (m_dwFlags \ { "Stop" }) \union { "Time" } /\ set' = set \union { "start" }
       \/ m_dwFlags' = m_dwFlags \union { "Time", "Stop" } /\ set' = set \union { "start", "stop" }
    /\ UNCHANGED << heap, data, refs, m_mt, copy, inUse, m_pMediaType, intended, failed, declared >>

\* The times that GetTime answers with; without an end it makes one up.
GetTime ==
    CASE "Stop" \in m_dwFlags -> { "start", "stop" }
      [] m_dwFlags \intersect { "Time", "Stop" } = { "Time" } -> { "start" }
      [] OTHER -> {}

\* The media time is a flag that SetProperties neither shows nor changes.
SetMediaTime(valid) ==
    /\ inUse
    /\ m_dwFlags' = IF valid THEN m_dwFlags \union { "MediaTime" } ELSE m_dwFlags \ { "MediaTime" }
    /\ UNCHANGED << heap, data, refs, m_mt, copy, inUse, m_pMediaType, set, intended, failed,
                    declared >>

\* The old type is deleted first, whether or not there is memory for the new one.
SetMediaType(some, fails) ==
    /\ inUse
    /\ LET memory == Freed(m_pMediaType, heap)
           new    == IF some /\ ~fails THEN Created(m_mt, memory) ELSE None
       IN  /\ m_pMediaType' = new
           /\ heap' = memory \union Owned(new)
           /\ refs' = refs - Held(m_pMediaType) + Held(new)
           /\ Copied(new, m_mt)
           /\ m_dwFlags' = IF new.is THEN m_dwFlags \union { "Type" } ELSE m_dwFlags \ { "Type" }
           /\ intended' = IF new.is THEN << Contents(m_mt) >> ELSE Nothing
    /\ UNCHANGED << m_mt, copy, inUse, set, failed, declared >>

\* The client gets a copy, which it must delete.
GetMediaType ==
    /\ inUse /\ ~copy.is /\ "Type" \in m_dwFlags
    /\ LET new == Created(m_pMediaType, heap) IN
         /\ copy' = new /\ heap' = heap \union Owned(new) /\ refs' = refs + Held(new)
         /\ Copied(new, m_pMediaType)
    /\ UNCHANGED << m_mt, inUse, m_dwFlags, m_pMediaType, set, intended, failed, declared >>

\* The check of the flags: none for a property that is not provided.  It looks at the flag of
\* the start only.
Provided_Unchecked(flags, upto) == TRUE     \* mutated form: any flag

Provided(flags, upto) ==
    "Time" \in flags /\ "Time" \notin m_dwFlags => upto \in { "times", "type" }

\* The flags end up saying whether there is a type.
Corrected_Not(flags, type) == flags     \* mutated form: as the caller says

Corrected(flags, type) == IF type.is THEN flags \union { "Type" } ELSE flags \ { "Type" }

\* SetProperties with the fields up to the flags, the times, or the type.  The new type is
\* created before anything is assigned, and the old one deleted after that.
SetProperties(flags, upto) ==
    /\ inUse
    /\ Provided(flags, upto)
    /\ LET changes == upto = "type" /\ "Type" \in flags
           new     == IF changes THEN Created(m_mt, heap) ELSE None
       IN  /\ IF changes
              THEN /\ new.is
                   /\ m_pMediaType' = new
                   /\ heap' = Freed(m_pMediaType, heap \union Owned(new))
                   /\ refs' = refs - Held(m_pMediaType) + Held(new)
                   /\ Copied(new, m_mt) /\ intended' = << Contents(m_mt) >>
              ELSE UNCHANGED << m_pMediaType, heap, refs, data, intended >>
           /\ m_dwFlags' = Corrected(flags \union (m_dwFlags \intersect { "MediaTime" }), m_pMediaType')
    /\ set' = IF upto = "flags" THEN set ELSE { "start", "stop" }
    /\ declared' = (upto = "flags" /\ (declared \/ "Stop" \in flags \ m_dwFlags))
    /\ UNCHANGED << m_mt, copy, inUse, failed >>

-----------------------------------------------------------------------------
Next ==
    /\ refs > 0
    /\ \/ \E f \in Formats : SetFormat(f)
       \/ ResetFormatBuffer \/ SetInterface \/ Set \/ DeleteCopy
       \/ GetBuffer \/ Release \/ SetTime \/ GetMediaType
       \/ \E b \in BOOLEAN : SetMediaTime(b)
       \/ \E some, fails \in BOOLEAN : SetMediaType(some, fails)
       \/ \E flags \in SUBSET { "Time", "Stop", "Type" },
             upto \in { "flags", "times", "type" } : SetProperties(flags, upto)

Spec == Init /\ [][Next]_vars

-----------------------------------------------------------------------------
(* Whatever allocation fails, while the interface is there: all memory is   *)
(* owned by exactly one type that is held, none is lost and none is used    *)
(* after it was freed; the interface is counted once for every type that    *)
(* has it, less once for every copy that failed half way; the sample's flag *)
(* says whether there is a type, which Release relies on to free it, and    *)
(* the type is the one that was set last in this life of the sample, none   *)
(* if there was none.                                                       *)
Types == << m_mt, copy, m_pMediaType >>

MemorySound ==
    /\ heap = UNION { Owned(Types[k]) : k \in 1..3 }
    /\ \A j, k \in 1..3 : j # k => Owned(Types[j]) \intersect Owned(Types[k]) = {}
    /\ refs + failed = 1 + Held(m_mt) + Held(copy) + Held(m_pMediaType)
    /\ ("Type" \in m_dwFlags) = m_pMediaType.is
    /\ ~inUse => m_dwFlags = {}
    /\ intended = (IF m_pMediaType.is THEN << Contents(m_pMediaType) >> ELSE Nothing)

(* GetTime reports only times that were set since the sample was taken from *)
(* the allocator, never those of its former life: "Check a flag isn't being *)
(* set for a property not being provided".  That check is of the start's    *)
(* flag: a client that raises the end's alone gets the old times.           *)
TimesAreThisLifes == ~declared => GetTime \subseteq set

(* Without that condition, as the comment has it.                           *)
TimesAreProvided == GetTime \subseteq set

==============================================================================
