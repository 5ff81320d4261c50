---------------------------- MODULE MemAllocator ----------------------------
(***************************************************************************)
(* The sample allocator of a connection: CBaseAllocator and CMemAllocator  *)
(* (baseclasses amfilter.cpp).  The module has the allocator's state and   *)
(* one operator per critical section; which thread runs which operator is  *)
(* decided by the modules that extend it (AllocatorThreads, SourceStream). *)
(*                                                                         *)
(* Samples are numbered 1..m_lAllocated.  The code compares the length of  *)
(* the free list with m_lAllocated; every listed sample is an allocated    *)
(* one and is listed once, so the comparison is the set equality AllFree.  *)
(***************************************************************************)
EXTENDS Integers, FiniteSets

CONSTANT MaxCount       \* bound on the number of buffers a caller asks for

ASSUME MaxCountAssumption == MaxCount \in Nat \ {0}

VARIABLES
    m_bCommitted,           \* GetBuffer is allowed
    m_bDecommitInProgress,  \* a Decommit waits for the last buffer
    m_bChanged,             \* SetProperties ran since the last allocation
    m_lCount,               \* number of buffers asked for
    m_lAllocated,           \* number of samples that exist
    m_lFree,                \* the free list
    m_lWaiting,             \* GetBuffer calls that announced a wait
    m_hSem                  \* count of the semaphore they wait on

allocVars == << m_bCommitted, m_bDecommitInProgress, m_bChanged, m_lCount,
                m_lAllocated, m_lFree, m_lWaiting, m_hSem >>

Sample      == 1 .. MaxCount
Allocated   == 1 .. m_lAllocated
AllFree     == m_lFree = Allocated
Outstanding == Allocated \ m_lFree

AllocTypeOK ==
    /\ m_bCommitted \in BOOLEAN
    /\ m_bDecommitInProgress \in BOOLEAN
    /\ m_bChanged \in BOOLEAN
    /\ m_lCount \in 0 .. MaxCount
    /\ m_lAllocated \in 0 .. MaxCount
    /\ m_lFree \subseteq Allocated
    /\ m_lWaiting \in Nat
    /\ m_hSem \in Nat

AllocInit ==
    /\ m_bCommitted = FALSE
    /\ m_bDecommitInProgress = FALSE
    /\ m_bChanged = FALSE
    /\ m_lCount = 0
    /\ m_lAllocated = 0
    /\ m_lFree = {}
    /\ m_lWaiting = 0
    /\ m_hSem = 0

-----------------------------------------------------------------------------
(* Sizing. *)

CanSetProperties_IgnorePending == ~m_bCommitted     \* mutated form

CanSetProperties == ~m_bCommitted /\ AllFree

SetProperties(n) ==
    /\ CanSetProperties
    /\ m_lCount' = n
    /\ m_bChanged' = TRUE
    /\ UNCHANGED << m_bCommitted, m_bDecommitInProgress, m_lAllocated, m_lFree,
                    m_lWaiting, m_hSem >>

\* A new allocator, which is then asked for n buffers.
CreateFor(n) ==
    /\ m_bCommitted' = FALSE
    /\ m_bDecommitInProgress' = FALSE
    /\ m_bChanged' = TRUE
    /\ m_lCount' = n
    /\ m_lAllocated' = 0
    /\ m_lFree' = {}
    /\ m_lWaiting' = 0
    /\ m_hSem' = 0

-----------------------------------------------------------------------------
(* Commit: nothing to do, cancel a pending Decommit, or allocate.          *)

CommitsAnew == ~m_bCommitted /\ ~m_bDecommitInProgress

Alloc_OffByOne ==               \* mutated form: one sample too many
    /\ m_lCount > 0
    /\ m_lAllocated' = m_lCount
    /\ m_lFree' = 0 .. m_lCount
    /\ m_bChanged' = FALSE

\* CMemAllocator::Alloc: memory is kept across Decommit and re-used unless
\* SetProperties changed the requirements.
Alloc ==
    /\ m_lCount > 0
    /\ \/ /\ ~m_bChanged
          /\ UNCHANGED << m_lAllocated, m_lFree, m_bChanged >>
       \/ /\ m_bChanged
          /\ m_lAllocated' = m_lCount
          /\ m_lFree' = 1 .. m_lCount
          /\ m_bChanged' = FALSE

\* Alloc fails: no size was ever set, or memory ran out after k samples.
AllocFails ==
    \/ /\ m_lCount = 0
       /\ UNCHANGED << m_lAllocated, m_lFree, m_bChanged >>
    \/ /\ m_lCount > 0
       /\ m_bChanged
       /\ \E k \in 0 .. m_lCount - 1 :
             m_lAllocated' = k /\ m_lFree' = 1 .. k
       /\ UNCHANGED m_bChanged

Commit_KeepPending ==           \* mutated form: the pending Decommit stays
    /\ UNCHANGED << m_lCount, m_lWaiting, m_hSem, m_bDecommitInProgress >>
    /\ m_bCommitted' = TRUE
    /\ IF CommitsAnew THEN Alloc
                      ELSE UNCHANGED << m_lAllocated, m_lFree, m_bChanged >>

Commit ==
    /\ UNCHANGED << m_lCount, m_lWaiting, m_hSem >>
    /\ m_bCommitted' = TRUE
    /\ m_bDecommitInProgress' = FALSE
    /\ IF CommitsAnew THEN Alloc
                      ELSE UNCHANGED << m_lAllocated, m_lFree, m_bChanged >>

CommitFails ==
    /\ CommitsAnew
    /\ AllocFails
    /\ UNCHANGED << m_bCommitted, m_bDecommitInProgress, m_lCount, m_lWaiting,
                    m_hSem >>

-----------------------------------------------------------------------------
(* The waiters: everyone who announced a wait gets one semaphore count.    *)

NotifySample_KeepWaiting ==     \* mutated form: the count is not reset
    /\ m_hSem' = m_hSem + m_lWaiting
    /\ UNCHANGED m_lWaiting

NotifySample_WakesOne ==        \* mutated form: one count for all the waiters
    /\ m_hSem' = m_hSem + (IF m_lWaiting > 0 THEN 1 ELSE 0)
    /\ m_lWaiting' = 0

NotifySample ==
    /\ m_hSem' = m_hSem + m_lWaiting
    /\ m_lWaiting' = 0

\* One pass of GetBuffer's loop, under the allocator's lock.
GetRejected == ~m_bCommitted /\ UNCHANGED allocVars

GetTakes(s) ==
    /\ m_bCommitted
    /\ s \in m_lFree
    /\ m_lFree' = m_lFree \ {s}
    /\ UNCHANGED << m_bCommitted, m_bDecommitInProgress, m_bChanged, m_lCount,
                    m_lAllocated, m_lWaiting, m_hSem >>

GetMustWait ==
    /\ m_bCommitted
    /\ m_lFree = {}
    /\ m_lWaiting' = m_lWaiting + 1
    /\ UNCHANGED << m_bCommitted, m_bDecommitInProgress, m_bChanged, m_lCount,
                    m_lAllocated, m_lFree, m_hSem >>

\* WaitForSingleObject(m_hSem, INFINITE) returns.
SemWait_TimesOut ==             \* mutated form: the wait is not for a count
    /\ m_hSem' = m_hSem - 1
    /\ UNCHANGED << m_bCommitted, m_bDecommitInProgress, m_bChanged, m_lCount,
                    m_lAllocated, m_lFree, m_lWaiting >>

SemWait ==
    /\ m_hSem > 0
    /\ m_hSem' = m_hSem - 1
    /\ UNCHANGED << m_bCommitted, m_bDecommitInProgress, m_bChanged, m_lCount,
                    m_lAllocated, m_lFree, m_lWaiting >>

-----------------------------------------------------------------------------
(* ReleaseBuffer and Decommit.  Each says whether the allocator gives up   *)
(* the reference it holds on itself (bRelease).                            *)

ReleaseCompletes(s) == m_bDecommitInProgress /\ m_lFree \cup {s} = Allocated

ReleaseBuffer_NoNotify(s) ==    \* mutated form: waiters are not told
    /\ m_lFree' = m_lFree \cup {s}
    /\ m_bDecommitInProgress' = (m_bDecommitInProgress /\ ~ReleaseCompletes(s))
    /\ UNCHANGED << m_bCommitted, m_bChanged, m_lCount, m_lAllocated, m_lWaiting, m_hSem >>

ReleaseBuffer_NotListed(s) ==   \* mutated form: not put back once decommitted
    /\ m_lFree' = IF m_bCommitted THEN m_lFree \cup {s} ELSE m_lFree
    /\ NotifySample
    /\ m_bDecommitInProgress' = (m_bDecommitInProgress /\ ~ReleaseCompletes(s))
    /\ UNCHANGED << m_bCommitted, m_bChanged, m_lCount, m_lAllocated >>

ReleaseBuffer(s) ==
    /\ m_lFree' = m_lFree \cup {s}
    /\ NotifySample
    /\ m_bDecommitInProgress' = (m_bDecommitInProgress /\ ~ReleaseCompletes(s))
    /\ UNCHANGED << m_bCommitted, m_bChanged, m_lCount, m_lAllocated >>

DecommitIsNoop    == ~m_bCommitted /\ ~m_bDecommitInProgress
DecommitCompletes_Always == ~DecommitIsNoop     \* mutated form
DecommitCompletes == ~DecommitIsNoop /\ AllFree

Decommit_FreesAtOnce ==         \* mutated form: the memory goes with the commit
    IF DecommitIsNoop THEN UNCHANGED allocVars
    ELSE /\ m_bCommitted' = FALSE
         /\ m_bDecommitInProgress' = ~AllFree
         /\ m_lAllocated' = 0 /\ m_lFree' = {} /\ m_bChanged' = TRUE
         /\ NotifySample
         /\ UNCHANGED m_lCount

Decommit_NotPending ==          \* mutated form: outstanding buffers forgotten
    IF DecommitIsNoop THEN UNCHANGED allocVars
    ELSE /\ m_bCommitted' = FALSE
         /\ m_bDecommitInProgress' = FALSE
         /\ NotifySample
         /\ UNCHANGED << m_bChanged, m_lCount, m_lAllocated, m_lFree >>

Decommit ==
    IF DecommitIsNoop THEN UNCHANGED allocVars
    ELSE /\ m_bCommitted' = FALSE
         /\ m_bDecommitInProgress' = ~AllFree
         /\ NotifySample
         /\ UNCHANGED << m_bChanged, m_lCount, m_lAllocated, m_lFree >>

-----------------------------------------------------------------------------
(* What the critical sections keep between them. *)

\* Threads are only left waiting while no sample is free and the allocator is
\* committed: whoever adds a free sample or decommits notifies them in the same
\* critical section (ReleaseBuffer, Decommit).
WaitersHaveReason == m_lWaiting > 0 => m_bCommitted /\ m_lFree = {}

\* A Decommit stays pending exactly while it has a buffer to wait for.
PendingHasReason ==
    m_bDecommitInProgress => ~m_bCommitted /\ ~AllFree

\* Buffers are with a user only while the allocator is committed or still owes
\* the completion of a Decommit, so the memory is never given back under them.
OutstandingIsCovered ==
    Outstanding # {} => m_bCommitted \/ m_bDecommitInProgress

\* Memory that Alloc reused instead of rebuilding has the asked-for count.
AllocatedAsAsked == m_bCommitted => m_lAllocated = m_lCount /\ m_lCount > 0
=============================================================================
