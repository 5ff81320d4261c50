------------------------- MODULE MemAllocatorProofs -------------------------
(* What the critical sections of the allocator keep, for every number of   *)
(* buffers: one lemma per operation.  The modules that prove something     *)
(* about the threads that use the allocator cite these lemmas.             *)
EXTENDS MemAllocator, TLAPS

AllocFlags ==
    /\ m_bCommitted \in BOOLEAN
    /\ m_bDecommitInProgress \in BOOLEAN
    /\ m_bChanged \in BOOLEAN

AllocNumbers ==
    /\ m_lCount \in Nat /\ m_lCount <= MaxCount
    /\ m_lAllocated \in Nat /\ m_lAllocated <= MaxCount
    /\ m_lFree \subseteq Allocated
    /\ m_lWaiting \in Nat
    /\ m_hSem \in Nat

\* The allocator's type invariant is its flags and its numbers.
LEMMA AllocTypeSplit == AllocTypeOK <=> AllocFlags /\ AllocNumbers
BY MaxCountAssumption DEF AllocTypeOK, AllocFlags, AllocNumbers

\* Memory is as asked for unless SetProperties ran since, and it has not while
\* the allocator is committed or still to be decommitted.
AsAsked ==
    /\ ~m_bChanged => m_lAllocated = m_lCount
    /\ m_bCommitted \/ m_bDecommitInProgress => ~m_bChanged /\ m_lCount > 0

\* The inductive invariant.
AllocInv ==
    /\ AllocFlags
    /\ AllocNumbers
    /\ WaitersHaveReason
    /\ PendingHasReason
    /\ OutstandingIsCovered
    /\ AsAsked

\* A new allocator satisfies the invariant.
LEMMA AllocInvInit == AllocInit => AllocInv
<1> SUFFICES ASSUME AllocInit PROVE AllocInv
  OBVIOUS
<1>1. AllocFlags
  BY DEF AllocInit, AllocFlags
<1>2. AllocNumbers
  BY MaxCountAssumption DEF AllocInit, AllocNumbers
<1>3. Allocated = {}
  BY DEF AllocInit, Allocated
<1> QED
  BY <1>1, <1>2, <1>3
     DEF AllocInit, AllocInv, Outstanding, WaitersHaveReason, PendingHasReason,
         OutstandingIsCovered, AsAsked

\* The invariant implies the named properties of the critical sections.
LEMMA AllocInvImplies ==
    AllocInv => AllocTypeOK /\ AllocatedAsAsked
BY AllocTypeSplit DEF AllocInv, AsAsked, AllocatedAsAsked

\* Steps elsewhere keep the invariant.
LEMMA AllocInvStutter == AllocInv /\ UNCHANGED allocVars => AllocInv'
BY DEF AllocInv, allocVars, AllocFlags, AllocNumbers, Allocated, Outstanding, AllFree,
       WaitersHaveReason, PendingHasReason, OutstandingIsCovered, AsAsked

-----------------------------------------------------------------------------
(* The operations. *)

\* SetProperties keeps the invariant.
LEMMA SetPropertiesKeeps ==
    ASSUME AllocInv, NEW n \in 0 .. MaxCount, SetProperties(n)
    PROVE  AllocInv'
<1> USE DEF AllocInv, SetProperties
<1>1. ~m_bCommitted /\ AllFree /\ ~m_bDecommitInProgress
  BY DEF CanSetProperties, PendingHasReason
<1>2. AllocFlags'
  BY DEF AllocFlags
<1>3. AllocNumbers'
  BY MaxCountAssumption DEF AllocNumbers, Allocated
<1>4. WaitersHaveReason' /\ PendingHasReason' /\ OutstandingIsCovered' /\ AsAsked'
  BY <1>1 DEF WaitersHaveReason, PendingHasReason, OutstandingIsCovered, AsAsked,
              AllFree, Outstanding, Allocated
<1> QED
  BY <1>2, <1>3, <1>4

\* Alloc on an allocator with every sample free leaves every sample free.
\* A new allocator starts out as the first one did.
LEMMA CreateForKeeps ==
    ASSUME NEW n \in 0 .. MaxCount, CreateFor(n)
    PROVE  AllocInv' /\ Outstanding' = {}
<1>1. AllocFlags'
  <2>1. m_bCommitted' \in BOOLEAN /\ m_bDecommitInProgress' \in BOOLEAN
    BY Zenon DEF CreateFor
  <2>2. m_bChanged' \in BOOLEAN
    BY Zenon DEF CreateFor
  <2> QED
    BY <2>1, <2>2 DEF AllocFlags
<1>2. AllocNumbers'
  BY MaxCountAssumption DEF CreateFor, AllocNumbers
<1>3. Allocated' = {}
  BY DEF CreateFor, Allocated
<1> QED
  BY <1>1, <1>2, <1>3
     DEF CreateFor, AllocInv, Outstanding, WaitersHaveReason, PendingHasReason,
         OutstandingIsCovered, AsAsked

\* Alloc, which may rebuild the samples, keeps the invariant.
LEMMA AllocKeeps ==
    ASSUME AllocInv, CommitsAnew, Alloc \/ AllocFails, UNCHANGED m_lCount
    PROVE  /\ m_bChanged' \in BOOLEAN
           /\ m_lAllocated' \in Nat /\ m_lAllocated' <= MaxCount
           /\ AllFree /\ AllFree'
           /\ Alloc => ~m_bChanged' /\ m_lAllocated' = m_lCount /\ m_lCount > 0
           /\ AllocFails => (~m_bChanged' => m_lAllocated' = m_lCount)
<1> USE DEF AllocInv, AllocFlags, AllocNumbers
<1>1. AllFree
  BY DEF CommitsAnew, OutstandingIsCovered, Outstanding, AllFree
<1>2. CASE Alloc
  <2>1. CASE ~m_bChanged /\ UNCHANGED << m_lAllocated, m_lFree, m_bChanged >>
    BY <1>1, <1>2, <2>1 DEF Alloc, AllFree, Allocated, AsAsked, AllocFails
  <2>2. CASE m_lAllocated' = m_lCount /\ m_lFree' = 1 .. m_lCount /\ m_bChanged' = FALSE
    BY <1>1, <1>2, <2>2 DEF Alloc, AllFree, Allocated
  <2> QED
    BY <1>2, <2>1, <2>2 DEF Alloc
<1>3. CASE AllocFails
  <2>1. CASE UNCHANGED << m_lAllocated, m_lFree, m_bChanged >>
    BY <1>1, <1>3, <2>1 DEF AllocFails, Alloc, AllFree, Allocated, AsAsked
  <2>2. CASE /\ m_bChanged /\ UNCHANGED m_bChanged
             /\ \E k \in 0 .. m_lCount - 1 : m_lAllocated' = k /\ m_lFree' = 1 .. k
    <3>1. PICK k \in 0 .. m_lCount - 1 : m_lAllocated' = k /\ m_lFree' = 1 .. k
      BY <2>2
    <3>2. k \in Nat /\ k <= MaxCount /\ AllFree'
      BY <3>1, MaxCountAssumption DEF AllFree, Allocated
    <3> QED
      BY <1>1, <2>2, <3>1, <3>2 DEF Alloc
  <2> QED
    BY <1>3, <2>1, <2>2 DEF AllocFails
<1> QED
  BY <1>2, <1>3

\* Commit keeps the invariant.
LEMMA CommitKeeps == AllocInv /\ Commit => AllocInv'
<1> SUFFICES ASSUME AllocInv, Commit PROVE AllocInv'
  OBVIOUS
<1>1. UNCHANGED << m_lCount, m_lWaiting, m_hSem >> /\ m_bCommitted' = TRUE
      /\ m_bDecommitInProgress' = FALSE
  BY DEF Commit
<1>2. CASE CommitsAnew
  <2>1. Alloc
    BY <1>2 DEF Commit
  <2>2. /\ m_bChanged' \in BOOLEAN /\ AllFree'
        /\ m_lAllocated' \in Nat /\ m_lAllocated' <= MaxCount
        /\ ~m_bChanged' /\ m_lAllocated' = m_lCount /\ m_lCount > 0
    BY <1>1, <1>2, <2>1, AllocKeeps
  <2>3. AllocFlags'
    BY <1>1, <2>2 DEF AllocFlags
  <2>4. AllocNumbers'
    BY <1>1, <2>2 DEF AllocInv, AllocNumbers, AllFree
  <2>5. ~(m_lWaiting > 0)
    BY <1>2 DEF CommitsAnew, AllocInv, WaitersHaveReason
  <2> QED
    BY <1>1, <2>2, <2>3, <2>4, <2>5
       DEF AllocInv, WaitersHaveReason, PendingHasReason, OutstandingIsCovered, AsAsked
<1>3. CASE ~CommitsAnew
  <2>1. UNCHANGED << m_lAllocated, m_lFree, m_bChanged >> /\ (m_bCommitted \/ m_bDecommitInProgress)
    BY <1>3 DEF Commit, CommitsAnew
  <2>2. AllocFlags' /\ AllocNumbers'
    BY <1>1, <2>1 DEF AllocInv, AllocFlags, AllocNumbers, Allocated
  <2>3. m_lWaiting > 0 => m_lFree = {}
    BY DEF AllocInv, WaitersHaveReason
  <2> QED
    BY <1>1, <2>1, <2>2, <2>3
       DEF AllocInv, WaitersHaveReason, PendingHasReason, OutstandingIsCovered, AsAsked
<1> QED
  BY <1>2, <1>3

\* A failed Commit keeps the invariant and leaves no sample out.
LEMMA CommitFailsKeeps == AllocInv /\ CommitFails => AllocInv' /\ AllFree'
<1> SUFFICES ASSUME AllocInv, CommitFails PROVE AllocInv' /\ AllFree'
  OBVIOUS
<1>1. UNCHANGED << m_bCommitted, m_bDecommitInProgress, m_lCount, m_lWaiting, m_hSem >>
      /\ ~m_bCommitted /\ ~m_bDecommitInProgress
  BY DEF CommitFails, CommitsAnew
<1>2. /\ m_bChanged' \in BOOLEAN /\ AllFree'
      /\ m_lAllocated' \in Nat /\ m_lAllocated' <= MaxCount
      /\ ~m_bChanged' => m_lAllocated' = m_lCount
  BY <1>1, AllocKeeps DEF CommitFails
<1>3. AllocFlags'
  BY <1>1, <1>2 DEF AllocInv, AllocFlags
<1>4. AllocNumbers'
  BY <1>1, <1>2 DEF AllocInv, AllocNumbers, AllFree
<1> QED
  BY <1>1, <1>2, <1>3, <1>4
     DEF AllocInv, WaitersHaveReason, PendingHasReason, OutstandingIsCovered, AsAsked,
         AllFree, Outstanding

\* Taking a sample keeps the invariant.
LEMMA GetTakesKeeps ==
    ASSUME AllocInv, NEW s \in m_lFree, GetTakes(s)
    PROVE  AllocInv'
<1>1. /\ m_bCommitted /\ m_lFree' = m_lFree \ {s}
      /\ UNCHANGED << m_bCommitted, m_bDecommitInProgress, m_bChanged, m_lCount,
                      m_lAllocated, m_lWaiting, m_hSem >>
  BY DEF GetTakes
<1>2. AllocFlags' /\ AllocNumbers'
  BY <1>1 DEF AllocInv, AllocFlags, AllocNumbers, Allocated
<1>3. ~(m_lWaiting > 0)
  BY DEF AllocInv, WaitersHaveReason
<1> QED
  BY <1>1, <1>2, <1>3
     DEF AllocInv, WaitersHaveReason, PendingHasReason, OutstandingIsCovered, AsAsked

\* Announcing a wait keeps the invariant.
LEMMA GetMustWaitKeeps == AllocInv /\ GetMustWait => AllocInv'
<1> SUFFICES ASSUME AllocInv, GetMustWait PROVE AllocInv'
  OBVIOUS
<1>1. AllocFlags' /\ AllocNumbers'
  BY DEF GetMustWait, AllocInv, AllocFlags, AllocNumbers, Allocated
<1> QED
  BY <1>1 DEF GetMustWait, AllocInv, WaitersHaveReason, PendingHasReason, OutstandingIsCovered,
              AsAsked

\* Waking up keeps the invariant.
LEMMA SemWaitKeeps == AllocInv /\ SemWait => AllocInv'
<1> SUFFICES ASSUME AllocInv, SemWait PROVE AllocInv'
  OBVIOUS
<1>1. AllocFlags'
  BY DEF SemWait, AllocInv, AllocFlags
<1>2. AllocNumbers'
  BY DEF SemWait, AllocInv, AllocNumbers, Allocated
<1> QED
  BY <1>1, <1>2 DEF SemWait, AllocInv, WaitersHaveReason, PendingHasReason,
                    OutstandingIsCovered, AsAsked, Outstanding, Allocated, AllFree

\* Notifying leaves nobody waiting.
LEMMA NotifySampleKeeps ==
    ASSUME AllocNumbers, NotifySample
    PROVE  m_lWaiting' = 0 /\ m_hSem' \in Nat
BY DEF AllocNumbers, NotifySample

\* ReleaseBuffer of a sample that is out keeps the invariant.
LEMMA ReleaseBufferKeeps ==
    ASSUME AllocInv, NEW s \in Outstanding, ReleaseBuffer(s)
    PROVE  AllocInv'
<1>1. /\ m_lFree' = m_lFree \cup {s} /\ s \in Allocated
      /\ UNCHANGED << m_bCommitted, m_bChanged, m_lCount, m_lAllocated >>
      /\ m_bDecommitInProgress' = (m_bDecommitInProgress /\ m_lFree' # Allocated)
  BY DEF ReleaseBuffer, ReleaseCompletes, Outstanding
<1>2. m_lWaiting' = 0 /\ m_hSem' \in Nat
  BY NotifySampleKeeps DEF ReleaseBuffer, AllocInv
<1>3. AllocFlags'
  BY <1>1 DEF AllocInv, AllocFlags
<1>4. AllocNumbers'
  BY <1>1, <1>2 DEF AllocInv, AllocNumbers, Allocated
<1>5. Allocated' = Allocated
  BY <1>1 DEF Allocated
<1>6. WaitersHaveReason'
  BY <1>2 DEF WaitersHaveReason
<1>7. PendingHasReason' /\ OutstandingIsCovered'
  BY <1>1, <1>5 DEF AllocInv, AllocNumbers, PendingHasReason, OutstandingIsCovered,
                    Outstanding, AllFree
<1>8. AsAsked'
  BY <1>1 DEF AllocInv, AsAsked
<1> QED
  BY <1>3, <1>4, <1>6, <1>7, <1>8 DEF AllocInv

\* Decommit keeps the invariant.
LEMMA DecommitKeeps == AllocInv /\ Decommit => AllocInv'
<1> SUFFICES ASSUME AllocInv, Decommit PROVE AllocInv'
  OBVIOUS
<1>1. CASE DecommitIsNoop
  BY <1>1, AllocInvStutter DEF Decommit
<1>2. CASE ~DecommitIsNoop
  <2>1. /\ m_bCommitted' = FALSE /\ m_bDecommitInProgress' = ~AllFree
        /\ UNCHANGED << m_bChanged, m_lCount, m_lAllocated, m_lFree >>
    BY <1>2 DEF Decommit
  <2>2. m_lWaiting' = 0 /\ m_hSem' \in Nat
    BY <1>2, NotifySampleKeeps DEF Decommit, AllocInv
  <2>3. AllocFlags'
    BY <2>1 DEF AllocInv, AllocFlags
  <2>4. AllocNumbers'
    BY <2>1, <2>2 DEF AllocInv, AllocNumbers, Allocated
  <2>5. Allocated' = Allocated /\ (m_bCommitted \/ m_bDecommitInProgress)
    BY <1>2, <2>1 DEF Allocated, DecommitIsNoop
  <2>6. WaitersHaveReason'
    BY <2>2 DEF WaitersHaveReason
  <2>7. PendingHasReason' /\ OutstandingIsCovered'
    BY <2>1, <2>5 DEF AllocInv, AllocNumbers, PendingHasReason, OutstandingIsCovered,
                      Outstanding, AllFree
  <2>8. AsAsked'
    BY <2>1, <2>5 DEF AllocInv, AsAsked
  <2> QED
    BY <2>3, <2>4, <2>6, <2>7, <2>8 DEF AllocInv
<1> QED
  BY <1>1, <1>2

-----------------------------------------------------------------------------
(* Which samples are out. *)

\* Sizing, committing, waiting and decommitting leave the samples that are out.
LEMMA OutstandingStays ==
    ASSUME AllocInv,
           \/ Commit \/ CommitFails \/ Decommit \/ GetRejected \/ GetMustWait \/ SemWait
           \/ UNCHANGED allocVars \/ \E n \in 0 .. MaxCount : SetProperties(n)
    PROVE  Outstanding' = Outstanding
<1>1. CASE UNCHANGED << m_lAllocated, m_lFree >>
  BY <1>1 DEF Outstanding, Allocated
<1>2. CASE CommitsAnew /\ (Commit \/ CommitFails)
  <2>1. AllFree /\ AllFree'
    BY <1>2, AllocKeeps DEF Commit, CommitFails
  <2> QED
    BY <2>1 DEF AllFree, Outstanding
<1> QED
  BY <1>1, <1>2 DEF Commit, CommitFails, Decommit, GetRejected, GetMustWait, SemWait, allocVars,
                    SetProperties

\* GetBuffer adds its sample to those that are out.
LEMMA OutstandingGrows ==
    ASSUME AllocInv, NEW s \in m_lFree, GetTakes(s)
    PROVE  Outstanding' = Outstanding \cup {s} /\ s \in Sample
BY MaxCountAssumption DEF AllocInv, AllocNumbers, GetTakes, Outstanding, Allocated, Sample

\* ReleaseBuffer takes its sample from those that are out.
LEMMA OutstandingShrinks ==
    ASSUME AllocInv, NEW s \in Outstanding, ReleaseBuffer(s)
    PROVE  Outstanding' = Outstanding \ {s}
BY DEF ReleaseBuffer, Outstanding, Allocated
=============================================================================
