--------------------------- MODULE TransportProofs ---------------------------
(***************************************************************************)
(* How samples travel, and what they travel through: the threads that use  *)
(* the allocator of a connection (AllocatorThreads), for every finite set  *)
(* of threads and every number of buffers; and the filters in the middle   *)
(* of a graph and the windows at its end (MCTransforms), for every length  *)
(* of the chain, all formats and every number of calls.                    *)
(*                                                                         *)
(* The critical sections keep AllocInv (module MemAllocatorProofs).        *)
(***************************************************************************)
EXTENDS AllocatorThreads, MemAllocatorProofs, MCTransforms, FiniteSetTheorems,
        SequenceTheorems, TLAPS

-----------------------------------------------------------------------------
(* The threads of an allocator. *)

Label == {"idle", "getbuffer", "wait", "selfrelease", "dropref"}
Inside(label) == Cardinality(At(label))

Places ==
    /\ pc \in [Threads -> Label]
    /\ holders \in [Sample -> SUBSET Threads]
    /\ owned \in BOOLEAN

Samples == SampleConservation /\ NoDanglingSample

\* Nobody is in GetBuffer of an allocator that its connection has left.
OwnedInside == owned \/ NobodyInGetBuffer

\* The inductive invariant.
Inv ==
    /\ AllocInv
    /\ Places
    /\ Samples
    /\ WakeupAccounting
    /\ RefAccounting
    /\ OwnedInside

-----------------------------------------------------------------------------
(* Counting threads. *)

\* The number of threads at a label is a number.
LEMMA InsideIsNat ==
    ASSUME NEW l
    PROVE  IsFiniteSet(At(l)) /\ Inside(l) \in Nat
<1>1. At(l) \in SUBSET Threads
  BY DEF At
<1> QED
  BY <1>1, ThreadsAssumption, FS_Subset, FS_CardinalityType DEF Inside

\* A thread that goes from one place to another.
LEMMA Moves ==
    ASSUME NEW t \in Threads, NEW new, NEW l, pc \in [Threads -> Label],
           pc' = [pc EXCEPT ![t] = new]
    PROVE  Inside(l)' = IF pc[t] = l THEN (IF new = l THEN Inside(l) ELSE Inside(l) - 1)
                                     ELSE (IF new = l THEN Inside(l) + 1 ELSE Inside(l))
<1>1. At(l)' = IF new = l THEN At(l) \cup {t} ELSE At(l) \ {t}
  BY DEF At
<1>2. t \in At(l) <=> pc[t] = l
  BY DEF At
<1>3. IsFiniteSet(At(l))
  BY InsideIsNat
<1>4. CASE new = l
  BY <1>1, <1>2, <1>3, <1>4, FS_AddElement DEF Inside
<1>5. CASE new # l
  BY <1>1, <1>2, <1>3, <1>5, FS_RemoveElement DEF Inside
<1> QED
  BY <1>4, <1>5

\* A thread that is at another label does not count here.
LEMMA Elsewhere ==
    ASSUME NEW t \in Threads, NEW new, NEW l, pc \in [Threads -> Label],
           pc' = [pc EXCEPT ![t] = new], pc[t] # l, new # l
    PROVE  Inside(l)' = Inside(l)
BY Moves

\* Where no thread moves, the counts stay.
LEMMA Stays == ASSUME NEW l, UNCHANGED pc PROVE Inside(l)' = Inside(l)
BY DEF Inside, At

\* WakeupAccounting and RefAccounting in terms of Inside.
LEMMA Accounts ==
    /\ WakeupAccounting <=> Inside("wait") = m_lWaiting + m_hSem
    /\ RefAccounting <=> m_cRef = (IF owned THEN 1 ELSE 0) + Inside("dropref")
                                    + SelfReference + Inside("selfrelease")
BY DEF WakeupAccounting, RefAccounting, Inside

\* The accounts of a state, written for the next one.
LEMMA AccountsNext ==
    /\ WakeupAccounting' <=> Inside("wait")' = m_lWaiting' + m_hSem'
    /\ RefAccounting' <=> m_cRef' = (IF owned' THEN 1 ELSE 0) + Inside("dropref")'
                                     + SelfReference' + Inside("selfrelease")'
BY DEF WakeupAccounting, RefAccounting, Inside

\* The accounts balance when the connection gets its allocator.
LEMMA InvInit == Init => Inv
<1> SUFFICES ASSUME Init PROVE Inv
  OBVIOUS
<1>1. AllocInv
  BY AllocInvInit DEF Init
<1>2. Places
  BY DEF Init, Places, Label
<1>3. Samples
  BY DEF Init, AllocInit, Samples, SampleConservation, NoDanglingSample, Allocated
<1>4. \A l \in Label \ {"idle"} : Inside(l) = 0
  BY FS_EmptySet DEF Init, Inside, At
<1>5. WakeupAccounting
  BY <1>4, Accounts DEF Init, AllocInit, Label
<1>6. RefAccounting
  BY <1>4, Accounts DEF Init, AllocInit, Label, SelfReference
<1>7. OwnedInside
  BY DEF Init, OwnedInside
<1> QED
  BY <1>1, <1>2, <1>3, <1>5, <1>6, <1>7 DEF Inv

-----------------------------------------------------------------------------
(* What the parts of the invariant give together. *)

\* The self reference is one from Commit to the completed Decommit, else none.
LEMMA SelfReferenceValue ==
    /\ SelfReference \in {0, 1}
    /\ m_bCommitted \/ m_bDecommitInProgress => SelfReference = 1
    /\ ~m_bCommitted /\ ~m_bDecommitInProgress => SelfReference = 0
BY DEF SelfReference

\* A sample somebody holds is out.
LEMMA HeldIsOut ==
    ASSUME Samples, NEW s \in Sample, holders[s] # {}
    PROVE  s \in Outstanding
BY DEF Samples, SampleConservation, NoDanglingSample, Outstanding

\* With every sample free, nobody holds one.
LEMMA FreeIsUnheld ==
    ASSUME Samples, AllFree, NEW s \in Sample
    PROVE  holders[s] = {}
BY HeldIsOut DEF AllFree, Outstanding

\* Where no thread is at a label, the count is zero.
LEMMA NobodyInside ==
    ASSUME NEW l, Inside(l) = 0
    PROVE  \A t \in Threads : pc[t] # l
BY InsideIsNat, FS_EmptySet DEF Inside, At

\* The allocator is destroyed only when nobody uses it.
LEMMA InvGivesLive == Inv => LiveWhileUsed
<1> SUFFICES ASSUME Inv, m_cRef = 0
             PROVE  /\ \A s \in Sample : holders[s] = {}
                    /\ \A t \in Threads : pc[t] = "idle"
  BY DEF LiveWhileUsed
<1>1. ~owned /\ Inside("dropref") = 0 /\ SelfReference = 0 /\ Inside("selfrelease") = 0
  <2>1. m_cRef = (IF owned THEN 1 ELSE 0) + Inside("dropref") + SelfReference
                    + Inside("selfrelease")
    BY Accounts DEF Inv
  <2>2. Inside("dropref") \in Nat /\ Inside("selfrelease") \in Nat /\ SelfReference \in {0, 1}
    BY InsideIsNat, SelfReferenceValue
  <2> QED
    BY <2>1, <2>2
<1>2. AllFree
  <2>1. ~m_bCommitted /\ ~m_bDecommitInProgress
    BY <1>1, SelfReferenceValue
  <2> QED
    BY <2>1 DEF Inv, AllocInv, OutstandingIsCovered, Outstanding, AllFree, AllocNumbers
<1>3. \A s \in Sample : holders[s] = {}
  BY <1>2, FreeIsUnheld DEF Inv
<1>4. \A t \in Threads : pc[t] # "dropref" /\ pc[t] # "selfrelease"
  BY <1>1, NobodyInside
<1>5. \A t \in Threads : pc[t] # "getbuffer" /\ pc[t] # "wait"
  BY <1>1 DEF Inv, OwnedInside, NobodyInGetBuffer
<1> QED
  BY <1>3, <1>4, <1>5 DEF Inv, Places, Label

\* The invariant contains the types.
LEMMA InvGivesType == Inv => TypeOK
<1> SUFFICES ASSUME Inv PROVE TypeOK
  OBVIOUS
<1>1. m_cRef \in Nat
  BY Accounts, InsideIsNat, SelfReferenceValue DEF Inv
<1> QED
  BY <1>1, AllocInvImplies DEF Inv, TypeOK, Places, Label

-----------------------------------------------------------------------------
(* The steps. *)

\* Steps that leave the allocator's lists and the holders alone.
LEMMA SamplesStay ==
    ASSUME Samples, UNCHANGED << m_lAllocated, m_lFree, holders >>
    PROVE  Samples'
BY DEF Samples, SampleConservation, NoDanglingSample, Allocated

\* What Decommit does to the waiters and to the allocator's own reference.
LEMMA DecommitCounts ==
    ASSUME AllocInv, Decommit
    PROVE  /\ m_lWaiting' + m_hSem' = m_lWaiting + m_hSem
           /\ SelfReference' = SelfReference - (IF DecommitCompletes THEN 1 ELSE 0)
<1>1. CASE DecommitIsNoop
  BY <1>1 DEF Decommit, allocVars, DecommitCompletes, SelfReference, AllocInv, AllocNumbers
<1>2. CASE ~DecommitIsNoop
  <2>1. m_lWaiting' + m_hSem' = m_lWaiting + m_hSem
    BY <1>2 DEF Decommit, NotifySample, AllocInv, AllocNumbers
  <2>2. SelfReference = 1
    BY <1>2 DEF DecommitIsNoop, SelfReference
  <2>3. m_bCommitted' = FALSE /\ m_bDecommitInProgress' = ~AllFree
    BY <1>2 DEF Decommit
  <2>4. SelfReference' = IF AllFree THEN 0 ELSE 1
    BY <2>3 DEF SelfReference
  <2>5. DecommitCompletes <=> AllFree
    BY <1>2 DEF DecommitCompletes
  <2> QED
    BY <2>1, <2>2, <2>4, <2>5
<1> QED
  BY <1>1, <1>2

\* What ReleaseBuffer does to the semaphore and to the announced waits.
LEMMA ReleaseCounts ==
    ASSUME AllocInv, NEW s, ReleaseBuffer(s)
    PROVE  /\ m_lWaiting' + m_hSem' = m_lWaiting + m_hSem
           /\ SelfReference' = SelfReference - (IF ReleaseCompletes(s) THEN 1 ELSE 0)
<1>1. m_lWaiting' + m_hSem' = m_lWaiting + m_hSem
  BY DEF ReleaseBuffer, NotifySample, AllocInv, AllocNumbers
<1>2. m_bCommitted' = m_bCommitted
      /\ m_bDecommitInProgress' = (m_bDecommitInProgress /\ ~ReleaseCompletes(s))
  BY DEF ReleaseBuffer
<1>3. CASE ReleaseCompletes(s)
  <2>1. m_bDecommitInProgress /\ ~m_bCommitted
    BY <1>3 DEF ReleaseCompletes, AllocInv, PendingHasReason
  <2>2. SelfReference = 1
    BY <2>1 DEF SelfReference
  <2>3. SelfReference' = 0
    BY <1>2, <1>3, <2>1 DEF SelfReference
  <2> QED
    BY <1>1, <1>3, <2>2, <2>3
<1>4. CASE ~ReleaseCompletes(s)
  <2>1. SelfReference' = SelfReference
    BY <1>2, <1>4 DEF SelfReference
  <2> QED
    BY <1>1, <1>4, <2>1, SelfReferenceValue
<1> QED
  BY <1>3, <1>4

\* Commit, successful or not, keeps the accounts: a new self reference exactly when
\* there was none.
LEMMA CommitStep ==
    ASSUME Inv, NEW t \in Threads, CallCommit(t)
    PROVE  Inv'
<1> USE DEF Inv
<1>1. UNCHANGED << pc, holders, owned >>
  BY DEF CallCommit
<1>2. AllocInv' /\ Places' /\ OwnedInside'
  BY <1>1, CommitKeeps, CommitFailsKeeps
     DEF CallCommit, Places, OwnedInside, NobodyInGetBuffer
<1>3. UNCHANGED << m_lWaiting, m_hSem >>
  BY DEF CallCommit, Commit, CommitFails
<1>4. WakeupAccounting'
  BY <1>1, <1>3, Accounts, AccountsNext, Stays
<1>5. Samples'
  <2>1. CASE CommitsAnew /\ (Alloc \/ AllocFails)
    <3>1. AllFree /\ AllFree'
      BY <2>1, AllocKeeps DEF CallCommit, Commit, CommitFails
    <3>2. \A s \in Sample : holders'[s] = {}
      BY <1>1, <3>1, FreeIsUnheld
    <3> QED
      BY <3>1, <3>2 DEF Samples, SampleConservation, NoDanglingSample, AllFree
  <2>2. CASE UNCHANGED << m_lAllocated, m_lFree >>
    BY <1>1, <2>2, SamplesStay
  <2> QED
    BY <2>1, <2>2 DEF CallCommit, Commit, CommitFails
<1>6. RefAccounting'
  <2>1. Inside("dropref")' = Inside("dropref") /\ Inside("selfrelease")' = Inside("selfrelease")
    BY <1>1, Stays
  <2>2. m_cRef' - SelfReference' = m_cRef - SelfReference
    <3>0. m_cRef \in Int /\ SelfReference \in {0, 1}
      BY InvGivesType, SelfReferenceValue DEF TypeOK
    <3>1. CASE Commit /\ m_cRef' = m_cRef + (IF CommitAddsRef THEN 1 ELSE 0)
      <4>1. SelfReference' = 1
        BY <3>1 DEF Commit, SelfReference
      <4>2. SelfReference = IF CommitsAnew THEN 0 ELSE 1
        BY DEF CommitsAnew, SelfReference
      <4> QED
        BY <3>0, <3>1, <4>1, <4>2 DEF CommitAddsRef
    <3>2. CASE CommitFails /\ UNCHANGED m_cRef
      BY <3>0, <3>2 DEF CommitFails, SelfReference
    <3> QED
      BY <3>1, <3>2 DEF CallCommit
  <2>3. /\ Inside("dropref") \in Nat /\ Inside("selfrelease") \in Nat
        /\ m_cRef \in Int /\ SelfReference \in Int /\ SelfReference' \in Int /\ m_cRef' \in Int
    BY InsideIsNat, InvGivesType, SelfReferenceValue DEF TypeOK, CallCommit, SelfReference
  <2>4. m_cRef = (IF owned THEN 1 ELSE 0) + Inside("dropref") + SelfReference
                    + Inside("selfrelease")
    BY Accounts
  <2>5. m_cRef' = (IF owned THEN 1 ELSE 0) + Inside("dropref") + SelfReference'
                     + Inside("selfrelease")
    BY <2>2, <2>3, <2>4
  <2> QED
    BY <1>1, <2>1, <2>5, AccountsNext
<1> QED
  BY <1>2, <1>4, <1>5, <1>6

\* A thread moves, and neither the references nor the samples change.
LEMMA PlainMove ==
    ASSUME Inv, NEW t \in Threads, NEW new \in Label,
           pc' = [pc EXCEPT ![t] = new], pc[t] \notin {"selfrelease", "dropref"},
           new \notin {"selfrelease", "dropref"},
           UNCHANGED << m_cRef, owned, m_bCommitted, m_bDecommitInProgress >>
    PROVE  RefAccounting'
<1>1. Inside("dropref")' = Inside("dropref") /\ Inside("selfrelease")' = Inside("selfrelease")
  BY Moves DEF Inv, Places
<1> QED
  BY <1>1, Accounts, AccountsNext DEF Inv, SelfReference

\* A pass of GetBuffer keeps the accounts.
LEMMA GetBufferStep ==
    ASSUME Inv, NEW t \in Threads, GetBuffer(t)
    PROVE  Inv'
<1>0. pc[t] = "getbuffer" /\ UNCHANGED << m_cRef, owned >>
  BY DEF GetBuffer
<1>1. Inside("wait") \in Nat /\ m_lWaiting \in Nat /\ m_hSem \in Nat
      /\ Inside("wait") = m_lWaiting + m_hSem
  BY InsideIsNat, Accounts DEF Inv, AllocInv, AllocNumbers
<1>2. owned
  BY <1>0 DEF Inv, OwnedInside, NobodyInGetBuffer
<1>3. OwnedInside'
  BY <1>0, <1>2 DEF OwnedInside
<1>4. CASE GetRejected /\ Goto(t, "idle") /\ UNCHANGED holders
  <2>1. UNCHANGED allocVars
    BY <1>4 DEF GetRejected
  <2>2. AllocInv' /\ Places' /\ Samples'
    BY <1>0, <1>4, <2>1, AllocInvStutter, SamplesStay DEF Inv, allocVars, Places, Goto, Label
  <2>3. WakeupAccounting'
    <3>1. Inside("wait")' = Inside("wait")
      BY <1>0, <1>4, Elsewhere DEF Inv, Places, Goto
    <3> QED
      BY <1>1, <2>1, <3>1, AccountsNext DEF allocVars
  <2>4. RefAccounting'
    BY <1>0, <1>4, <2>1, PlainMove DEF Goto, Label, allocVars
  <2> QED
    BY <1>3, <2>2, <2>3, <2>4 DEF Inv
<1>5. CASE \E s \in m_lFree : /\ GetTakes(s)
                              /\ holders' = [holders EXCEPT ![s] = {t}]
                              /\ Goto(t, "idle")
  <2>1. PICK s \in m_lFree : /\ GetTakes(s)
                             /\ holders' = [holders EXCEPT ![s] = {t}]
                             /\ Goto(t, "idle")
    BY <1>5
  <2>2. s \in Sample
    BY MaxCountAssumption DEF Inv, AllocInv, AllocNumbers, Allocated, Sample
  <2>3. AllocInv'
    BY <2>1, GetTakesKeeps DEF Inv
  <2>4. Places'
    BY <1>0, <2>1, <2>2 DEF Inv, Places, Goto, Label
  <2>5. Samples'
    BY <2>1, <2>2 DEF Inv, AllocInv, AllocNumbers, Samples, SampleConservation, NoDanglingSample,
                      GetTakes, Allocated, Places
  <2>6. WakeupAccounting'
    <3>1. Inside("wait")' = Inside("wait")
      BY <1>0, <2>1, Elsewhere DEF Inv, Places, Goto
    <3> QED
      BY <1>1, <2>1, <3>1, AccountsNext DEF GetTakes
  <2>7. RefAccounting'
    BY <1>0, <2>1, PlainMove DEF Goto, Label, GetTakes
  <2> QED
    BY <1>3, <2>3, <2>4, <2>5, <2>6, <2>7 DEF Inv
<1>6. CASE GetMustWait /\ Goto(t, "wait") /\ UNCHANGED holders
  <2>1. AllocInv' /\ Places' /\ Samples'
    BY <1>0, <1>6, GetMustWaitKeeps, SamplesStay DEF Inv, Places, Goto, Label, GetMustWait
  <2>2. WakeupAccounting'
    <3>1. Inside("wait")' = Inside("wait") + 1
      BY <1>0, <1>6, Moves DEF Inv, Places, Goto
    <3>2. m_lWaiting' = m_lWaiting + 1 /\ m_hSem' = m_hSem
      BY <1>6 DEF GetMustWait
    <3> QED
      BY <1>1, <3>1, <3>2, AccountsNext
  <2>3. RefAccounting'
    BY <1>0, <1>6, PlainMove DEF Goto, Label, GetMustWait
  <2> QED
    BY <1>3, <2>1, <2>2, <2>3 DEF Inv
<1> QED
  BY <1>4, <1>5, <1>6 DEF GetBuffer

\* A thread that wakes takes one count of the semaphore with it.
LEMMA WakeStep ==
    ASSUME Inv, NEW t \in Threads, Wake(t)
    PROVE  Inv'
<1>1. /\ pc[t] = "wait" /\ pc' = [pc EXCEPT ![t] = "getbuffer"]
      /\ UNCHANGED << m_cRef, owned, holders >> /\ SemWait
  BY DEF Wake, Goto
<1>2. AllocInv' /\ Places' /\ Samples'
  BY <1>1, SemWaitKeeps, SamplesStay DEF Inv, Places, Label, SemWait
<1>3. WakeupAccounting'
  <2>1. Inside("wait")' = Inside("wait") - 1
    BY <1>1, Moves DEF Inv, Places
  <2>2. m_lWaiting' = m_lWaiting /\ m_hSem' = m_hSem - 1
    BY <1>1 DEF SemWait
  <2>3. m_lWaiting \in Nat /\ m_hSem \in Nat /\ Inside("wait") = m_lWaiting + m_hSem
    BY Accounts DEF Inv, AllocInv, AllocNumbers
  <2> QED
    BY <2>1, <2>2, <2>3, AccountsNext
<1>4. RefAccounting'
  BY <1>1, PlainMove DEF Label, SemWait
<1>5. OwnedInside'
  BY <1>1 DEF Inv, OwnedInside, NobodyInGetBuffer
<1> QED
  BY <1>2, <1>3, <1>4, <1>5 DEF Inv

\* Entering GetBuffer moves one thread and nothing else.
LEMMA EnterStep ==
    ASSUME Inv, NEW t \in Threads, EnterGetBuffer(t)
    PROVE  Inv'
<1>1. /\ pc[t] = "idle" /\ pc' = [pc EXCEPT ![t] = "getbuffer"] /\ owned
      /\ UNCHANGED << m_cRef, owned, holders >> /\ UNCHANGED allocVars
  BY DEF EnterGetBuffer, Goto
<1>2. AllocInv' /\ Places' /\ Samples'
  BY <1>1, AllocInvStutter, SamplesStay DEF Inv, Places, Label, allocVars
<1>3. WakeupAccounting'
  <2>1. Inside("wait")' = Inside("wait")
    BY <1>1, Elsewhere DEF Inv, Places
  <2> QED
    BY <1>1, <2>1, Accounts, AccountsNext DEF Inv, allocVars
<1>4. RefAccounting'
  BY <1>1, PlainMove DEF Label, allocVars
<1>5. OwnedInside'
  BY <1>1 DEF OwnedInside
<1> QED
  BY <1>2, <1>3, <1>4, <1>5 DEF Inv

\* SetProperties changes only what is asked for.
LEMMA SetPropertiesStep ==
    ASSUME Inv, NEW t \in Threads, CallSetProperties(t)
    PROVE  Inv'
<1>1. PICK n \in 0 .. MaxCount : SetProperties(n)
  BY DEF CallSetProperties
<1>2. UNCHANGED << pc, m_cRef, owned, holders >>
      /\ UNCHANGED << m_bCommitted, m_bDecommitInProgress, m_lAllocated, m_lFree, m_lWaiting,
                      m_hSem >>
  BY <1>1 DEF CallSetProperties, threadVars, SetProperties
<1>3. AllocInv' /\ Places' /\ Samples' /\ OwnedInside'
  BY <1>1, <1>2, SetPropertiesKeeps, SamplesStay
     DEF Inv, Places, OwnedInside, NobodyInGetBuffer
<1>4. WakeupAccounting' /\ RefAccounting'
  BY <1>2, Stays, Accounts, AccountsNext DEF Inv, SelfReference
<1> QED
  BY <1>3, <1>4 DEF Inv

\* A thread leaves a critical section, and with it the allocator gives up its
\* own reference if the Decommit is complete.
LEMMA ReferenceMoves ==
    ASSUME Inv, NEW t \in Threads, NEW gives \in BOOLEAN, pc[t] = "idle",
           SelfReference' = SelfReference - (IF gives THEN 1 ELSE 0),
           pc' = [pc EXCEPT ![t] = IF gives THEN "selfrelease" ELSE "idle"],
           UNCHANGED << m_cRef, owned >>
    PROVE  RefAccounting' /\ Inside("wait")' = Inside("wait")
<1>1. Inside("dropref")' = Inside("dropref") /\ Inside("wait")' = Inside("wait")
      /\ Inside("selfrelease")' = Inside("selfrelease") + (IF gives THEN 1 ELSE 0)
  <2>1. CASE gives
    <3>1. pc' = [pc EXCEPT ![t] = "selfrelease"]
      BY <2>1
    <3>2. Inside("selfrelease")' = Inside("selfrelease") + 1
      BY <3>1, Moves DEF Inv, Places
    <3>3. Inside("dropref")' = Inside("dropref") /\ Inside("wait")' = Inside("wait")
      BY <3>1, Elsewhere DEF Inv, Places
    <3> QED
      BY <2>1, <3>2, <3>3
  <2>2. CASE ~gives
    <3>1. pc' = [pc EXCEPT ![t] = "idle"]
      BY <2>2
    <3>2. Inside("selfrelease")' = Inside("selfrelease") /\ Inside("wait")' = Inside("wait")
          /\ Inside("dropref")' = Inside("dropref")
      BY <3>1, Elsewhere DEF Inv, Places
    <3>3. Inside("selfrelease") \in Nat
      BY InsideIsNat
    <3> QED
      BY <2>2, <3>2, <3>3
  <2> QED
    BY <2>1, <2>2
<1>2. Inside("dropref") \in Nat /\ Inside("selfrelease") \in Nat /\ SelfReference \in {0, 1}
  BY InsideIsNat, SelfReferenceValue
<1>3. m_cRef = (IF owned THEN 1 ELSE 0) + Inside("dropref") + SelfReference
                  + Inside("selfrelease")
  BY Accounts DEF Inv
<1>4. m_cRef = (IF owned THEN 1 ELSE 0) + Inside("dropref")' + SelfReference'
                  + Inside("selfrelease")'
  BY <1>1, <1>2, <1>3
<1> QED
  BY <1>1, <1>4, AccountsNext

\* Decommit keeps the accounts: the self reference goes over to the thread that
\* completes it.
LEMMA DecommitStep ==
    ASSUME Inv, NEW t \in Threads, CallDecommit(t)
    PROVE  Inv'
<1>1. /\ pc[t] = "idle" /\ UNCHANGED << m_cRef, owned, holders >> /\ Decommit
      /\ pc' = [pc EXCEPT ![t] = IF DecommitCompletes THEN "selfrelease" ELSE "idle"]
  BY DEF CallDecommit, Goto, Inv, Places
<1>2. UNCHANGED << m_lAllocated, m_lFree >>
  BY <1>1 DEF Decommit, allocVars
<1>3. AllocInv' /\ Places' /\ Samples'
  BY <1>1, <1>2, DecommitKeeps, SamplesStay DEF Inv, Places, Label
<1>4. RefAccounting' /\ Inside("wait")' = Inside("wait")
  BY <1>1, DecommitCounts, ReferenceMoves DEF Inv, DecommitCompletes
<1>5. WakeupAccounting'
  BY <1>1, <1>4, DecommitCounts, Accounts, AccountsNext DEF Inv
<1>6. OwnedInside'
  BY <1>1 DEF Inv, OwnedInside, NobodyInGetBuffer, Places
<1> QED
  BY <1>3, <1>4, <1>5, <1>6 DEF Inv

\* A further reference on a sample changes no account of the allocator.
LEMMA AddRefStep ==
    ASSUME Inv, NEW t \in Threads, NEW u \in Threads, NEW s \in Sample, AddRefSample(t, u, s)
    PROVE  Inv'
<1>1. /\ t \in holders[s] /\ holders' = [holders EXCEPT ![s] = @ \cup {u}]
      /\ UNCHANGED << pc, m_cRef, owned >> /\ UNCHANGED allocVars
  BY DEF AddRefSample
<1>2. AllocInv' /\ Places' /\ OwnedInside'
  BY <1>1, AllocInvStutter DEF Inv, Places, OwnedInside, NobodyInGetBuffer
<1>3. \A x \in Sample : holders'[x] = {} <=> holders[x] = {}
  BY <1>1 DEF Inv, Places
<1>4. Samples'
  BY <1>1, <1>3 DEF Inv, Samples, SampleConservation, NoDanglingSample, Allocated, allocVars
<1>5. WakeupAccounting' /\ RefAccounting'
  BY <1>1, Stays, Accounts, AccountsNext DEF Inv, SelfReference, allocVars
<1> QED
  BY <1>2, <1>4, <1>5 DEF Inv

\* The last release of a sample puts it on the free list and wakes the waiters.
LEMMA ReleaseStep ==
    ASSUME Inv, NEW t \in Threads, NEW s \in Sample, ReleaseSample(t, s)
    PROVE  Inv'
<1>1. /\ pc[t] = "idle" /\ t \in holders[s] /\ holders' = [holders EXCEPT ![s] = @ \ {t}]
      /\ UNCHANGED << m_cRef, owned >>
  BY DEF ReleaseSample
<1>2. s \in Outstanding
  BY <1>1, HeldIsOut DEF Inv
<1>3. CASE holders[s] = {t}
  <2>1. ReleaseBuffer(s)
    BY <1>3 DEF ReleaseSample
  <2>2. pc' = [pc EXCEPT ![t] = IF ReleaseCompletes(s) THEN "selfrelease" ELSE "idle"]
    BY <1>1, <1>3 DEF ReleaseSample, Goto, Inv, Places
  <2>3. AllocInv' /\ Places'
    BY <1>1, <1>2, <2>1, <2>2, ReleaseBufferKeeps DEF Inv, Places, Label
  <2>4. Samples'
    <3>1. m_lFree' = m_lFree \cup {s} /\ Allocated' = Allocated /\ s \in Allocated
      BY <1>2, <2>1 DEF ReleaseBuffer, Allocated, Outstanding
    <3>2. holders'[s] = {} /\ \A x \in Sample \ {s} : holders'[x] = holders[x]
      BY <1>1, <1>3 DEF Inv, Places
    <3> QED
      BY <3>1, <3>2 DEF Inv, Samples, SampleConservation, NoDanglingSample
  <2>5. RefAccounting' /\ Inside("wait")' = Inside("wait")
    BY <1>1, <2>1, <2>2, ReleaseCounts, ReferenceMoves DEF Inv, ReleaseCompletes
  <2>6. WakeupAccounting'
    BY <2>1, <2>5, ReleaseCounts, Accounts, AccountsNext DEF Inv
  <2>7. OwnedInside'
    BY <1>1, <2>2 DEF Inv, OwnedInside, NobodyInGetBuffer, Places
  <2> QED
    BY <2>3, <2>4, <2>5, <2>6, <2>7 DEF Inv
<1>4. CASE holders[s] # {t}
  <2>1. UNCHANGED allocVars /\ UNCHANGED pc
    BY <1>4 DEF ReleaseSample
  <2>2. AllocInv' /\ Places' /\ OwnedInside'
    BY <1>1, <2>1, AllocInvStutter DEF Inv, Places, OwnedInside, NobodyInGetBuffer
  <2>3. \A x \in Sample : holders'[x] = {} <=> holders[x] = {}
    BY <1>1, <1>4 DEF Inv, Places
  <2>4. Samples'
    BY <2>1, <2>3 DEF Inv, Samples, SampleConservation, NoDanglingSample, Allocated, allocVars
  <2>5. WakeupAccounting' /\ RefAccounting'
    BY <1>1, <2>1, Stays, Accounts, AccountsNext DEF Inv, SelfReference, allocVars
  <2> QED
    BY <2>2, <2>4, <2>5 DEF Inv
<1> QED
  BY <1>3, <1>4

\* A thread gives up the reference that the place it is in stands for.
LEMMA GivesUp ==
    ASSUME Inv, NEW t \in Threads, NEW l \in {"selfrelease", "dropref"}, pc[t] = l,
           pc' = [pc EXCEPT ![t] = "idle"], m_cRef' = m_cRef - 1,
           UNCHANGED allocVars, UNCHANGED << holders, owned >>
    PROVE  Inv'
<1>1. AllocInv' /\ Places' /\ Samples' /\ OwnedInside'
  BY AllocInvStutter, SamplesStay DEF Inv, Places, Label, allocVars, OwnedInside,
     NobodyInGetBuffer
<1>2. WakeupAccounting'
  <2>1. Inside("wait")' = Inside("wait")
    BY Elsewhere DEF Inv, Places
  <2> QED
    BY <2>1, Accounts, AccountsNext DEF Inv, allocVars
<1>3. RefAccounting'
  <2>1. Inside("dropref") \in Nat /\ Inside("selfrelease") \in Nat /\ SelfReference \in {0, 1}
    BY InsideIsNat, SelfReferenceValue
  <2>2. m_cRef = (IF owned THEN 1 ELSE 0) + Inside("dropref") + SelfReference
                    + Inside("selfrelease")
    BY Accounts DEF Inv
  <2>3. SelfReference' = SelfReference
    BY DEF SelfReference, allocVars
  <2>4. CASE l = "selfrelease"
    <3>1. Inside("selfrelease")' = Inside("selfrelease") - 1
      BY <2>4, Moves DEF Inv, Places
    <3>2. Inside("dropref")' = Inside("dropref")
      BY <2>4, Elsewhere DEF Inv, Places
    <3> QED
      BY <2>1, <2>2, <2>3, <3>1, <3>2, AccountsNext
  <2>5. CASE l = "dropref"
    <3>1. Inside("dropref")' = Inside("dropref") - 1
      BY <2>5, Moves DEF Inv, Places
    <3>2. Inside("selfrelease")' = Inside("selfrelease")
      BY <2>5, Elsewhere DEF Inv, Places
    <3> QED
      BY <2>1, <2>2, <2>3, <3>1, <3>2, AccountsNext
  <2> QED
    BY <2>4, <2>5
<1> QED
  BY <1>1, <1>2, <1>3 DEF Inv

\* Disconnecting turns the connection's reference into one a thread is to drop.
LEMMA BreakConnectStep ==
    ASSUME Inv, NEW t \in Threads, BreakConnect(t)
    PROVE  Inv'
<1>1. /\ pc[t] = "idle" /\ owned /\ NobodyInGetBuffer /\ Decommit /\ owned' = FALSE
      /\ pc' = [pc EXCEPT ![t] = "dropref"] /\ UNCHANGED holders
      /\ m_cRef' = m_cRef - (IF DecommitCompletes THEN 1 ELSE 0)
  BY DEF BreakConnect, Goto
<1>2. UNCHANGED << m_lAllocated, m_lFree >>
  BY <1>1 DEF Decommit, allocVars
<1>3. AllocInv' /\ Places' /\ Samples'
  BY <1>1, <1>2, DecommitKeeps, SamplesStay DEF Inv, Places, Label
<1>4. OwnedInside'
  BY <1>1 DEF Inv, OwnedInside, NobodyInGetBuffer, Places
<1>5. Inside("wait")' = Inside("wait") /\ Inside("selfrelease")' = Inside("selfrelease")
  BY <1>1, Elsewhere DEF Inv, Places
<1>6. WakeupAccounting'
  BY <1>1, <1>5, DecommitCounts, Accounts, AccountsNext DEF Inv
<1>7. RefAccounting'
  <2>1. Inside("dropref")' = Inside("dropref") + 1
    BY <1>1, Moves DEF Inv, Places
  <2>2. Inside("dropref") \in Nat /\ Inside("selfrelease") \in Nat /\ SelfReference \in {0, 1}
    BY InsideIsNat, SelfReferenceValue
  <2>3. m_cRef = 1 + Inside("dropref") + SelfReference + Inside("selfrelease")
    BY <1>1, Accounts DEF Inv
  <2>4. m_cRef' = 0 + Inside("dropref")' + SelfReference' + Inside("selfrelease")'
    BY <1>1, <1>5, <2>1, <2>2, <2>3, DecommitCounts DEF Inv
  <2> QED
    BY <1>1, <2>4, AccountsNext
<1> QED
  BY <1>3, <1>4, <1>6, <1>7 DEF Inv

\* A new connection starts with fresh accounts.
LEMMA ReconnectStep == Inv /\ Reconnect => Inv'
<1> SUFFICES ASSUME Inv, Reconnect PROVE Inv'
  OBVIOUS
<1>1. \A s \in Sample : holders[s] = {}
  BY InvGivesLive DEF LiveWhileUsed, Reconnect
<1>2. AllocInv'
  <2>1. AllocFlags'
    BY DEF Reconnect, AllocFlags
  <2>2. AllocNumbers'
    BY MaxCountAssumption DEF Reconnect, AllocNumbers
  <2>3. Allocated' = {}
    BY DEF Reconnect, Allocated
  <2> QED
    BY <2>1, <2>2, <2>3
       DEF Reconnect, AllocInv, Outstanding, WaitersHaveReason, PendingHasReason,
           OutstandingIsCovered, AsAsked
<1>3. Places' /\ OwnedInside'
  BY DEF Reconnect, Inv, Places, OwnedInside
<1>4. Samples'
  BY <1>1 DEF Reconnect, Samples, SampleConservation, NoDanglingSample, Allocated
<1>5. \A l \in Label \ {"idle"} : Inside(l)' = 0
  <2>1. \A l \in Label \ {"idle"} : At(l)' = {}
    BY DEF Reconnect, At
  <2> QED
    BY <2>1, FS_EmptySet DEF Inside
<1>6. WakeupAccounting'
  BY <1>5, AccountsNext DEF Reconnect, Label
<1>7. RefAccounting'
  BY <1>5, AccountsNext DEF Reconnect, Label, SelfReference
<1> QED
  BY <1>2, <1>3, <1>4, <1>6, <1>7 DEF Inv

\* Every step keeps the accounts.
LEMMA InvStep == Inv /\ [Next]_vars => Inv'
<1> SUFFICES ASSUME Inv, [Next]_vars PROVE Inv'
  OBVIOUS
<1>1. CASE \E t \in Threads : CallSetProperties(t)
  BY <1>1, SetPropertiesStep
<1>2. CASE \E t \in Threads : CallCommit(t)
  BY <1>2, CommitStep
<1>3. CASE \E t \in Threads : EnterGetBuffer(t)
  BY <1>3, EnterStep
<1>4. CASE \E t \in Threads : CallDecommit(t)
  BY <1>4, DecommitStep
<1>5. CASE \E t \in Threads : BreakConnect(t)
  BY <1>5, BreakConnectStep
<1>6. CASE \E t \in Threads : GetBuffer(t)
  BY <1>6, GetBufferStep
<1>7. CASE \E t \in Threads : Wake(t)
  BY <1>7, WakeStep
<1>8. CASE \E t \in Threads : SelfRelease(t)
  BY <1>8, GivesUp DEF SelfRelease, Goto
<1>9. CASE \E t \in Threads : DropRef(t)
  BY <1>9, GivesUp DEF DropRef, Goto
<1>10. CASE \E t \in Threads, s \in Sample : ReleaseSample(t, s)
  BY <1>10, ReleaseStep
<1>11. CASE \E t \in Threads, s \in Sample, u \in Threads : AddRefSample(t, u, s)
  BY <1>11, AddRefStep
<1>12. CASE Reconnect
  BY <1>12, ReconnectStep
<1>13. CASE UNCHANGED vars
  <2>1. UNCHANGED allocVars /\ UNCHANGED << pc, holders, m_cRef, owned >>
    BY <1>13 DEF vars, threadVars
  <2>2. AllocInv' /\ Places' /\ Samples' /\ OwnedInside'
    BY <2>1, AllocInvStutter, SamplesStay
       DEF Inv, Places, allocVars, OwnedInside, NobodyInGetBuffer
  <2>3. WakeupAccounting' /\ RefAccounting'
    BY <2>1, Stays, Accounts, AccountsNext DEF Inv, SelfReference, allocVars
  <2> QED
    BY <2>2, <2>3 DEF Inv
<1> QED
  BY <1>1, <1>2, <1>3, <1>4, <1>5, <1>6, <1>7, <1>8, <1>9, <1>10, <1>11, <1>12, <1>13
     DEF Next, ThreadStep

-----------------------------------------------------------------------------
\* The inductive invariant of the allocator and its threads: who is where in
\* GetBuffer, Release and Disconnect balances the counters of the code.
THEOREM InvHolds == Spec => []Inv
<1>1. QED
  BY InvInit, InvStep, PTL DEF Spec

\* Every variable keeps its type; in particular no reference or semaphore count
\* becomes negative, and the free list names allocated samples only.
THEOREM TypeCorrect == Spec => []TypeOK
<1>1. QED
  BY InvHolds, InvGivesType, PTL

\* No buffer is lost, doubled or deleted under its holder: a sample is free or
\* referenced, re-allocation leaves no reference behind, and memory is there for
\* every buffer that is out.
THEOREM SamplesConserved == Spec => []NoSampleLost
<1>1. Inv => NoSampleLost
  BY AllocInvImplies DEF Inv, Samples, AllocInv, NoSampleLost
<1> QED
  BY InvHolds, <1>1, PTL

\* No wake-up is lost or invented, threads wait only when they must, and a
\* Decommit stays pending as long as buffers are out and no longer.
THEOREM WakeupsCounted == Spec => []NoWakeupLost
<1>1. Inv => NoWakeupLost
  BY AllocInvImplies DEF Inv, AllocInv, NoWakeupLost
<1> QED
  BY InvHolds, <1>1, PTL

\* Every reference on the allocator has an owner, and it is not destroyed while
\* a buffer is out or a thread is inside it.
THEOREM ReferencesCounted == Spec => []AllocatorLives
<1>1. Inv => AllocatorLives
  BY InvGivesLive DEF Inv, AllocatorLives
<1> QED
  BY InvHolds, <1>1, PTL

-----------------------------------------------------------------------------
(* A filter in the middle of a graph, which copies what it decodes (Transform). *)

CopyingFlags ==
    /\ video \in BOOLEAN /\ timed \in BOOLEAN /\ inConnected \in BOOLEAN /\ outConnected \in BOOLEAN
    /\ m_bFlushing \in BOOLEAN /\ m_bRunTimeError \in BOOLEAN /\ m_bEOSDelivered \in BOOLEAN
    /\ m_bSampleSkipped \in BOOLEAN /\ m_bSkipping \in BOOLEAN
    /\ stale \in BOOLEAN /\ intact \in BOOLEAN /\ gaveUp \in BOOLEAN /\ lost \in BOOLEAN

CopyingPlaces ==
    /\ m_State \in {"Stopped", "Paused", "Running"}
    /\ app \in {"idle", "pause", "pausesync", "stop", "stopsync", "stopsource"}
    /\ flusher \in {"idle", "flushing", "endflush", "unflush"}
    /\ streamer \in {"idle", "getbuffer", "transform", "deliver"}
    /\ source \in {"off", "first", "on", "ended"}

CopyingRecords ==
    /\ sample \in [key : BOOLEAN, discontinuity : BOOLEAN, newType : BOOLEAN]
    /\ dn \in [running : BOOLEAN, flushing : BOOLEAN, committed : BOOLEAN, held : BOOLEAN,
               ended : BOOLEAN]

\* Who holds which lock.
LocksInv ==
    /\ m_csFilter = IF app \in {"pausesync", "stopsync"} THEN "app"
                    ELSE IF flusher \in {"endflush", "unflush"} THEN "flusher" ELSE "none"
    /\ app \in {"pausesync", "stopsync"} => flusher \in {"idle", "flushing"}
    /\ m_csReceive = IF streamer = "idle" THEN "none" ELSE "streamer"

\* What is connected as long as somebody streams or flushes, and what Stop leaves.
StateInv ==
    /\ source # "off" => inConnected
    /\ flusher # "idle" \/ app \in {"pausesync", "stopsync"} \/ streamer # "idle"
         => inConnected /\ outConnected
    /\ streamer # "idle" => m_State # "Stopped"
    /\ app \in {"pausesync", "stopsource"} => m_State = "Stopped"
    /\ app \in {"pause", "pausesync"} => flusher = "idle"
    /\ m_State = "Stopped" /\ app \in {"idle", "pause", "pausesync"} => source = "off"
    /\ m_State = "Stopped" => ~m_bEOSDelivered
    /\ m_bEOSDelivered /\ outConnected /\ app \in {"idle", "pause"} => dn.ended \/ inConnected

\* No frame is counted, and none skipped.
Afresh == m_nKeyFramePeriod = 0 /\ m_nFramesSinceKeyFrame = 0 /\ ~m_bSkipping

\* What a flush waits for.
FlushInv ==
    /\ flusher # "idle" => m_bFlushing \/ m_State = "Stopped" \/ app = "stopsync"
    /\ stale /\ flusher \in {"unflush", "idle"} => streamer = "idle"
    /\ stale /\ ~video /\ flusher = "endflush" => streamer = "idle"
    /\ video /\ flusher = "unflush" => streamer = "idle" /\ Afresh

\* The frames since a key frame are counted as they are, or from where the streaming was
\* started again.
CountsInv ==
    /\ gap \in Nat /\ gap <= MaxGap
    /\ m_nKeyFramePeriod \in Nat /\ m_nKeyFramePeriod <= MaxGap + 1
    /\ m_nFramesSinceKeyFrame \in Nat /\ m_nFramesSinceKeyFrame <= MaxGap + 1
    /\ source \in {"first", "on"} /\ outConnected => m_nFramesSinceKeyFrame <= gap + 1
    /\ source = "first" /\ outConnected => Afresh
    /\ ~video \/ ~timed => Afresh
    /\ m_itrLate \in Nat

\* The wait for a key frame lasts until there was one, and all frames since then have come,
\* or no more is waited for it.
Follows(b) == m_nWaitForKey # -1 /\ (m_nWaitForKey = 0 => intact \/ gaveUp \/ b)

KeysInv ==
    /\ m_nWaitForKey \in Int /\ m_nWaitForKey >= -1 /\ m_nWaitForKey <= GiveUpAfter
    /\ video =>
         /\ streamer # "idle" => source = "on"
         /\ streamer = "idle" /\ source = "on" /\ flusher # "unflush" => Follows(m_bSkipping)
         /\ streamer = "getbuffer" => sample.discontinuity \/ Follows(sample.key)
         /\ streamer = "transform" => Follows(FALSE) /\ (sample.key => intact)
         /\ streamer = "deliver" => m_nWaitForKey = 0 /\ (intact \/ gaveUp)
    /\ lost => m_bSampleSkipped \/ (video /\ Copying!ForgottenAt)
    /\ streamer \in {"transform", "deliver"} => ~lost

CopyingInv ==
    /\ CopyingFlags /\ CopyingPlaces /\ CopyingRecords
    /\ LocksInv /\ StateInv /\ FlushInv /\ CountsInv /\ KeysInv

LEMMA CopyingConstants ==
    /\ MaxGap \in Nat /\ GiveUpAfter \in Nat /\ GiveUpAfter > 0
    /\ LateCap \in Nat /\ Lateness \subseteq Nat
BY TransformsAssumption DEF Copying!TransformAssumption

LEMMA ConnectInputKeeps == CopyingInv /\ Copying!ConnectInput => CopyingInv'
<1> SUFFICES ASSUME CopyingInv, Copying!ConnectInput PROVE CopyingInv'
  OBVIOUS
<1> USE CopyingConstants DEF CopyingInv, Copying!ConnectInput, Copying!connVars, Copying!stateVars,
   Copying!lockVars, Copying!qualVars, Copying!threadVars, Copying!histVars, Copying!Quiet
<1>1. CopyingFlags'
  BY Zenon DEF CopyingFlags
<1>2. CopyingPlaces'
  BY DEF CopyingPlaces
<1>3. CopyingRecords'
  BY DEF CopyingRecords, CopyingPlaces, CopyingFlags
<1>4. LocksInv'
  BY DEF LocksInv, CopyingPlaces, CopyingFlags, StateInv
<1>5. StateInv'
  BY DEF StateInv, LocksInv, CopyingPlaces, CopyingFlags, CopyingRecords
<1>6. FlushInv'
  BY DEF FlushInv, LocksInv, StateInv, CopyingPlaces, CopyingFlags, Afresh
<1>7. CountsInv'
  BY DEF CountsInv, StateInv, FlushInv, LocksInv, CopyingPlaces, CopyingFlags, Afresh
<1>8. KeysInv'
  BY DEF KeysInv, Follows, Copying!ForgottenAt, LocksInv, StateInv, FlushInv, CopyingPlaces,
     CopyingFlags, CopyingRecords, Afresh
<1> QED BY <1>1, <1>2, <1>3, <1>4, <1>5, <1>6, <1>7, <1>8

LEMMA ConnectOutputKeeps == CopyingInv /\ Copying!ConnectOutput => CopyingInv'
<1> SUFFICES ASSUME CopyingInv, Copying!ConnectOutput PROVE CopyingInv'
  OBVIOUS
<1> USE CopyingConstants DEF CopyingInv, Copying!ConnectOutput, Copying!connVars,
   Copying!stateVars, Copying!lockVars, Copying!qualVars, Copying!threadVars, Copying!histVars,
   Copying!Quiet
<1>1. CopyingFlags'
  BY Zenon DEF CopyingFlags
<1>2. CopyingPlaces'
  BY DEF CopyingPlaces
<1>3. CopyingRecords'
  BY DEF CopyingRecords, CopyingPlaces, CopyingFlags
<1>4. LocksInv'
  BY DEF LocksInv, CopyingPlaces, CopyingFlags, StateInv
<1>5. StateInv'
  BY DEF StateInv, LocksInv, CopyingPlaces, CopyingFlags, CopyingRecords
<1>6. FlushInv'
  BY DEF FlushInv, LocksInv, StateInv, CopyingPlaces, CopyingFlags, Afresh
<1>7. CountsInv'
  BY DEF CountsInv, StateInv, FlushInv, LocksInv, CopyingPlaces, CopyingFlags, Afresh
<1>8. KeysInv'
  BY DEF KeysInv, Follows, Copying!ForgottenAt, LocksInv, StateInv, FlushInv, CopyingPlaces,
     CopyingFlags, CopyingRecords, Afresh
<1> QED BY <1>1, <1>2, <1>3, <1>4, <1>5, <1>6, <1>7, <1>8

LEMMA DisconnectInputKeeps == CopyingInv /\ Copying!DisconnectInput => CopyingInv'
<1> SUFFICES ASSUME CopyingInv, Copying!DisconnectInput PROVE CopyingInv'
  OBVIOUS
<1> USE CopyingConstants DEF CopyingInv, Copying!DisconnectInput, Copying!connVars,
   Copying!stateVars, Copying!lockVars, Copying!qualVars, Copying!threadVars, Copying!histVars,
   Copying!Quiet
<1>1. CopyingFlags'
  BY Zenon DEF CopyingFlags
<1>2. CopyingPlaces'
  BY DEF CopyingPlaces
<1>3. CopyingRecords'
  BY DEF CopyingRecords, CopyingPlaces, CopyingFlags
<1>4. LocksInv'
  BY DEF LocksInv, CopyingPlaces, CopyingFlags, StateInv
<1>5. StateInv'
  BY DEF StateInv, LocksInv, CopyingPlaces, CopyingFlags, CopyingRecords
<1>6. FlushInv'
  BY DEF FlushInv, LocksInv, StateInv, CopyingPlaces, CopyingFlags, Afresh
<1>7. CountsInv'
  BY DEF CountsInv, StateInv, FlushInv, LocksInv, CopyingPlaces, CopyingFlags, Afresh
<1>8. KeysInv'
  BY DEF KeysInv, Follows, Copying!ForgottenAt, LocksInv, StateInv, FlushInv, CopyingPlaces,
     CopyingFlags, CopyingRecords, Afresh
<1> QED BY <1>1, <1>2, <1>3, <1>4, <1>5, <1>6, <1>7, <1>8

LEMMA BeginPauseKeeps == CopyingInv /\ Copying!BeginPause => CopyingInv'
<1> SUFFICES ASSUME CopyingInv, Copying!BeginPause PROVE CopyingInv'
  OBVIOUS
<1> USE CopyingConstants DEF CopyingInv, Copying!BeginPause, Copying!connVars, Copying!stateVars,
   Copying!lockVars, Copying!qualVars, Copying!threadVars, Copying!histVars, Copying!Idle
<1>1. CopyingFlags'
  BY Zenon DEF CopyingFlags
<1>2. CopyingPlaces'
  BY DEF CopyingPlaces
<1>3. CopyingRecords'
  BY DEF CopyingRecords, CopyingPlaces, CopyingFlags
<1>4. LocksInv'
  BY DEF LocksInv, CopyingPlaces, CopyingFlags, StateInv
<1>5. StateInv'
  BY DEF StateInv, LocksInv, CopyingPlaces, CopyingFlags, CopyingRecords
<1>6. FlushInv'
  BY DEF FlushInv, LocksInv, StateInv, CopyingPlaces, CopyingFlags, Afresh
<1>7. CountsInv'
  BY DEF CountsInv, StateInv, FlushInv, LocksInv, CopyingPlaces, CopyingFlags, Afresh
<1>8. KeysInv'
  BY DEF KeysInv, Follows, Copying!ForgottenAt, LocksInv, StateInv, FlushInv, CopyingPlaces,
     CopyingFlags, CopyingRecords, Afresh
<1> QED BY <1>1, <1>2, <1>3, <1>4, <1>5, <1>6, <1>7, <1>8

LEMMA PauseUnfedKeeps == CopyingInv /\ Copying!PauseUnfed => CopyingInv'
<1> SUFFICES ASSUME CopyingInv, Copying!PauseUnfed PROVE CopyingInv'
  OBVIOUS
<1> USE CopyingConstants DEF CopyingInv, Copying!PauseUnfed, Copying!connVars, Copying!stateVars,
   Copying!lockVars, Copying!qualVars, Copying!threadVars, Copying!histVars, Copying!FilterFree,
   Copying!DeliverEndOfStream
<1>1. CopyingFlags'
  BY Zenon DEF CopyingFlags
<1>2. CopyingPlaces'
  BY DEF CopyingPlaces
<1>3. CopyingRecords'
  BY DEF CopyingRecords, CopyingPlaces, CopyingFlags
<1>4. LocksInv'
  BY DEF LocksInv, CopyingPlaces, CopyingFlags, StateInv
<1>5. StateInv'
  BY DEF StateInv, LocksInv, CopyingPlaces, CopyingFlags, CopyingRecords
<1>6. FlushInv'
  BY DEF FlushInv, LocksInv, StateInv, CopyingPlaces, CopyingFlags, Afresh
<1>7. CountsInv'
  BY DEF CountsInv, StateInv, FlushInv, LocksInv, CopyingPlaces, CopyingFlags, Afresh
<1>8. KeysInv'
  BY DEF KeysInv, Follows, Copying!ForgottenAt, LocksInv, StateInv, FlushInv, CopyingPlaces,
     CopyingFlags, CopyingRecords, Afresh
<1> QED BY <1>1, <1>2, <1>3, <1>4, <1>5, <1>6, <1>7, <1>8

LEMMA PauseOnlyKeeps == CopyingInv /\ Copying!PauseOnly => CopyingInv'
<1> SUFFICES ASSUME CopyingInv, Copying!PauseOnly PROVE CopyingInv'
  OBVIOUS
<1> USE CopyingConstants DEF CopyingInv, Copying!PauseOnly, Copying!connVars, Copying!stateVars,
   Copying!lockVars, Copying!qualVars, Copying!threadVars, Copying!histVars, Copying!FilterFree
<1>1. CopyingFlags'
  BY Zenon DEF CopyingFlags
<1>2. CopyingPlaces'
  BY DEF CopyingPlaces
<1>3. CopyingRecords'
  BY DEF CopyingRecords, CopyingPlaces, CopyingFlags
<1>4. LocksInv'
  BY DEF LocksInv, CopyingPlaces, CopyingFlags, StateInv
<1>5. StateInv'
  BY DEF StateInv, LocksInv, CopyingPlaces, CopyingFlags, CopyingRecords
<1>6. FlushInv'
  BY DEF FlushInv, LocksInv, StateInv, CopyingPlaces, CopyingFlags, Afresh
<1>7. CountsInv'
  BY DEF CountsInv, StateInv, FlushInv, LocksInv, CopyingPlaces, CopyingFlags, Afresh
<1>8. KeysInv'
  BY DEF KeysInv, Follows, Copying!ForgottenAt, LocksInv, StateInv, FlushInv, CopyingPlaces,
     CopyingFlags, CopyingRecords, Afresh
<1> QED BY <1>1, <1>2, <1>3, <1>4, <1>5, <1>6, <1>7, <1>8

LEMMA PauseEnterKeeps == CopyingInv /\ Copying!PauseEnter => CopyingInv'
<1> SUFFICES ASSUME CopyingInv, Copying!PauseEnter PROVE CopyingInv'
  OBVIOUS
<1> USE CopyingConstants DEF CopyingInv, Copying!PauseEnter, Copying!connVars, Copying!stateVars,
   Copying!lockVars, Copying!qualVars, Copying!threadVars, Copying!histVars, Copying!FilterFree,
   Copying!Both
<1>1. CopyingFlags'
  BY Zenon DEF CopyingFlags
<1>2. CopyingPlaces'
  BY DEF CopyingPlaces
<1>3. CopyingRecords'
  BY DEF CopyingRecords, CopyingPlaces, CopyingFlags
<1>4. LocksInv'
  BY DEF LocksInv, CopyingPlaces, CopyingFlags, StateInv
<1>5. StateInv'
  BY DEF StateInv, LocksInv, CopyingPlaces, CopyingFlags, CopyingRecords
<1>6. FlushInv'
  BY DEF FlushInv, LocksInv, StateInv, CopyingPlaces, CopyingFlags, Afresh
<1>7. CountsInv'
  BY DEF CountsInv, StateInv, FlushInv, LocksInv, CopyingPlaces, CopyingFlags, Afresh
<1>8. KeysInv'
  BY DEF KeysInv, Follows, Copying!ForgottenAt, LocksInv, StateInv, FlushInv, CopyingPlaces,
     CopyingFlags, CopyingRecords, Afresh
<1> QED BY <1>1, <1>2, <1>3, <1>4, <1>5, <1>6, <1>7, <1>8

LEMMA PauseSyncKeeps == CopyingInv /\ Copying!PauseSync => CopyingInv'
<1> SUFFICES ASSUME CopyingInv, Copying!PauseSync PROVE CopyingInv'
  OBVIOUS
<1> USE CopyingConstants DEF CopyingInv, Copying!PauseSync, Copying!connVars, Copying!stateVars,
   Copying!lockVars, Copying!qualVars, Copying!threadVars, Copying!histVars, Copying!ReceiveFree,
   Copying!StartStreaming
<1>1. CopyingFlags'
  BY Zenon DEF CopyingFlags
<1>2. CopyingPlaces'
  BY DEF CopyingPlaces
<1>3. CopyingRecords'
  BY DEF CopyingRecords, CopyingPlaces, CopyingFlags
<1>4. LocksInv'
  BY DEF LocksInv, CopyingPlaces, CopyingFlags, StateInv
<1>5. StateInv'
  BY DEF StateInv, LocksInv, CopyingPlaces, CopyingFlags, CopyingRecords
<1>6. FlushInv'
  BY DEF FlushInv, LocksInv, StateInv, CopyingPlaces, CopyingFlags, Afresh
<1>7. CountsInv'
  BY DEF CountsInv, StateInv, FlushInv, LocksInv, CopyingPlaces, CopyingFlags, Afresh
<1>8. KeysInv'
  BY DEF KeysInv, Follows, Copying!ForgottenAt, LocksInv, StateInv, FlushInv, CopyingPlaces,
     CopyingFlags, CopyingRecords, Afresh
<1> QED BY <1>1, <1>2, <1>3, <1>4, <1>5, <1>6, <1>7, <1>8

LEMMA RunKeeps == CopyingInv /\ Copying!Run => CopyingInv'
<1> SUFFICES ASSUME CopyingInv, Copying!Run PROVE CopyingInv'
  OBVIOUS
<1> USE CopyingConstants DEF CopyingInv, Copying!Run, Copying!connVars, Copying!stateVars,
   Copying!lockVars, Copying!qualVars, Copying!threadVars, Copying!histVars, Copying!FilterFree
<1>1. CopyingFlags'
  BY Zenon DEF CopyingFlags
<1>2. CopyingPlaces'
  BY DEF CopyingPlaces
<1>3. CopyingRecords'
  BY DEF CopyingRecords, CopyingPlaces, CopyingFlags
<1>4. LocksInv'
  BY DEF LocksInv, CopyingPlaces, CopyingFlags, StateInv
<1>5. StateInv'
  BY DEF StateInv, LocksInv, CopyingPlaces, CopyingFlags, CopyingRecords
<1>6. FlushInv'
  BY DEF FlushInv, LocksInv, StateInv, CopyingPlaces, CopyingFlags, Afresh
<1>7. CountsInv'
  BY DEF CountsInv, StateInv, FlushInv, LocksInv, CopyingPlaces, CopyingFlags, Afresh
<1>8. KeysInv'
  BY DEF KeysInv, Follows, Copying!ForgottenAt, LocksInv, StateInv, FlushInv, CopyingPlaces,
     CopyingFlags, CopyingRecords, Afresh
<1> QED BY <1>1, <1>2, <1>3, <1>4, <1>5, <1>6, <1>7, <1>8

LEMMA BeginStopKeeps == CopyingInv /\ Copying!BeginStop => CopyingInv'
<1> SUFFICES ASSUME CopyingInv, Copying!BeginStop PROVE CopyingInv'
  OBVIOUS
<1> USE CopyingConstants DEF CopyingInv, Copying!BeginStop, Copying!connVars, Copying!stateVars,
   Copying!lockVars, Copying!qualVars, Copying!threadVars, Copying!histVars, Copying!Idle
<1>1. CopyingFlags'
  BY Zenon DEF CopyingFlags
<1>2. CopyingPlaces'
  BY DEF CopyingPlaces
<1>3. CopyingRecords'
  BY DEF CopyingRecords, CopyingPlaces, CopyingFlags
<1>4. LocksInv'
  BY DEF LocksInv, CopyingPlaces, CopyingFlags, StateInv
<1>5. StateInv'
  BY DEF StateInv, LocksInv, CopyingPlaces, CopyingFlags, CopyingRecords
<1>6. FlushInv'
  BY DEF FlushInv, LocksInv, StateInv, CopyingPlaces, CopyingFlags, Afresh
<1>7. CountsInv'
  BY DEF CountsInv, StateInv, FlushInv, LocksInv, CopyingPlaces, CopyingFlags, Afresh
<1>8. KeysInv'
  BY DEF KeysInv, Follows, Copying!ForgottenAt, LocksInv, StateInv, FlushInv, CopyingPlaces,
     CopyingFlags, CopyingRecords, Afresh
<1> QED BY <1>1, <1>2, <1>3, <1>4, <1>5, <1>6, <1>7, <1>8

LEMMA StopUnconnectedKeeps == CopyingInv /\ Copying!StopUnconnected => CopyingInv'
<1> SUFFICES ASSUME CopyingInv, Copying!StopUnconnected PROVE CopyingInv'
  OBVIOUS
<1> USE CopyingConstants DEF CopyingInv, Copying!StopUnconnected, Copying!connVars,
   Copying!stateVars, Copying!lockVars, Copying!qualVars, Copying!threadVars, Copying!histVars,
   Copying!FilterFree, Copying!Both
<1>1. CopyingFlags'
  BY Zenon DEF CopyingFlags
<1>2. CopyingPlaces'
  BY DEF CopyingPlaces
<1>3. CopyingRecords'
  BY DEF CopyingRecords, CopyingPlaces, CopyingFlags
<1>4. LocksInv'
  BY DEF LocksInv, CopyingPlaces, CopyingFlags, StateInv
<1>5. StateInv'
  BY DEF StateInv, LocksInv, CopyingPlaces, CopyingFlags, CopyingRecords
<1>6. FlushInv'
  BY DEF FlushInv, LocksInv, StateInv, CopyingPlaces, CopyingFlags, Afresh
<1>7. CountsInv'
  BY DEF CountsInv, StateInv, FlushInv, LocksInv, CopyingPlaces, CopyingFlags, Afresh
<1>8. KeysInv'
  BY DEF KeysInv, Follows, Copying!ForgottenAt, LocksInv, StateInv, FlushInv, CopyingPlaces,
     CopyingFlags, CopyingRecords, Afresh
<1> QED BY <1>1, <1>2, <1>3, <1>4, <1>5, <1>6, <1>7, <1>8

LEMMA StopEnterKeeps == CopyingInv /\ Copying!StopEnter => CopyingInv'
<1> SUFFICES ASSUME CopyingInv, Copying!StopEnter PROVE CopyingInv'
  OBVIOUS
<1> USE CopyingConstants DEF CopyingInv, Copying!StopEnter, Copying!connVars, Copying!stateVars,
   Copying!lockVars, Copying!qualVars, Copying!threadVars, Copying!histVars, Copying!FilterFree,
   Copying!Both
<1>1. CopyingFlags'
  BY Zenon DEF CopyingFlags
<1>2. CopyingPlaces'
  BY DEF CopyingPlaces
<1>3. CopyingRecords'
  BY DEF CopyingRecords, CopyingPlaces, CopyingFlags
<1>4. LocksInv'
  BY DEF LocksInv, CopyingPlaces, CopyingFlags, StateInv
<1>5. StateInv'
  BY DEF StateInv, LocksInv, CopyingPlaces, CopyingFlags, CopyingRecords
<1>6. FlushInv'
  BY DEF FlushInv, LocksInv, StateInv, CopyingPlaces, CopyingFlags, Afresh
<1>7. CountsInv'
  BY DEF CountsInv, StateInv, FlushInv, LocksInv, CopyingPlaces, CopyingFlags, Afresh
<1>8. KeysInv'
  BY DEF KeysInv, Follows, Copying!ForgottenAt, LocksInv, StateInv, FlushInv, CopyingPlaces,
     CopyingFlags, CopyingRecords, Afresh
<1> QED BY <1>1, <1>2, <1>3, <1>4, <1>5, <1>6, <1>7, <1>8

LEMMA StopSyncKeeps == CopyingInv /\ Copying!StopSync => CopyingInv'
<1> SUFFICES ASSUME CopyingInv, Copying!StopSync PROVE CopyingInv'
  OBVIOUS
<1> USE CopyingConstants DEF CopyingInv, Copying!StopSync, Copying!connVars, Copying!stateVars,
   Copying!lockVars, Copying!qualVars, Copying!threadVars, Copying!histVars, Copying!ReceiveFree
<1>1. CopyingFlags'
  BY Zenon DEF CopyingFlags
<1>2. CopyingPlaces'
  BY DEF CopyingPlaces
<1>3. CopyingRecords'
  BY DEF CopyingRecords, CopyingPlaces, CopyingFlags
<1>4. LocksInv'
  BY DEF LocksInv, CopyingPlaces, CopyingFlags, StateInv
<1>5. StateInv'
  BY DEF StateInv, LocksInv, CopyingPlaces, CopyingFlags, CopyingRecords
<1>6. FlushInv'
  BY DEF FlushInv, LocksInv, StateInv, CopyingPlaces, CopyingFlags, Afresh
<1>7. CountsInv'
  BY DEF CountsInv, StateInv, FlushInv, LocksInv, CopyingPlaces, CopyingFlags, Afresh
<1>8. KeysInv'
  BY DEF KeysInv, Follows, Copying!ForgottenAt, LocksInv, StateInv, FlushInv, CopyingPlaces,
     CopyingFlags, CopyingRecords, Afresh
<1> QED BY <1>1, <1>2, <1>3, <1>4, <1>5, <1>6, <1>7, <1>8

LEMMA StopSourceKeeps == CopyingInv /\ Copying!StopSource => CopyingInv'
<1> SUFFICES ASSUME CopyingInv, Copying!StopSource PROVE CopyingInv'
  OBVIOUS
<1> USE CopyingConstants DEF CopyingInv, Copying!StopSource, Copying!connVars, Copying!stateVars,
   Copying!lockVars, Copying!qualVars, Copying!threadVars, Copying!histVars
<1>1. CopyingFlags'
  BY Zenon DEF CopyingFlags
<1>2. CopyingPlaces'
  BY DEF CopyingPlaces
<1>3. CopyingRecords'
  BY DEF CopyingRecords, CopyingPlaces, CopyingFlags
<1>4. LocksInv'
  BY DEF LocksInv, CopyingPlaces, CopyingFlags, StateInv
<1>5. StateInv'
  BY DEF StateInv, LocksInv, CopyingPlaces, CopyingFlags, CopyingRecords
<1>6. FlushInv'
  BY DEF FlushInv, LocksInv, StateInv, CopyingPlaces, CopyingFlags, Afresh
<1>7. CountsInv'
  BY DEF CountsInv, StateInv, FlushInv, LocksInv, CopyingPlaces, CopyingFlags, Afresh
<1>8. KeysInv'
  BY DEF KeysInv, Follows, Copying!ForgottenAt, LocksInv, StateInv, FlushInv, CopyingPlaces,
     CopyingFlags, CopyingRecords, Afresh
<1> QED BY <1>1, <1>2, <1>3, <1>4, <1>5, <1>6, <1>7, <1>8

LEMMA BeginFlushKeeps == CopyingInv /\ Copying!BeginFlush => CopyingInv'
<1> SUFFICES ASSUME CopyingInv, Copying!BeginFlush PROVE CopyingInv'
  OBVIOUS
<1> USE CopyingConstants DEF CopyingInv, Copying!BeginFlush, Copying!connVars, Copying!stateVars,
   Copying!lockVars, Copying!qualVars, Copying!threadVars, Copying!histVars, Copying!FilterFree,
   Copying!Both
<1>1. CopyingFlags'
  BY Zenon DEF CopyingFlags
<1>2. CopyingPlaces'
  BY DEF CopyingPlaces
<1>3. CopyingRecords'
  BY DEF CopyingRecords, CopyingPlaces, CopyingFlags
<1>4. LocksInv'
  BY DEF LocksInv, CopyingPlaces, CopyingFlags, StateInv
<1>5. StateInv'
  BY DEF StateInv, LocksInv, CopyingPlaces, CopyingFlags, CopyingRecords
<1>6. FlushInv'
  BY DEF FlushInv, LocksInv, StateInv, CopyingPlaces, CopyingFlags, Afresh
<1>7. CountsInv'
  BY DEF CountsInv, StateInv, FlushInv, LocksInv, CopyingPlaces, CopyingFlags, Afresh
<1>8. KeysInv'
  BY DEF KeysInv, Follows, Copying!ForgottenAt, LocksInv, StateInv, FlushInv, CopyingPlaces,
     CopyingFlags, CopyingRecords, Afresh
<1> QED BY <1>1, <1>2, <1>3, <1>4, <1>5, <1>6, <1>7, <1>8

LEMMA EndFlushKeeps == CopyingInv /\ Copying!EndFlush => CopyingInv'
<1> SUFFICES ASSUME CopyingInv, Copying!EndFlush PROVE CopyingInv'
  OBVIOUS
<1> USE CopyingConstants DEF CopyingInv, Copying!EndFlush, Copying!connVars, Copying!stateVars,
   Copying!lockVars, Copying!qualVars, Copying!threadVars, Copying!histVars, Copying!FilterFree
<1>1. CopyingFlags'
  BY Zenon DEF CopyingFlags
<1>2. CopyingPlaces'
  BY DEF CopyingPlaces
<1>3. CopyingRecords'
  BY DEF CopyingRecords, CopyingPlaces, CopyingFlags
<1>4. LocksInv'
  BY DEF LocksInv, CopyingPlaces, CopyingFlags, StateInv
<1>5. StateInv'
  BY DEF StateInv, LocksInv, CopyingPlaces, CopyingFlags, CopyingRecords
<1>6. FlushInv'
  BY DEF FlushInv, LocksInv, StateInv, CopyingPlaces, CopyingFlags, Afresh
<1>7. CountsInv'
  BY DEF CountsInv, StateInv, FlushInv, LocksInv, CopyingPlaces, CopyingFlags, Afresh
<1>8. KeysInv'
  BY DEF KeysInv, Follows, Copying!ForgottenAt, LocksInv, StateInv, FlushInv, CopyingPlaces,
     CopyingFlags, CopyingRecords, Afresh
<1> QED BY <1>1, <1>2, <1>3, <1>4, <1>5, <1>6, <1>7, <1>8

LEMMA EndFlushSyncKeeps == CopyingInv /\ Copying!EndFlushSync => CopyingInv'
<1> SUFFICES ASSUME CopyingInv, Copying!EndFlushSync PROVE CopyingInv'
  OBVIOUS
<1> USE CopyingConstants DEF CopyingInv, Copying!EndFlushSync, Copying!connVars, Copying!stateVars,
   Copying!lockVars, Copying!qualVars, Copying!threadVars, Copying!histVars, Copying!ReceiveFree,
   Copying!StartStreaming
<1>1. CopyingFlags'
  BY Zenon DEF CopyingFlags
<1>2. CopyingPlaces'
  BY DEF CopyingPlaces
<1>3. CopyingRecords'
  BY DEF CopyingRecords, CopyingPlaces, CopyingFlags
<1>4. LocksInv'
  BY DEF LocksInv, CopyingPlaces, CopyingFlags, StateInv
<1>5. StateInv'
  BY DEF StateInv, LocksInv, CopyingPlaces, CopyingFlags, CopyingRecords
<1>6. FlushInv'
  BY DEF FlushInv, LocksInv, StateInv, CopyingPlaces, CopyingFlags, Afresh
<1>7. CountsInv'
  BY DEF CountsInv, StateInv, FlushInv, LocksInv, CopyingPlaces, CopyingFlags, Afresh
<1>8. KeysInv'
  BY DEF KeysInv, Follows, Copying!ForgottenAt, LocksInv, StateInv, FlushInv, CopyingPlaces,
     CopyingFlags, CopyingRecords, Afresh
<1> QED BY <1>1, <1>2, <1>3, <1>4, <1>5, <1>6, <1>7, <1>8

LEMMA FlushIsOverKeeps == CopyingInv /\ Copying!FlushIsOver => CopyingInv'
<1> SUFFICES ASSUME CopyingInv, Copying!FlushIsOver PROVE CopyingInv'
  OBVIOUS
<1> USE CopyingConstants DEF CopyingInv, Copying!FlushIsOver, Copying!connVars, Copying!stateVars,
   Copying!lockVars, Copying!qualVars, Copying!threadVars, Copying!histVars
<1>1. CopyingFlags'
  BY Zenon DEF CopyingFlags
<1>2. CopyingPlaces'
  BY DEF CopyingPlaces
<1>3. CopyingRecords'
  BY DEF CopyingRecords, CopyingPlaces, CopyingFlags
<1>4. LocksInv'
  BY DEF LocksInv, CopyingPlaces, CopyingFlags, StateInv
<1>5. StateInv'
  BY DEF StateInv, LocksInv, CopyingPlaces, CopyingFlags, CopyingRecords
<1>6. FlushInv'
  BY DEF FlushInv, LocksInv, StateInv, CopyingPlaces, CopyingFlags, Afresh
<1>7. CountsInv'
  BY DEF CountsInv, StateInv, FlushInv, LocksInv, CopyingPlaces, CopyingFlags, Afresh
<1>8. KeysInv'
  BY DEF KeysInv, Follows, Copying!ForgottenAt, LocksInv, StateInv, FlushInv, CopyingPlaces,
     CopyingFlags, CopyingRecords, Afresh
<1> QED BY <1>1, <1>2, <1>3, <1>4, <1>5, <1>6, <1>7, <1>8

LEMMA BufferFailsKeeps == CopyingInv /\ Copying!BufferFails => CopyingInv'
<1> SUFFICES ASSUME CopyingInv, Copying!BufferFails PROVE CopyingInv'
  OBVIOUS
<1> USE CopyingConstants DEF CopyingInv, Copying!BufferFails, Copying!connVars, Copying!stateVars,
   Copying!lockVars, Copying!qualVars, Copying!threadVars, Copying!histVars, Copying!Return
<1>1. CopyingFlags'
  BY Zenon DEF CopyingFlags
<1>2. CopyingPlaces'
  BY DEF CopyingPlaces
<1>3. CopyingRecords'
  BY DEF CopyingRecords, CopyingPlaces, CopyingFlags
<1>4. LocksInv'
  BY DEF LocksInv, CopyingPlaces, CopyingFlags, StateInv
<1>5. StateInv'
  BY DEF StateInv, LocksInv, CopyingPlaces, CopyingFlags, CopyingRecords
<1>6. FlushInv'
  BY DEF FlushInv, LocksInv, StateInv, CopyingPlaces, CopyingFlags, Afresh
<1>7. CountsInv'
  BY DEF CountsInv, StateInv, FlushInv, LocksInv, CopyingPlaces, CopyingFlags, Afresh
<1>8. KeysInv'
  BY DEF KeysInv, Follows, Copying!ForgottenAt, LocksInv, StateInv, FlushInv, CopyingPlaces,
     CopyingFlags, CopyingRecords, Afresh
<1> QED BY <1>1, <1>2, <1>3, <1>4, <1>5, <1>6, <1>7, <1>8

LEMMA GetBufferKeeps == CopyingInv /\ Copying!GetBuffer => CopyingInv'
<1> SUFFICES ASSUME CopyingInv, Copying!GetBuffer PROVE CopyingInv'
  OBVIOUS
<1> USE CopyingConstants DEF CopyingInv, Copying!GetBuffer, Copying!connVars, Copying!stateVars,
   Copying!lockVars, Copying!qualVars, Copying!threadVars, Copying!histVars, Copying!StartStreaming
<1>1. CopyingFlags'
  <2>1. m_bSampleSkipped' \in BOOLEAN
    <3>1. m_bSampleSkipped' \in {FALSE, m_bSampleSkipped}
      OBVIOUS
    <3> QED BY <3>1, Zenon DEF CopyingFlags
  <2>2. (intact' <=> sample.key) \/ (intact' <=> intact \/ sample.key)
    OBVIOUS
  <2>3. intact' \in BOOLEAN
    <3>1. PICK newOutput \in {FALSE, video} :
             IF newOutput \/ sample.discontinuity THEN intact' = sample.key ELSE intact' = (intact \/ sample.key)
      OBVIOUS
    <3>2. sample.key \in BOOLEAN /\ intact \in BOOLEAN
      BY DEF CopyingRecords, CopyingFlags
    <3> QED BY <3>1, <3>2, Zenon
  <2>4. gaveUp' \in BOOLEAN
    <3>1. PICK newOutput \in {FALSE, video} :
             IF newOutput \/ sample.discontinuity THEN gaveUp' = FALSE ELSE gaveUp' = (gaveUp /\ ~sample.key)
      OBVIOUS
    <3> QED BY <3>1, Zenon
  <2>5. m_bSkipping' \in BOOLEAN
    <3>1. m_bSkipping' = FALSE \/ m_bSkipping' = m_bSkipping
      OBVIOUS
    <3> QED BY <3>1, Zenon DEF CopyingFlags
  <2>6. lost' \in BOOLEAN
    BY Zenon
  <2> QED BY <2>1, <2>3, <2>4, <2>5, <2>6, Zenon DEF CopyingFlags
<1>2. CopyingPlaces'
  BY DEF CopyingPlaces
<1>3. CopyingRecords'
  BY DEF CopyingRecords, CopyingPlaces, CopyingFlags
<1>4. LocksInv'
  BY DEF LocksInv, CopyingPlaces, CopyingFlags, StateInv
<1>5. StateInv'
  BY DEF StateInv, LocksInv, CopyingPlaces, CopyingFlags, CopyingRecords
<1>6. FlushInv'
  BY DEF FlushInv, LocksInv, StateInv, CopyingPlaces, CopyingFlags, Afresh
<1>7. CountsInv'
  <2>1. \/ m_nKeyFramePeriod' = 0 /\ m_nFramesSinceKeyFrame' = 0 /\ m_itrLate' = 0 /\ m_bSkipping' = FALSE
        \/ /\ m_nKeyFramePeriod' = m_nKeyFramePeriod
           /\ m_nFramesSinceKeyFrame' = m_nFramesSinceKeyFrame /\ m_itrLate' = m_itrLate
    OBVIOUS
  <2>2. UNCHANGED << gap, source, outConnected, video, timed >>
    OBVIOUS
  <2>3. Afresh => Afresh'
    BY <2>1 DEF Afresh
  <2>4. CASE UNCHANGED << m_nKeyFramePeriod, m_nFramesSinceKeyFrame, m_itrLate >>
    BY <2>2, <2>3, <2>4 DEF CountsInv
  <2>5. CASE m_nKeyFramePeriod' = 0 /\ m_nFramesSinceKeyFrame' = 0 /\ m_itrLate' = 0 /\ m_bSkipping' = FALSE
    <3>1. Afresh'
      BY <2>5 DEF Afresh
    <3>2. gap \in Nat /\ gap <= MaxGap
      BY DEF CountsInv
    <3> QED BY <2>2, <2>5, <3>1, <3>2, CopyingConstants DEF CountsInv
  <2> QED BY <2>1, <2>4, <2>5
<1>8. KeysInv'
  BY DEF KeysInv, Follows, Copying!ForgottenAt, LocksInv, StateInv, FlushInv, CopyingPlaces,
     CopyingFlags, CopyingRecords, Afresh
<1> QED BY <1>1, <1>2, <1>3, <1>4, <1>5, <1>6, <1>7, <1>8

LEMMA TransformFailsKeeps == CopyingInv /\ Copying!TransformFails => CopyingInv'
<1> SUFFICES ASSUME CopyingInv, Copying!TransformFails PROVE CopyingInv'
  OBVIOUS
<1> USE CopyingConstants DEF CopyingInv, Copying!TransformFails, Copying!connVars,
   Copying!stateVars, Copying!lockVars, Copying!qualVars, Copying!threadVars, Copying!histVars,
   Copying!Return
<1>1. CopyingFlags'
  BY DEF CopyingFlags
<1>2. CopyingPlaces'
  BY DEF CopyingPlaces
<1>3. CopyingRecords'
  BY DEF CopyingRecords, CopyingPlaces, CopyingFlags
<1>4. LocksInv'
  BY DEF LocksInv, CopyingPlaces, CopyingFlags, StateInv
<1>5. StateInv'
  BY DEF StateInv, LocksInv, CopyingPlaces, CopyingFlags, CopyingRecords
<1>6. FlushInv'
  BY DEF FlushInv, LocksInv, StateInv, CopyingPlaces, CopyingFlags, Afresh
<1>7. CountsInv'
  BY DEF CountsInv, StateInv, FlushInv, LocksInv, CopyingPlaces, CopyingFlags, Afresh
<1>8. KeysInv'
  BY DEF KeysInv, Follows, Copying!ForgottenAt, LocksInv, StateInv, FlushInv, CopyingPlaces,
     CopyingFlags, CopyingRecords, Afresh
<1> QED BY <1>1, <1>2, <1>3, <1>4, <1>5, <1>6, <1>7, <1>8

LEMMA TransformKeeps == CopyingInv /\ Copying!Transform => CopyingInv'
<1> SUFFICES ASSUME CopyingInv, Copying!Transform PROVE CopyingInv'
  OBVIOUS
<1> USE CopyingConstants DEF CopyingInv, Copying!Transform, Copying!connVars, Copying!stateVars,
   Copying!lockVars, Copying!qualVars, Copying!threadVars, Copying!histVars, Copying!Return,
   Copying!WaitAfter
<1>1. CopyingFlags'
  <2>1. m_bSampleSkipped' \in BOOLEAN /\ lost' \in BOOLEAN
    <3>1. \/ m_bSampleSkipped' = TRUE /\ lost' = TRUE
          \/ m_bSampleSkipped' = m_bSampleSkipped /\ lost' = lost
      BY Zenon
    <3> QED BY <3>1, Zenon DEF CopyingFlags
  <2>2. gaveUp' \in BOOLEAN
    BY Zenon
  <2>3. UNCHANGED << Copying!connVars, Copying!stateVars, m_bSkipping, stale, intact >>
    BY Zenon
  <2> QED BY <2>1, <2>2, <2>3, Zenon DEF CopyingFlags
<1>2. CopyingPlaces'
  BY DEF CopyingPlaces
<1>3. CopyingRecords'
  BY DEF CopyingRecords, CopyingPlaces, CopyingFlags
<1>4. LocksInv'
  BY DEF LocksInv, CopyingPlaces, CopyingFlags, StateInv
<1>5. StateInv'
  BY DEF StateInv, LocksInv, CopyingPlaces, CopyingFlags, CopyingRecords
<1>6. FlushInv'
  BY DEF FlushInv, LocksInv, StateInv, CopyingPlaces, CopyingFlags, Afresh
<1>7. CountsInv'
  BY DEF CountsInv, StateInv, FlushInv, LocksInv, CopyingPlaces, CopyingFlags, Afresh
<1>8. KeysInv'
  BY DEF KeysInv, Follows, Copying!ForgottenAt, LocksInv, StateInv, FlushInv, CopyingPlaces,
     CopyingFlags, CopyingRecords, Afresh
<1> QED BY <1>1, <1>2, <1>3, <1>4, <1>5, <1>6, <1>7, <1>8

LEMMA DeliverKeeps == CopyingInv /\ Copying!Deliver => CopyingInv'
<1> SUFFICES ASSUME CopyingInv, Copying!Deliver PROVE CopyingInv'
  OBVIOUS
<1> USE CopyingConstants DEF CopyingInv, Copying!Deliver, Copying!connVars, Copying!stateVars,
   Copying!lockVars, Copying!qualVars, Copying!threadVars, Copying!histVars, Copying!Return
<1>1. CopyingFlags'
  <2>1. m_bSampleSkipped' \in BOOLEAN
    <3>1. m_bSampleSkipped' = FALSE \/ m_bSampleSkipped' = m_bSampleSkipped
      BY Zenon
    <3> QED BY <3>1, Zenon DEF CopyingFlags
  <2>2. UNCHANGED << Copying!connVars, Copying!stateVars, m_bSkipping, stale, Copying!histVars >>
    BY Zenon
  <2> QED BY <2>1, <2>2, Zenon DEF CopyingFlags
<1>2. CopyingPlaces'
  BY DEF CopyingPlaces
<1>3. CopyingRecords'
  BY DEF CopyingRecords, CopyingPlaces, CopyingFlags
<1>4. LocksInv'
  BY DEF LocksInv, CopyingPlaces, CopyingFlags, StateInv
<1>5. StateInv'
  BY DEF StateInv, LocksInv, CopyingPlaces, CopyingFlags, CopyingRecords
<1>6. FlushInv'
  BY DEF FlushInv, LocksInv, StateInv, CopyingPlaces, CopyingFlags, Afresh
<1>7. CountsInv'
  BY DEF CountsInv, StateInv, FlushInv, LocksInv, CopyingPlaces, CopyingFlags, Afresh
<1>8. KeysInv'
  BY DEF KeysInv, Follows, Copying!ForgottenAt, LocksInv, StateInv, FlushInv, CopyingPlaces,
     CopyingFlags, CopyingRecords, Afresh
<1> QED BY <1>1, <1>2, <1>3, <1>4, <1>5, <1>6, <1>7, <1>8

LEMMA EndOfStreamKeeps == CopyingInv /\ Copying!EndOfStream => CopyingInv'
<1> SUFFICES ASSUME CopyingInv, Copying!EndOfStream PROVE CopyingInv'
  OBVIOUS
<1> USE CopyingConstants DEF CopyingInv, Copying!EndOfStream, Copying!connVars, Copying!stateVars,
   Copying!lockVars, Copying!qualVars, Copying!threadVars, Copying!histVars, Copying!ReceiveFree,
   Copying!CheckStreaming, Copying!DeliverEndOfStream
<1>1. CopyingFlags'
  BY DEF CopyingFlags
<1>2. CopyingPlaces'
  BY DEF CopyingPlaces
<1>3. CopyingRecords'
  BY DEF CopyingRecords, CopyingPlaces, CopyingFlags
<1>4. LocksInv'
  BY DEF LocksInv, CopyingPlaces, CopyingFlags, StateInv
<1>5. StateInv'
  BY DEF StateInv, LocksInv, CopyingPlaces, CopyingFlags, CopyingRecords
<1>6. FlushInv'
  BY DEF FlushInv, LocksInv, StateInv, CopyingPlaces, CopyingFlags, Afresh
<1>7. CountsInv'
  BY DEF CountsInv, StateInv, FlushInv, LocksInv, CopyingPlaces, CopyingFlags, Afresh
<1>8. KeysInv'
  BY DEF KeysInv, Follows, Copying!ForgottenAt, LocksInv, StateInv, FlushInv, CopyingPlaces,
     CopyingFlags, CopyingRecords, Afresh
<1> QED BY <1>1, <1>2, <1>3, <1>4, <1>5, <1>6, <1>7, <1>8

LEMMA AlterQualityKeeps == CopyingInv /\ Copying!AlterQuality => CopyingInv'
<1> SUFFICES ASSUME CopyingInv, Copying!AlterQuality PROVE CopyingInv'
  OBVIOUS
<1> USE CopyingConstants DEF CopyingInv, Copying!AlterQuality, Copying!connVars, Copying!stateVars,
   Copying!lockVars, Copying!qualVars, Copying!threadVars, Copying!histVars
<1>1. CopyingFlags'
  BY DEF CopyingFlags
<1>2. CopyingPlaces'
  BY DEF CopyingPlaces
<1>3. CopyingRecords'
  BY DEF CopyingRecords, CopyingPlaces, CopyingFlags
<1>4. LocksInv'
  BY DEF LocksInv, CopyingPlaces, CopyingFlags, StateInv
<1>5. StateInv'
  BY DEF StateInv, LocksInv, CopyingPlaces, CopyingFlags, CopyingRecords
<1>6. FlushInv'
  BY DEF FlushInv, LocksInv, StateInv, CopyingPlaces, CopyingFlags, Afresh
<1>7. CountsInv'
  BY DEF CountsInv, StateInv, FlushInv, LocksInv, CopyingPlaces, CopyingFlags, Afresh
<1>8. KeysInv'
  BY DEF KeysInv, Follows, Copying!ForgottenAt, LocksInv, StateInv, FlushInv, CopyingPlaces,
     CopyingFlags, CopyingRecords, Afresh
<1> QED BY <1>1, <1>2, <1>3, <1>4, <1>5, <1>6, <1>7, <1>8

LEMMA ReleasedKeeps == CopyingInv /\ Copying!ReleaseBuffer => CopyingInv'
<1> SUFFICES ASSUME CopyingInv, Copying!ReleaseBuffer PROVE CopyingInv'
  OBVIOUS
<1> USE CopyingConstants DEF CopyingInv, Copying!ReleaseBuffer, Copying!connVars,
   Copying!stateVars, Copying!lockVars, Copying!qualVars, Copying!threadVars, Copying!histVars
<1>1. CopyingFlags'
  BY DEF CopyingFlags
<1>2. CopyingPlaces'
  BY DEF CopyingPlaces
<1>3. CopyingRecords'
  BY DEF CopyingRecords, CopyingPlaces, CopyingFlags
<1>4. LocksInv'
  BY DEF LocksInv, CopyingPlaces, CopyingFlags, StateInv
<1>5. StateInv'
  BY DEF StateInv, LocksInv, CopyingPlaces, CopyingFlags, CopyingRecords
<1>6. FlushInv'
  BY DEF FlushInv, LocksInv, StateInv, CopyingPlaces, CopyingFlags, Afresh
<1>7. CountsInv'
  BY DEF CountsInv, StateInv, FlushInv, LocksInv, CopyingPlaces, CopyingFlags, Afresh
<1>8. KeysInv'
  BY DEF KeysInv, Follows, Copying!ForgottenAt, LocksInv, StateInv, FlushInv, CopyingPlaces,
     CopyingFlags, CopyingRecords, Afresh
<1> QED BY <1>1, <1>2, <1>3, <1>4, <1>5, <1>6, <1>7, <1>8

LEMMA RefusedKeeps == CopyingInv /\ Copying!Refused => CopyingInv'
<1> SUFFICES ASSUME CopyingInv, Copying!Refused PROVE CopyingInv'
  OBVIOUS
<1>0. PICK s \in Copying!Samples :
         Copying!Arrives(s)
  BY DEF Copying!Refused
<1> USE <1>0, CopyingConstants DEF CopyingInv, Copying!Refused, Copying!connVars,
   Copying!stateVars, Copying!lockVars, Copying!qualVars, Copying!threadVars, Copying!histVars,
   Copying!CheckStreaming,
        Copying!Samples, Copying!Arrives, Copying!ReceiveFree
<1>1. CopyingFlags'
  <2>1. stale' = FALSE
    OBVIOUS
  <2>2. UNCHANGED << Copying!connVars, Copying!stateVars, m_bSampleSkipped, m_bSkipping, Copying!histVars >>
    OBVIOUS
  <2> QED BY <2>1, <2>2, Zenon DEF CopyingFlags
<1>2. CopyingPlaces'
  BY DEF CopyingPlaces
<1>3. CopyingRecords'
  BY DEF CopyingRecords, CopyingPlaces, CopyingFlags
<1>4. LocksInv'
  BY DEF LocksInv, CopyingPlaces, CopyingFlags, StateInv
<1>5. StateInv'
  BY DEF StateInv, LocksInv, CopyingPlaces, CopyingFlags, CopyingRecords
<1>6. FlushInv'
  BY DEF FlushInv, LocksInv, StateInv, CopyingPlaces, CopyingFlags, Afresh
<1>7. CountsInv'
  BY DEF CountsInv, StateInv, FlushInv, LocksInv, CopyingPlaces, CopyingFlags, Afresh
<1>8. KeysInv'
  BY DEF KeysInv, Follows, Copying!ForgottenAt, LocksInv, StateInv, FlushInv, CopyingPlaces,
     CopyingFlags, CopyingRecords, Afresh
<1> QED BY <1>1, <1>2, <1>3, <1>4, <1>5, <1>6, <1>7, <1>8

LEMMA TypeRefusedKeeps == CopyingInv /\ Copying!TypeRefused => CopyingInv'
<1> SUFFICES ASSUME CopyingInv, Copying!TypeRefused PROVE CopyingInv'
  OBVIOUS
<1>0. PICK s \in Copying!Samples :
         s.newType /\ Copying!Arrives(s)
  BY DEF Copying!TypeRefused
<1> USE <1>0, CopyingConstants DEF CopyingInv, Copying!TypeRefused, Copying!connVars,
   Copying!stateVars, Copying!lockVars, Copying!qualVars, Copying!threadVars, Copying!histVars,
   Copying!CheckStreaming,
        Copying!Samples, Copying!Arrives, Copying!ReceiveFree
<1>1. CopyingFlags'
  BY Zenon DEF CopyingFlags
<1>2. CopyingPlaces'
  BY DEF CopyingPlaces
<1>3. CopyingRecords'
  BY DEF CopyingRecords, CopyingPlaces, CopyingFlags
<1>4. LocksInv'
  BY DEF LocksInv, CopyingPlaces, CopyingFlags, StateInv
<1>5. StateInv'
  BY DEF StateInv, LocksInv, CopyingPlaces, CopyingFlags, CopyingRecords
<1>6. FlushInv'
  BY DEF FlushInv, LocksInv, StateInv, CopyingPlaces, CopyingFlags, Afresh
<1>7. CountsInv'
  BY DEF CountsInv, StateInv, FlushInv, LocksInv, CopyingPlaces, CopyingFlags, Afresh
<1>8. KeysInv'
  BY DEF KeysInv, Follows, Copying!ForgottenAt, LocksInv, StateInv, FlushInv, CopyingPlaces,
     CopyingFlags, CopyingRecords, Afresh
<1> QED BY <1>1, <1>2, <1>3, <1>4, <1>5, <1>6, <1>7, <1>8

LEMMA SkipFrameKeeps == CopyingInv /\ Copying!SkipFrame => CopyingInv'
<1> SUFFICES ASSUME CopyingInv, Copying!SkipFrame PROVE CopyingInv'
  OBVIOUS
<1>0. PICK s \in Copying!Samples :
         /\ ~s.newType /\ (Copying!Skips(s, TRUE) \/ Copying!Skips(s, FALSE))
         /\ Copying!Arrives(s) /\ Copying!QualityOf(s, TRUE)
  BY DEF Copying!SkipFrame
<1> USE <1>0, CopyingConstants DEF CopyingInv, Copying!SkipFrame, Copying!connVars,
   Copying!stateVars, Copying!lockVars, Copying!qualVars, Copying!threadVars, Copying!histVars,
   Copying!CheckStreaming,
        Copying!Samples, Copying!Arrives, Copying!ReceiveFree, Copying!Skips, Copying!MaySkip,
        Copying!QualityOf, Copying!KeyFramePeriod, Copying!FramesSince, Copying!Larger
<1>1. CopyingFlags'
  BY Zenon DEF CopyingFlags
<1>2. CopyingPlaces'
  BY DEF CopyingPlaces
<1>3. CopyingRecords'
  BY DEF CopyingRecords, CopyingPlaces, CopyingFlags
<1>4. LocksInv'
  BY DEF LocksInv, CopyingPlaces, CopyingFlags, StateInv
<1>5. StateInv'
  BY DEF StateInv, LocksInv, CopyingPlaces, CopyingFlags, CopyingRecords
<1>6. FlushInv'
  BY DEF FlushInv, LocksInv, StateInv, CopyingPlaces, CopyingFlags, Afresh
<1>7. CountsInv'
  BY DEF CountsInv, StateInv, FlushInv, LocksInv, CopyingPlaces, CopyingFlags, Afresh
<1>8. KeysInv'
  <2>1. /\ streamer = "idle" /\ streamer' = "idle" /\ source' = "on" /\ video' /\ flusher' = flusher
        /\ m_nWaitForKey' = m_nWaitForKey /\ lost' /\ m_bSampleSkipped'
    BY DEF LocksInv, CopyingPlaces
  <2>2. m_bSkipping'
    OBVIOUS
  <2>3. source = "on"
    <3>1. ASSUME source = "first" PROVE FALSE
      <4>1. Afresh
        BY <3>1 DEF CountsInv
      <4> QED BY <4>1 DEF Afresh
    <3> QED BY <3>1
  <2>4. flusher # "unflush"
    BY DEF FlushInv, LocksInv
  <2>5. m_nWaitForKey # -1
    BY <2>1, <2>3, <2>4 DEF KeysInv, Follows
  <2> QED BY <2>1, <2>2, <2>5 DEF KeysInv, Follows
<1> QED BY <1>1, <1>2, <1>3, <1>4, <1>5, <1>6, <1>7, <1>8

LEMMA ReceiveKeeps == CopyingInv /\ Copying!Receive => CopyingInv'
<1> SUFFICES ASSUME CopyingInv, Copying!Receive PROVE CopyingInv'
  OBVIOUS
<1>0. PICK s \in Copying!Samples :
         /\ Copying!Arrives(s)
         /\ IF video /\ timed
            THEN /\ s.newType \/ ~Copying!Skips(s, FALSE)
                 /\ Copying!QualityOf(s, FALSE)
                 /\ m_bSampleSkipped' = (m_bSampleSkipped /\ ~s.newType)
            ELSE IF s.newType THEN Copying!StartStreaming(m_bSampleSkipped)
                 ELSE UNCHANGED << Copying!qualVars, m_bSampleSkipped >>
         /\ source' = "on"
  BY DEF Copying!Receive
<1> USE <1>0, CopyingConstants DEF CopyingInv, Copying!Receive, Copying!connVars,
   Copying!stateVars, Copying!lockVars, Copying!qualVars, Copying!threadVars, Copying!histVars,
   Copying!CheckStreaming,
        Copying!Samples, Copying!Arrives, Copying!ReceiveFree, Copying!Skips, Copying!MaySkip,
        Copying!QualityOf, Copying!KeyFramePeriod, Copying!FramesSince, Copying!Larger,
        Copying!StartStreaming
<1>1. CopyingFlags'
  BY Zenon DEF CopyingFlags
<1>2. CopyingPlaces'
  BY DEF CopyingPlaces
<1>3. CopyingRecords'
  BY DEF CopyingRecords, CopyingPlaces, CopyingFlags
<1>4. LocksInv'
  BY DEF LocksInv, CopyingPlaces, CopyingFlags, StateInv
<1>5. StateInv'
  BY DEF StateInv, LocksInv, CopyingPlaces, CopyingFlags, CopyingRecords
<1>6. FlushInv'
  BY DEF FlushInv, LocksInv, StateInv, CopyingPlaces, CopyingFlags, Afresh
<1>7. CountsInv'
  BY DEF CountsInv, StateInv, FlushInv, LocksInv, CopyingPlaces, CopyingFlags, Afresh
<1>8. KeysInv'
  <2>1. /\ streamer = "idle" /\ streamer' = "getbuffer" /\ source' = "on" /\ video' = video
        /\ m_nWaitForKey' = m_nWaitForKey /\ sample' = s
    BY DEF LocksInv, CopyingPlaces
  <2>2. UNCHANGED << lost, intact, gaveUp >>
    OBVIOUS
  <2>3. ASSUME video PROVE s.discontinuity \/ Follows(s.key)
    <3>1. CASE source = "first"
      BY <3>1
    <3>2. CASE source = "on"
      <4>1. Follows(m_bSkipping)
        BY <2>1, <2>3, <3>2 DEF KeysInv, FlushInv, LocksInv
      <4>2. m_bSkipping => s.key
        <5>1. CASE timed
          BY <2>3, <5>1
        <5>2. CASE ~timed
          BY <5>2 DEF CountsInv, Afresh
        <5> QED BY <5>1, <5>2
      <4> QED BY <4>1, <4>2 DEF Follows
    <3> QED BY <3>1, <3>2
  <2>5. video' => sample'.discontinuity \/ Follows(sample.key)'
    <3>1. Follows(sample.key)' <=> Follows(s.key)
      BY <2>1, <2>2 DEF Follows
    <3> QED BY <2>1, <2>3, <3>1
  <2>6. lost' => m_bSampleSkipped' \/ (video' /\ Copying!ForgottenAt')
    <3>1. m_bSampleSkipped => m_bSampleSkipped' \/ (video /\ s.newType /\ s.key)
      OBVIOUS
    <3>2. CASE source = "first"
      <4>1. s.discontinuity
        BY <3>2
      <4>2. video \/ m_bSampleSkipped \/ ~lost
        BY DEF KeysInv
      <4> QED BY <2>1, <2>2, <3>1, <4>1, <4>2 DEF Copying!ForgottenAt
    <3>3. CASE source = "on"
      <4>1. flusher # "unflush"
        BY DEF FlushInv, LocksInv
      <4>2. lost => m_bSampleSkipped
        BY <2>1, <3>3, <4>1 DEF KeysInv, Copying!ForgottenAt
      <4> QED BY <2>1, <2>2, <3>1, <4>2 DEF Copying!ForgottenAt
    <3> QED BY <3>2, <3>3
  <2> QED BY <2>1, <2>2, <2>5, <2>6 DEF KeysInv
<1> QED BY <1>1, <1>2, <1>3, <1>4, <1>5, <1>6, <1>7, <1>8

LEMMA CopyingInit == Copying!Init => CopyingInv
<1> SUFFICES ASSUME Copying!Init PROVE CopyingInv
  OBVIOUS
<1> USE CopyingConstants DEF Copying!Init, Copying!NoSample, Copying!Idle
<1>1. CopyingFlags
  BY Zenon DEF CopyingFlags
<1>2. CopyingPlaces
  BY DEF CopyingPlaces
<1>3. CopyingRecords
  BY DEF CopyingRecords
<1>4. LocksInv
  BY DEF LocksInv
<1>5. StateInv
  BY DEF StateInv
<1>6. FlushInv
  BY DEF FlushInv, Afresh
<1>7. CountsInv
  BY DEF CountsInv, Afresh
<1>8. KeysInv
  BY DEF KeysInv
<1> QED BY <1>1, <1>2, <1>3, <1>4, <1>5, <1>6, <1>7, <1>8 DEF CopyingInv

LEMMA CopyingStays == CopyingInv /\ UNCHANGED copyingVars => CopyingInv'
<1> SUFFICES ASSUME CopyingInv, UNCHANGED copyingVars PROVE CopyingInv'
  OBVIOUS
<1> USE DEF CopyingInv, copyingVars
<1>1. CopyingFlags'
  BY Zenon DEF CopyingFlags
<1>2. CopyingPlaces'
  BY Zenon DEF CopyingPlaces
<1>3. CopyingRecords'
  BY Zenon DEF CopyingRecords
<1>4. LocksInv'
  BY DEF LocksInv
<1>5. StateInv'
  BY DEF StateInv
<1>6. FlushInv'
  BY DEF FlushInv, Afresh
<1>7. CountsInv'
  BY DEF CountsInv, Afresh
<1>8. KeysInv'
  BY DEF KeysInv, Follows, Copying!ForgottenAt
<1> QED BY <1>1, <1>2, <1>3, <1>4, <1>5, <1>6, <1>7, <1>8

LEMMA CopyingStep == CopyingInv /\ Copying!Next => CopyingInv'
<1> SUFFICES ASSUME CopyingInv, Copying!Next PROVE CopyingInv'
  OBVIOUS
<1>1. CASE Copying!ConnectInput \/ Copying!ConnectOutput \/ Copying!DisconnectInput
  BY <1>1, ConnectInputKeeps, ConnectOutputKeeps, DisconnectInputKeeps
<1>2. CASE Copying!BeginPause \/ Copying!Run \/ Copying!BeginStop
  BY <1>2, BeginPauseKeeps, RunKeeps, BeginStopKeeps
<1>3. CASE Copying!AppStep
  BY <1>3, PauseUnfedKeeps, PauseOnlyKeeps, PauseEnterKeeps, PauseSyncKeeps, StopUnconnectedKeeps,
     StopEnterKeeps, StopSyncKeeps, StopSourceKeeps DEF Copying!AppStep
<1>4. CASE Copying!BeginFlush \/ Copying!FlushStep
  BY <1>4, BeginFlushKeeps, EndFlushKeeps, EndFlushSyncKeeps, FlushIsOverKeeps
     DEF Copying!FlushStep
<1>5. CASE Copying!Refused \/ Copying!TypeRefused \/ Copying!SkipFrame \/ Copying!Receive
  BY <1>5, RefusedKeeps, TypeRefusedKeeps, SkipFrameKeeps, ReceiveKeeps
<1>6. CASE Copying!StreamStep
  BY <1>6, BufferFailsKeeps, GetBufferKeeps, TransformFailsKeeps, TransformKeeps, DeliverKeeps
     DEF Copying!StreamStep
<1>7. CASE Copying!EndOfStream \/ Copying!AlterQuality \/ Copying!ReleaseBuffer
  BY <1>7, EndOfStreamKeeps, AlterQualityKeeps, ReleasedKeeps
<1> QED BY <1>1, <1>2, <1>3, <1>4, <1>5, <1>6, <1>7 DEF Copying!Next

LEMMA CopyingHolds ==
    CopyingInv => Copying!TypeOK /\ Copying!StreamingStops /\ Copying!ShowsWholePictures
<1> SUFFICES ASSUME CopyingInv
             PROVE  Copying!TypeOK /\ Copying!StreamingStops /\ Copying!ShowsWholePictures
  OBVIOUS
<1> USE DEF CopyingInv
<1>1. Copying!TypeOK
  <2>1. /\ {m_bFlushing, m_bRunTimeError, m_bEOSDelivered, m_bSampleSkipped, m_bSkipping}
             \subseteq BOOLEAN
        /\ {stale, intact, gaveUp, lost} \subseteq BOOLEAN
    BY DEF CopyingFlags
  <2>2. m_csFilter \in {"none", "app", "flusher"} /\ m_csReceive \in {"none", "streamer"}
    BY DEF LocksInv
  <2>3. /\ m_nKeyFramePeriod \in 0..MaxGap + 1 /\ m_nFramesSinceKeyFrame \in 0..MaxGap + 1
        /\ m_itrLate \in Nat /\ m_nWaitForKey \in -1..GiveUpAfter /\ gap \in 0..MaxGap
    BY CopyingConstants DEF CountsInv, KeysInv
  <2> QED BY <2>1, <2>2, <2>3, Zenon DEF Copying!TypeOK, CopyingFlags, CopyingPlaces, CopyingRecords
<1>2. Copying!StreamingStops
  BY DEF Copying!StreamingStops, StateInv, FlushInv, CopyingPlaces
<1>3. Copying!ShowsWholePictures
  BY DEF Copying!ShowsWholePictures, KeysInv
<1> QED BY <1>1, <1>2, <1>3

-----------------------------------------------------------------------------
(* A chain of filters that work in place (TransInPlace). *)

Given == InPlace!Allocators \cup {InPlace!None}

ChainTypes ==
    /\ m_bModifiesData \in [InPlace!Filters -> BOOLEAN]
    /\ supplier \in InPlace!Sources /\ sink \in InPlace!Sinks /\ connected \subseteq InPlace!Links
    /\ out \in [InPlace!Links -> Given] /\ in \in [InPlace!Links -> Given]
    /\ m_bReadOnly \in [InPlace!Links -> BOOLEAN]
    /\ m_mt \in [InPlace!Links -> Types \cup {InPlace!NoType}]
    /\ pending \in Seq([link : InPlace!Links, type : Types])
    /\ connects \in Nat /\ connects <= MaxConnects

Queued(queue, k) == \E i \in DOMAIN queue : queue[i].link = k

Requested(k) == Queued(pending, k)

\* No filter up to this link changes the data.
Untouched(i) == \A f \in 1..i : ~m_bModifiesData[f]

\* Only the upstream filter's own allocator is read-only, and it is passed on up to the first
\* filter that changes the data.
ReadOnlyInv ==
    \A i \in InPlace!Links :
        /\ m_bReadOnly[i] => Untouched(i)
        /\ m_bReadOnly[i] /\ i \in connected => in[i].by \in InPlace!ReadOnly
        /\ ~Untouched(i) => in[i].by \notin InPlace!ReadOnly /\ out[i].by \notin InPlace!ReadOnly

LinksInv ==
    /\ \A k \in InPlace!Links :
         /\ k \in connected => out[k] = in[k] /\ in[k] # InPlace!None
         /\ k \notin connected => out[k] = InPlace!None
    /\ 0 \in connected /\ supplier = "C" => in[0].by = "C"

\* As long as two neighbours disagree about the type, one of their links is to be reconnected.
TypesInv ==
    \A f \in InPlace!Filters :
        {f - 1, f} \subseteq connected /\ m_mt[f - 1] # m_mt[f] => Requested(f - 1) \/ Requested(f)

\* A filter that copies without need is to be asked again, from above.
CopiersInv ==
    /\ \A f \in InPlace!Filters :
          {f - 1, f} \subseteq connected /\ InPlace!UsingDifferentAllocators(f)
            => Requested(f - 1) \/ (m_bReadOnly[f - 1] /\ m_bModifiesData[f])
    /\ InPlace!Complete /\ supplier # "A" /\ ~(supplier = "B" /\ sink = "F") =>
          \A i \in InPlace!Links : m_bReadOnly[i] => \E j \in i..N : Requested(j)

InPlaceInv == ChainTypes /\ ReadOnlyInv /\ LinksInv /\ TypesInv /\ CopiersInv

LEMMA ChainConstants == N \in Nat /\ N > 0 /\ MaxConnects \in Nat
BY TransformsAssumption DEF InPlace!TransInPlaceAssumption

\* Every set of natural numbers has a least one.
LEMMA Least ==
    ASSUME NEW S, S \subseteq Nat, S # {}
    PROVE  \E x \in S : \A y \in S : x <= y
<1>1. PICK x \in S : \A y \in S : ~(<<y, x>> \in OpToRel(<, Nat))
  <2>1. \E x \in S : \A y \in S : ~(<<y, x>> \in OpToRel(<, Nat))
    BY NatLessThanWellFounded, WFMin
  <2> QED BY <2>1
<1>2. \A y \in S : ~(y < x)
  BY <1>1 DEF OpToRel
<1> QED BY <1>2

LEMMA ReachedIs ==
    ASSUME connected \subseteq InPlace!Links, NEW k \in InPlace!Links
    PROVE  /\ InPlace!Reached(k) \in Int /\ k <= InPlace!Reached(k) /\ InPlace!Reached(k) <= N
           /\ k + 1..InPlace!Reached(k) \subseteq connected
           /\ InPlace!Reached(k) + 1 \notin connected
<1> USE ChainConstants DEF InPlace!Links
<1> DEFINE S == { l \in k..N : k + 1..l \subseteq connected }
           D == { N - l : l \in S }
<1>1. k \in S
  OBVIOUS
<1>2. D \subseteq Nat /\ D # {}
  BY <1>1
<1>3. PICK d \in D : \A e \in D : d <= e
  BY <1>2, Least
<1>4. PICK m \in S : d = N - m
  BY <1>3
<1>5. ASSUME NEW l \in S PROVE m >= l
  <2>1. N - l \in D
    OBVIOUS
  <2>2. N - m <= N - l
    BY <1>3, <1>4, <2>1
  <2>3. m \in Int /\ l \in Int
    OBVIOUS
  <2> QED BY <2>2, <2>3
<1>6. InPlace!Reached(k) \in S /\ \A l \in S : InPlace!Reached(k) >= l
  <2>1. InPlace!Reached(k) = CHOOSE x \in S : \A y \in S : x >= y
    BY DEF InPlace!Reached, InPlace!Max
  <2>2. \E x \in S : \A y \in S : x >= y
    BY <1>5
  <2> HIDE DEF S
  <2> QED BY <2>1, <2>2
<1>7. ASSUME InPlace!Reached(k) + 1 \in connected PROVE FALSE
  <2>1. InPlace!Reached(k) + 1 \in S
    BY <1>6, <1>7
  <2> QED BY <1>6, <2>1
<1> QED BY <1>6, <1>7

LEMMA CopierIs ==
    ASSUME NEW k \in InPlace!Links, NEW l \in InPlace!Links, k <= l, NEW readOnly \in BOOLEAN
    PROVE  /\ InPlace!Copier(k, l, readOnly) \in Int
           /\ k < InPlace!Copier(k, l, readOnly) /\ InPlace!Copier(k, l, readOnly) <= l + 1
           /\ InPlace!Copier(k, l, readOnly) <= l
                => readOnly /\ m_bModifiesData[InPlace!Copier(k, l, readOnly)]
           /\ readOnly => \A f \in k + 1..l : f < InPlace!Copier(k, l, readOnly) => ~m_bModifiesData[f]
<1> USE ChainConstants DEF InPlace!Links
<1> DEFINE S == { f \in k + 1..l : m_bModifiesData[f] }
<1>1. CASE readOnly /\ S # {}
  <2>1. S \subseteq Nat
    OBVIOUS
  <2>2. PICK m \in S : \A f \in S : m <= f
    BY <1>1, <2>1, Least
  <2>3. InPlace!Copier(k, l, readOnly) = CHOOSE x \in S : \A y \in S : x <= y
    BY <1>1 DEF InPlace!Copier, InPlace!Min
  <2>4. InPlace!Copier(k, l, readOnly) \in S /\ \A f \in S : InPlace!Copier(k, l, readOnly) <= f
    <3>1. \E x \in S : \A y \in S : x <= y
      BY <2>2
    <3> HIDE DEF S
    <3> QED BY <2>3, <3>1
  <2>5. ASSUME NEW f \in k + 1..l, m_bModifiesData[f] PROVE InPlace!Copier(k, l, readOnly) <= f
    BY <2>4, <2>5
  <2>6. /\ InPlace!Copier(k, l, readOnly) \in k + 1..l
        /\ m_bModifiesData[InPlace!Copier(k, l, readOnly)]
    BY <2>4
  <2>7. ASSUME NEW f \in k + 1..l, f < InPlace!Copier(k, l, readOnly) PROVE ~m_bModifiesData[f]
    BY <2>5, <2>6, <2>7
  <2>8. /\ InPlace!Copier(k, l, readOnly) \in Int
        /\ k < InPlace!Copier(k, l, readOnly) /\ InPlace!Copier(k, l, readOnly) <= l + 1
    BY <2>6
  <2> HIDE DEF S
  <2> QED BY <1>1, <2>6, <2>7, <2>8, Zenon
<1>2. CASE ~(readOnly /\ S # {})
  <2>1. InPlace!Copier(k, l, readOnly) = l + 1
    BY <1>2 DEF InPlace!Copier
  <2> QED BY <1>2, <2>1
<1> QED BY <1>1, <1>2

\* What a connection of link k reaches, and leaves: the links down to l get the allocator that was
\* chosen, or from the copier on the one it keeps.
Reaches(k, l) ==
    /\ l \in InPlace!Links /\ k <= l /\ l + 1 \notin connected
    /\ \A i \in InPlace!Links : k < i /\ i <= l => i \in connected

Chosen(k, l, copier, chosen, after, readOnly) ==
    /\ readOnly => /\ k = 0 /\ supplier \in InPlace!ReadOnly /\ chosen.by \in InPlace!ReadOnly
                   /\ supplier = "B" => l = N /\ sink = "F"
    /\ chosen.by \in InPlace!ReadOnly /\ ~readOnly => Untouched(l)
    /\ chosen \in InPlace!Allocators /\ chosen # InPlace!None
    /\ k = 0 /\ supplier = "C" => chosen.by = "C"
    /\ copier \in Int /\ k < copier /\ copier <= l + 1
    /\ copier <= l => /\ readOnly /\ m_bModifiesData[copier]
                      /\ after \in InPlace!Allocators /\ after # InPlace!None
                      /\ after.by \notin InPlace!ReadOnly
    /\ readOnly => \A f \in InPlace!Filters : f < copier /\ f <= l => ~m_bModifiesData[f]

Leaves(k, t, queue, l, copier, chosen, after, readOnly) ==
    /\ connected' = connected \cup {k}
    /\ in' = [i \in InPlace!Links |->
                 IF i \notin k..l THEN in[i] ELSE IF i < copier THEN chosen ELSE after]
    /\ out' = [i \in InPlace!Links |->
                 IF i \notin k..l THEN out[i] ELSE IF i < copier THEN chosen ELSE after]
    /\ m_bReadOnly' = [i \in InPlace!Links |->
                 IF i \in k..l THEN readOnly /\ i < copier ELSE m_bReadOnly[i]]
    /\ m_mt' = [m_mt EXCEPT ![k] = t]
    /\ pending' = queue \o InPlace!Requests(k, t)

LEMMA AllocatorsAre ==
    ASSUME NEW by \in InPlace!Sources \cup InPlace!Sinks \cup {"output", "input"}, NEW l \in InPlace!Links
    PROVE  LET a == [by |-> by, link |-> l] IN
           a \in InPlace!Allocators /\ a # InPlace!None /\ a.by = by
BY DEF InPlace!Allocators, InPlace!None, InPlace!Sources, InPlace!Sinks

LEMMA UntouchedBelow ==
    ASSUME NEW i \in InPlace!Links, NEW j \in InPlace!Links, i <= j, Untouched(j)
    PROVE  Untouched(i)
BY ChainConstants DEF InPlace!Links, Untouched

LEMMA Offered ==
    ASSUME ChainTypes, ReadOnlyInv, NEW k \in InPlace!Links, NEW l \in InPlace!Links, k <= l,
           NEW offer, offer = InPlace!OfferAt(l, [in EXCEPT ![k] = InPlace!None]),
           offer # InPlace!None
    PROVE  /\ offer \in InPlace!Allocators
           /\ offer.by \in InPlace!ReadOnly => Untouched(l)
<1>1. CASE offer = in[l]
  <2>1. in[l] \in Given
    BY DEF ChainTypes
  <2>2. in[l].by \in InPlace!ReadOnly => Untouched(l)
    BY DEF ReadOnlyInv
  <2> QED BY <1>1, <2>1, <2>2 DEF Given
<1>2. ASSUME offer # in[l]
      PROVE  \E by \in InPlace!Sinks \cup {"input"} : offer = [by |-> by, link |-> l]
  <2>1. [in EXCEPT ![k] = InPlace!None][l] \in {in[l], InPlace!None}
    BY DEF ChainTypes
  <2>2. offer = [by |-> IF l = N THEN sink ELSE "input", link |-> l]
    BY <1>2, <2>1 DEF InPlace!OfferAt
  <2> QED BY <2>2 DEF ChainTypes
<1>3. ASSUME NEW by \in InPlace!Sinks \cup {"input"}, offer = [by |-> by, link |-> l]
      PROVE  offer \in InPlace!Allocators /\ offer.by \notin InPlace!ReadOnly
  BY <1>3, AllocatorsAre DEF InPlace!Sinks, InPlace!ReadOnly
<1> QED BY <1>1, <1>2, <1>3

LEMMA Negotiated ==
    ASSUME ChainTypes, ReadOnlyInv, LinksInv, NEW k \in InPlace!Links, NEW t, NEW queue,
           InPlace!ConnectLink(k, t, queue)
    PROVE  \E l \in InPlace!Links, copier \in Int, chosen \in InPlace!Allocators, after \in Given,
              readOnly \in BOOLEAN :
              /\ Reaches(k, l)
              /\ Chosen(k, l, copier, chosen, after, readOnly)
              /\ Leaves(k, t, queue, l, copier, chosen, after, readOnly)
<1> DEFINE l        == InPlace!Reached(k)
           free     == [in EXCEPT ![k] = InPlace!None]
           offer    == InPlace!OfferAt(l, free)
           useOffer == offer # InPlace!None /\ ~(k = 0 /\ supplier \in InPlace!Insists)
           chosen   == IF useOffer THEN offer ELSE InPlace!OwnAllocator(k)
           readOnly == k = 0 /\ ~useOffer /\ supplier \in InPlace!ReadOnly
           copier   == InPlace!Copier(k, l, readOnly)
           kept     == InPlace!OffersTaken(k, l, offer, out)
           after    == IF copier <= l THEN kept[copier] ELSE InPlace!None
<1>1. /\ l \in Int /\ k <= l /\ l <= N /\ k + 1..l \subseteq connected /\ l + 1 \notin connected
  BY ReachedIs DEF ChainTypes
<1>2. l \in InPlace!Links /\ Reaches(k, l)
  BY <1>1, ChainConstants DEF InPlace!Links, Reaches
<1>3. ASSUME offer # InPlace!None
      PROVE  offer \in InPlace!Allocators /\ (offer.by \in InPlace!ReadOnly => Untouched(l))
  <2> HIDE DEF l
  <2> QED BY <1>1, <1>2, <1>3, Offered
<1>4. PICK own \in InPlace!Sources \cup {"output"} :
         /\ InPlace!OwnAllocator(k) = [by |-> own, link |-> k]
         /\ own = IF k = 0 THEN supplier ELSE "output"
  BY DEF InPlace!OwnAllocator, ChainTypes
<1>5. /\ InPlace!OwnAllocator(k) \in InPlace!Allocators
      /\ InPlace!OwnAllocator(k) # InPlace!None /\ InPlace!OwnAllocator(k).by = own
  BY <1>4, AllocatorsAre
<1>6. chosen \in InPlace!Allocators /\ chosen # InPlace!None
  <2> HIDE DEF offer
  <2> QED BY <1>3, <1>5
<1>7. readOnly \in BOOLEAN
  OBVIOUS
<1>8. /\ copier \in Int /\ k < copier /\ copier <= l + 1
      /\ copier <= l => readOnly /\ m_bModifiesData[copier]
      /\ readOnly => \A f \in k + 1..l : f < copier => ~m_bModifiesData[f]
  <2> HIDE DEF l, readOnly
  <2> QED BY <1>1, <1>2, <1>7, CopierIs
<1>9. ASSUME copier <= l
      PROVE  /\ copier \in k + 1..l /\ copier \in InPlace!Links
             /\ kept[copier] \in InPlace!Allocators /\ kept[copier] # InPlace!None
             /\ kept[copier].by \notin InPlace!ReadOnly
  <2> HIDE DEF l, copier, offer
  <2>1. copier \in k + 1..l /\ copier \in InPlace!Links /\ copier \in connected
    BY <1>1, <1>8, <1>9, ChainConstants DEF InPlace!Links
  <2>2. ~Untouched(copier) /\ ~Untouched(l)
    BY <1>1, <1>2, <1>8, <1>9, <2>1 DEF Untouched, InPlace!Links
  <2>3. CASE offer # InPlace!None
    <3>1. kept[copier] = offer
      BY <2>1, <2>3 DEF InPlace!OffersTaken
    <3> QED BY <1>3, <2>1, <2>2, <2>3, <3>1
  <2>4. CASE offer = InPlace!None
    <3>1. kept[copier] = out[copier]
      BY <2>1, <2>4 DEF InPlace!OffersTaken
    <3>2. out[copier] \in Given /\ out[copier] # InPlace!None
      BY <2>1 DEF LinksInv, ChainTypes
    <3>3. out[copier].by \notin InPlace!ReadOnly
      BY <2>1, <2>2 DEF ReadOnlyInv
    <3> QED BY <2>1, <3>1, <3>2, <3>3 DEF Given
  <2> QED BY <2>3, <2>4
<1>10. ASSUME readOnly
       PROVE  /\ k = 0 /\ supplier \in InPlace!ReadOnly /\ chosen.by \in InPlace!ReadOnly
              /\ supplier = "B" => l = N /\ sink = "F"
  <2> HIDE DEF l
  <2>1. k = 0 /\ supplier \in InPlace!ReadOnly /\ chosen.by = supplier
    <3> HIDE DEF offer
    <3> QED BY <1>4, <1>5, <1>10
  <2>2. ASSUME supplier = "B" PROVE l = N /\ sink = "F"
    <3>1. offer = InPlace!None
      <4> HIDE DEF offer
      <4> QED BY <1>10, <2>2 DEF InPlace!Insists
    <3>2. ASSUME ~(l = N /\ sink \notin InPlace!Offers) PROVE offer # InPlace!None
      <4>1. CASE free[l] # InPlace!None
        BY <3>2, <4>1 DEF InPlace!OfferAt
      <4>2. CASE free[l] = InPlace!None
        <5>1. PICK by \in InPlace!Sinks \cup {"input"} : offer = [by |-> by, link |-> l]
          BY <3>2, <4>2 DEF InPlace!OfferAt, ChainTypes
        <5> QED BY <1>2, <5>1, AllocatorsAre
      <4> QED BY <4>1, <4>2
    <3> QED BY <3>1, <3>2 DEF ChainTypes, InPlace!Offers, InPlace!Sinks
  <2> QED BY <2>1, <2>2
<1>11. ASSUME chosen.by \in InPlace!ReadOnly, ~readOnly PROVE Untouched(l)
  <2> HIDE DEF l
  <2>1. CASE useOffer
    <3> HIDE DEF offer
    <3> QED BY <1>3, <1>11, <2>1
  <2>2. CASE ~useOffer
    <3>1. own \in InPlace!ReadOnly
      <4> HIDE DEF offer
      <4> QED BY <1>5, <1>11, <2>2
    <3>2. k = 0 /\ own = supplier
      BY <1>4, <3>1 DEF InPlace!ReadOnly
    <3> HIDE DEF offer
    <3> QED BY <1>11, <2>2, <3>1, <3>2
  <2> QED BY <2>1, <2>2
<1>12. ASSUME k = 0, supplier = "C" PROVE chosen.by = "C"
  <2>1. ~useOffer
    <3> HIDE DEF offer
    <3> QED BY <1>12 DEF InPlace!Insists
  <2> HIDE DEF offer
  <2> QED BY <1>4, <1>5, <1>12, <2>1
<1>13. ASSUME readOnly, NEW f \in InPlace!Filters, f < copier, f <= l PROVE ~m_bModifiesData[f]
  <2> HIDE DEF l, copier, readOnly
  <2>1. k = 0
    BY <1>10, <1>13
  <2>2. f \in k + 1..l
    BY <1>1, <1>13, <2>1 DEF InPlace!Filters
  <2> QED BY <1>8, <1>13, <2>2
<1>14. ASSUME copier <= l
       PROVE  /\ readOnly /\ m_bModifiesData[copier]
              /\ after \in InPlace!Allocators /\ after # InPlace!None
              /\ after.by \notin InPlace!ReadOnly
  <2> HIDE DEF l, copier, readOnly, kept
  <2> QED BY <1>8, <1>9, <1>14
<1>15. after \in Given
  <2> HIDE DEF l, copier, readOnly, kept
  <2> QED BY <1>9 DEF Given
<1>16. Chosen(k, l, copier, chosen, after, readOnly)
  <2> HIDE DEF l, offer, useOffer, chosen, readOnly, copier, after
  <2> QED BY <1>6, <1>8, <1>10, <1>11, <1>12, <1>13, <1>14 DEF Chosen
<1>17. Leaves(k, t, queue, l, copier, chosen, after, readOnly)
  <2>1. \A i \in InPlace!Links : i \notin k..l => kept[i] = out[i]
    <3> HIDE DEF l, offer
    <3> QED BY <1>1 DEF InPlace!OffersTaken, InPlace!Links
  <2>2. /\ connected' = connected \cup {k}
        /\ in' = [i \in InPlace!Links |->
                 IF i \notin k..l THEN in[i] ELSE IF i < copier THEN chosen ELSE after]
        /\ out' = [i \in InPlace!Links |->
                 IF i \notin k..l THEN kept[i] ELSE IF i < copier THEN chosen ELSE after]
        /\ m_bReadOnly' = [i \in InPlace!Links |->
                 IF i \in k..l THEN readOnly /\ i < copier ELSE m_bReadOnly[i]]
        /\ m_mt' = [m_mt EXCEPT ![k] = t]
        /\ pending' = queue \o InPlace!Requests(k, t)
    BY Zenon DEF InPlace!ConnectLink
  <2> HIDE DEF l, offer, useOffer, chosen, readOnly, copier, after, kept
  <2> QED BY <2>1, <2>2 DEF Leaves
<1> HIDE DEF l, offer, useOffer, chosen, readOnly, copier, after, kept
<1> QED BY <1>2, <1>6, <1>7, <1>8, <1>15, <1>16, <1>17

Requests == [link : InPlace!Links, type : Types]

\* What is added to a queue of requests, and what was there.
LEMMA JoinedQueues ==
    ASSUME NEW q \in Seq(Requests), NEW r \in Seq(Requests)
    PROVE  /\ q \o r \in Seq(Requests)
           /\ \A j : Queued(q, j) \/ Queued(r, j) <=> Queued(q \o r, j)
<1>1. /\ q \o r \in Seq(Requests) /\ Len(q \o r) = Len(q) + Len(r)
      /\ \A i \in 1 .. Len(q) + Len(r) : (q \o r)[i] = IF i <= Len(q) THEN q[i] ELSE r[i - Len(q)]
  BY ConcatProperties
<1>2. Len(q) \in Nat /\ Len(r) \in Nat /\ DOMAIN q = 1..Len(q) /\ DOMAIN r = 1..Len(r)
      /\ DOMAIN (q \o r) = 1..Len(q) + Len(r)
  BY <1>1
<1>3. ASSUME NEW j, Queued(q, j) PROVE Queued(q \o r, j)
  <2>1. PICK i \in DOMAIN q : q[i].link = j
    BY <1>3 DEF Queued
  <2>2. i \in 1..Len(q) + Len(r) /\ (q \o r)[i] = q[i]
    BY <1>1, <1>2, <2>1
  <2> QED BY <1>2, <2>1, <2>2 DEF Queued
<1>4. ASSUME NEW j, Queued(r, j) PROVE Queued(q \o r, j)
  <2>1. PICK i \in DOMAIN r : r[i].link = j
    BY <1>4 DEF Queued
  <2>2. Len(q) + i \in 1..Len(q) + Len(r) /\ (q \o r)[Len(q) + i] = r[i]
    BY <1>1, <1>2, <2>1
  <2> QED BY <1>2, <2>1, <2>2 DEF Queued
<1>5. ASSUME NEW j, Queued(q \o r, j) PROVE Queued(q, j) \/ Queued(r, j)
  <2>1. PICK i \in 1..Len(q) + Len(r) : (q \o r)[i].link = j
    BY <1>2, <1>5 DEF Queued
  <2>2. CASE i <= Len(q)
    BY <1>1, <1>2, <2>1, <2>2 DEF Queued
  <2>3. CASE ~(i <= Len(q))
    <3>1. i - Len(q) \in DOMAIN r /\ (q \o r)[i] = r[i - Len(q)]
      BY <1>1, <1>2, <2>1, <2>3
    <3> QED BY <2>1, <3>1 DEF Queued
  <2> QED BY <2>2, <2>3
<1> QED BY <1>1, <1>3, <1>4, <1>5

LEMMA RestOfQueue ==
    ASSUME NEW q \in Seq(Requests), q # << >>
    PROVE  /\ Head(q) \in Requests /\ Tail(q) \in Seq(Requests)
           /\ \A j : Queued(q, j) => j = Head(q).link \/ Queued(Tail(q), j)
<1>1. /\ Head(q) = q[1] /\ Tail(q) \in Seq(Requests) /\ Len(Tail(q)) = Len(q) - 1
      /\ \A i \in 1 .. Len(Tail(q)) : Tail(q)[i] = q[i + 1]
      /\ Len(q) \in Nat /\ Len(q) > 0 /\ DOMAIN q = 1..Len(q) /\ DOMAIN Tail(q) = 1..Len(q) - 1
  BY HeadTailProperties
<1>2. q[1] \in Requests
  BY <1>1
<1>3. ASSUME NEW j, Queued(q, j), j # q[1].link PROVE Queued(Tail(q), j)
  <2>1. PICK i \in 1..Len(q) : q[i].link = j
    BY <1>1, <1>3 DEF Queued
  <2>2. i - 1 \in 1..Len(q) - 1
    BY <1>1, <1>3, <2>1
  <2>3. Tail(q)[i - 1] = q[i - 1 + 1] /\ i - 1 + 1 = i
    BY <1>1, <2>2
  <2> QED BY <1>1, <2>1, <2>2, <2>3 DEF Queued
<1> QED BY <1>1, <1>2, <1>3

LEMMA OneRequest ==
    ASSUME NEW j \in InPlace!Links, NEW t \in Types
    PROVE  << [link |-> j, type |-> t] >> \in Seq(Requests) /\ Queued(<< [link |-> j, type |-> t] >>, j)
<1> DEFINE r == [link |-> j, type |-> t]
           q == << r >>
<1>1. r \in Requests /\ r.link = j
  BY DEF Requests
<1> HIDE DEF r
<1>2. q \in Seq(Requests) /\ 1 \in DOMAIN q /\ q[1] = r
  BY <1>1
<1>3. Queued(q, j)
  BY <1>1, <1>2 DEF Queued
<1> QED BY <1>2, <1>3 DEF r

LEMMA RequestsAre ==
    ASSUME connected \subseteq InPlace!Links, NEW k \in InPlace!Links, NEW t \in Types
    PROVE  /\ InPlace!Requests(k, t) \in Seq(Requests)
           /\ k > 0 => Queued(InPlace!Requests(k, t), k - 1)
           /\ k + 1 \in connected /\ m_mt[k + 1] # t => Queued(InPlace!Requests(k, t), k + 1)
<1> DEFINE below == IF k + 1 \in connected /\ m_mt[k + 1] # t
                    THEN << [link |-> k + 1, type |-> t] >> ELSE << >>
           above == IF k > 0 THEN << [link |-> k - 1, type |-> t] >> ELSE << >>
<1>1. below \in Seq(Requests) /\ (k + 1 \in connected /\ m_mt[k + 1] # t => Queued(below, k + 1))
  <2>1. CASE k + 1 \in connected /\ m_mt[k + 1] # t
    <3>1. k + 1 \in InPlace!Links
      BY <2>1
    <3> QED BY <2>1, <3>1, OneRequest
  <2>2. CASE ~(k + 1 \in connected /\ m_mt[k + 1] # t)
    BY <2>2
  <2> QED BY <2>1, <2>2
<1>2. above \in Seq(Requests) /\ (k > 0 => Queued(above, k - 1))
  <2>1. CASE k > 0
    <3>1. k - 1 \in InPlace!Links
      BY <2>1, ChainConstants DEF InPlace!Links
    <3> QED BY <2>1, <3>1, OneRequest
  <2>2. CASE ~(k > 0)
    BY <2>2
  <2> QED BY <2>1, <2>2
<1>3. InPlace!Requests(k, t) = below \o above
  BY DEF InPlace!Requests
<1> HIDE DEF below, above
<1> QED BY <1>1, <1>2, <1>3, JoinedQueues

LEMMA LinkKeeps ==
    ASSUME InPlaceInv, NEW k \in InPlace!Links, k > 0 => k - 1 \in connected, NEW t \in Types,
           NEW queue \in Seq(Requests), \A j : Requested(j) => j = k \/ Queued(queue, j),
           InPlace!ConnectLink(k, t, queue), UNCHANGED << m_bModifiesData, supplier, sink >>,
           connects' \in Nat, connects' <= MaxConnects
    PROVE  InPlaceInv'
<1> USE ChainConstants
<1>1. PICK l \in InPlace!Links, copier \in Int, chosen \in InPlace!Allocators, after \in Given,
           readOnly \in BOOLEAN :
              /\ Reaches(k, l)
              /\ Chosen(k, l, copier, chosen, after, readOnly)
              /\ Leaves(k, t, queue, l, copier, chosen, after, readOnly)
  BY Negotiated DEF InPlaceInv
<1>2. k \in Int /\ l \in Int /\ copier \in Int /\ 0 <= k /\ k <= l /\ l <= N
  BY <1>1 DEF InPlace!Links, Reaches
<1>3. /\ \A i \in InPlace!Links : i \in k..l =>
            /\ i \in connected'
            /\ in'[i] = IF i < copier THEN chosen ELSE after
            /\ out'[i] = in'[i]
            /\ m_bReadOnly'[i] <=> readOnly /\ i < copier
      /\ \A i \in InPlace!Links : i \notin k..l =>
            /\ i \in connected' <=> i \in connected
            /\ in'[i] = in[i] /\ out'[i] = out[i] /\ m_mt'[i] = m_mt[i]
            /\ m_bReadOnly'[i] <=> m_bReadOnly[i]
      /\ \A i \in InPlace!Links : m_mt'[i] = IF i = k THEN t ELSE m_mt[i]
  <2>1. ASSUME NEW i \in InPlace!Links, i \in k..l
        PROVE  /\ i \in connected'
               /\ in'[i] = IF i < copier THEN chosen ELSE after
               /\ out'[i] = in'[i]
               /\ m_bReadOnly'[i] <=> readOnly /\ i < copier
    <3>1. i \in connected'
      <4>1. i = k \/ (k < i /\ i <= l)
        BY <1>2, <2>1
      <4> QED BY <1>1, <4>1 DEF Leaves, Reaches
    <3>2. in'[i] = (IF i < copier THEN chosen ELSE after) /\ out'[i] = in'[i]
      BY <1>1, <2>1 DEF Leaves
    <3>3. m_bReadOnly'[i] = (readOnly /\ i < copier)
      BY <1>1, <2>1, Zenon DEF Leaves
    <3> QED BY <3>1, <3>2, <3>3
  <2>2. ASSUME NEW i \in InPlace!Links, i \notin k..l
        PROVE  /\ i \in connected' <=> i \in connected
               /\ in'[i] = in[i] /\ out'[i] = out[i] /\ m_mt'[i] = m_mt[i]
               /\ m_bReadOnly'[i] <=> m_bReadOnly[i]
    BY <1>1, <1>2, <2>2 DEF Leaves, InPlaceInv, ChainTypes
  <2>3. ASSUME NEW i \in InPlace!Links PROVE m_mt'[i] = IF i = k THEN t ELSE m_mt[i]
    BY <1>1 DEF Leaves, InPlaceInv, ChainTypes
  <2> QED BY <2>1, <2>2, <2>3
<1>4. /\ pending' \in Seq(Requests)
      /\ k > 0 => Requested(k - 1)'
      /\ k + 1 \in connected /\ m_mt[k + 1] # t => Requested(k + 1)'
      /\ \A j : Requested(j) => j = k \/ Requested(j)'
  <2>1. pending' = queue \o InPlace!Requests(k, t)
    BY <1>1 DEF Leaves
  <2>2. /\ InPlace!Requests(k, t) \in Seq(Requests)
        /\ k > 0 => Queued(InPlace!Requests(k, t), k - 1)
        /\ k + 1 \in connected /\ m_mt[k + 1] # t => Queued(InPlace!Requests(k, t), k + 1)
    BY RequestsAre DEF InPlaceInv, ChainTypes
  <2>3. \A j : Requested(j)' <=> Queued(queue, j) \/ Queued(InPlace!Requests(k, t), j)
    BY <2>1, <2>2, JoinedQueues DEF Requested
  <2>4. pending' \in Seq(Requests)
    BY <2>1, <2>2, JoinedQueues
  <2> QED BY <2>2, <2>3, <2>4
<1>5. ChainTypes'
  <2>1. out' \in [InPlace!Links -> Given] /\ in' \in [InPlace!Links -> Given]
    BY <1>1 DEF Leaves, InPlaceInv, ChainTypes, Given
  <2>2. m_bReadOnly' \in [InPlace!Links -> BOOLEAN]
    <3>1. \A i \in InPlace!Links : (IF i \in k..l THEN readOnly /\ i < copier ELSE m_bReadOnly[i]) \in BOOLEAN
      BY Zenon DEF InPlaceInv, ChainTypes
    <3> QED BY <1>1, <3>1, Zenon DEF Leaves
  <2>3. m_mt' \in [InPlace!Links -> Types \cup {InPlace!NoType}]
    BY <1>1 DEF Leaves, InPlaceInv, ChainTypes
  <2>4. connected' \subseteq InPlace!Links
    BY <1>1 DEF Leaves, InPlaceInv, ChainTypes
  <2> QED BY <1>4, <2>1, <2>2, <2>3, <2>4 DEF InPlaceInv, ChainTypes, Requests
<1>6. \A i \in InPlace!Links : Untouched(i)' <=> Untouched(i)
  BY DEF Untouched
<1>7. ReadOnlyInv'
  <2> SUFFICES ASSUME NEW i \in InPlace!Links
               PROVE  /\ m_bReadOnly'[i] => Untouched(i)
                      /\ m_bReadOnly'[i] /\ i \in connected' => in'[i].by \in InPlace!ReadOnly
                      /\ ~Untouched(i) => in'[i].by \notin InPlace!ReadOnly /\ out'[i].by \notin InPlace!ReadOnly
    BY <1>6 DEF ReadOnlyInv, Untouched, InPlace!ReadOnly
  <2>1. CASE i \notin k..l
    BY <1>3, <2>1 DEF InPlaceInv, ReadOnlyInv
  <2>2. CASE i \in k..l
    <3>1. ASSUME m_bReadOnly'[i] PROVE Untouched(i) /\ in'[i].by \in InPlace!ReadOnly
      <4>1. readOnly /\ i < copier /\ in'[i] = chosen
        BY <1>3, <2>2, <3>1
      <4>2. k = 0 /\ chosen.by \in InPlace!ReadOnly
        BY <1>1, <4>1 DEF Chosen
      <4>3. ASSUME NEW f \in 1..i PROVE ~m_bModifiesData[f]
        <5>1. f \in InPlace!Filters /\ f < copier /\ f <= l
          BY <1>2, <2>2, <4>1 DEF InPlace!Filters
        <5> QED BY <1>1, <4>1, <5>1 DEF Chosen
      <4> QED BY <4>1, <4>2, <4>3 DEF Untouched
    <3>2. ASSUME ~Untouched(i) PROVE in'[i].by \notin InPlace!ReadOnly
      <4>1. ~Untouched(l)
        BY <1>1, <1>2, <2>2, <3>2, UntouchedBelow
      <4>2. CASE i < copier
        <5>1. ~readOnly
          BY <1>3, <2>2, <3>1, <3>2, <4>2
        <5> QED BY <1>1, <1>3, <2>2, <4>1, <4>2, <5>1 DEF Chosen
      <4>3. CASE ~(i < copier)
        <5>1. copier <= l /\ in'[i] = after
          BY <1>2, <1>3, <2>2, <4>3
        <5> QED BY <1>1, <5>1 DEF Chosen
      <4> QED BY <4>2, <4>3
    <3> QED BY <1>3, <2>2, <3>1, <3>2
  <2> QED BY <2>1, <2>2
<1>8. LinksInv'
  <2>1. ASSUME NEW i \in InPlace!Links
        PROVE  /\ i \in connected' => out'[i] = in'[i] /\ in'[i] # InPlace!None
               /\ i \notin connected' => out'[i] = InPlace!None
    <3>1. CASE i \notin k..l
      BY <1>3, <3>1 DEF InPlaceInv, LinksInv
    <3>2. CASE i \in k..l
      <4>1. CASE i < copier
        BY <1>1, <1>3, <3>2, <4>1 DEF Chosen
      <4>2. CASE ~(i < copier)
        <5>1. copier <= l
          BY <1>2, <3>2, <4>2
        <5> QED BY <1>1, <1>3, <3>2, <4>2, <5>1 DEF Chosen
      <4> QED BY <1>3, <3>2, <4>1, <4>2
    <3> QED BY <3>1, <3>2
  <2>2. ASSUME 0 \in connected', supplier' = "C" PROVE in'[0].by = "C"
    <3>0. 0 \in InPlace!Links
      BY DEF InPlace!Links
    <3>1. CASE k = 0
      <4>1. 0 \in k..l
        BY <1>2, <3>1
      <4>2. 0 < copier
        BY <1>1, <3>1 DEF Chosen
      <4>3. in'[0] = chosen
        BY <1>3, <3>0, <4>1, <4>2
      <4> QED BY <1>1, <2>2, <3>1, <4>3 DEF Chosen
    <3>2. CASE k # 0
      <4>1. 0 \notin k..l
        BY <1>2, <3>2
      <4> QED BY <1>3, <2>2, <3>0, <4>1 DEF InPlaceInv, LinksInv
    <3> QED BY <3>1, <3>2
  <2> QED BY <2>1, <2>2 DEF LinksInv, InPlace!None
<1>9. TypesInv'
  <2> SUFFICES ASSUME NEW f \in InPlace!Filters, f - 1 \in connected', f \in connected',
                      m_mt'[f - 1] # m_mt'[f]
               PROVE  Requested(f - 1)' \/ Requested(f)'
    BY DEF TypesInv
  <2>1. f \in Int /\ f - 1 \in InPlace!Links /\ f \in InPlace!Links
    BY DEF InPlace!Filters, InPlace!Links
  <2>2. CASE f = k
    BY <1>4, <2>1, <2>2 DEF InPlace!Filters
  <2>3. CASE f - 1 = k
    <3>1. f = k + 1 /\ f \in connected /\ m_mt'[f] = m_mt[f] /\ m_mt'[k] = t
      BY <1>1, <1>2, <1>3, <2>1, <2>3 DEF Leaves
    <3> QED BY <1>4, <2>3, <3>1
  <2>4. CASE f # k /\ f - 1 # k
    <3>1. f \in connected /\ f - 1 \in connected /\ m_mt[f - 1] # m_mt[f]
      BY <1>1, <1>3, <2>1, <2>4 DEF Leaves
    <3>2. Requested(f - 1) \/ Requested(f)
      BY <3>1 DEF InPlaceInv, TypesInv
    <3> QED BY <1>4, <2>4, <3>2
  <2> QED BY <2>2, <2>3, <2>4
<1>10. ASSUME NEW f \in InPlace!Filters, f - 1 \in connected', f \in connected', in'[f - 1] # out'[f]
       PROVE  Requested(f - 1)' \/ (m_bReadOnly'[f - 1] /\ m_bModifiesData[f])
  <2>1. f \in Int /\ f - 1 \in InPlace!Links /\ f \in InPlace!Links
    BY DEF InPlace!Filters, InPlace!Links
  <2>2. CASE f = k
    BY <1>4, <2>1, <2>2 DEF InPlace!Filters
  <2>3. CASE f - 1 \in k..l
    <3>1. f \in k..l
      <4>1. f # l + 1
        <5>1. l + 1 \notin connected /\ l + 1 # k
          BY <1>1, <1>2 DEF Reaches
        <5> QED BY <1>1, <1>10, <5>1 DEF Leaves
      <4> QED BY <1>2, <2>1, <2>3, <4>1
    <3>2. f = copier
      <4>1. CASE f < copier
        BY <1>2, <1>3, <1>10, <2>1, <2>3, <3>1, <4>1
      <4>2. CASE ~(f - 1 < copier)
        BY <1>2, <1>3, <1>10, <2>1, <2>3, <3>1, <4>2
      <4> QED BY <1>2, <2>1, <4>1, <4>2
    <3>3. readOnly /\ m_bModifiesData[f]
      BY <1>1, <1>2, <3>1, <3>2 DEF Chosen
    <3> QED BY <1>2, <1>3, <2>1, <2>3, <3>2, <3>3
  <2>4. CASE f # k /\ f - 1 \notin k..l
    <3>1. f \notin k..l
      BY <1>2, <2>1, <2>4
    <3>2. f \in connected /\ f - 1 \in connected /\ in[f - 1] # out[f]
      BY <1>3, <1>10, <2>1, <2>4, <3>1
    <3>3. Requested(f - 1) \/ (m_bReadOnly[f - 1] /\ m_bModifiesData[f])
      BY <3>2 DEF InPlaceInv, CopiersInv, InPlace!UsingDifferentAllocators
    <3>4. f - 1 # k
      BY <1>2, <2>4
    <3> QED BY <1>3, <1>4, <2>1, <2>4, <3>3, <3>4
  <2> QED BY <2>2, <2>3, <2>4
<1>11. ASSUME connected' = InPlace!Links, supplier # "A", ~(supplier = "B" /\ sink = "F"),
              NEW i \in InPlace!Links, m_bReadOnly'[i]
       PROVE  \E j \in i..N : Requested(j)'
  <2>1. l = N
    <3>1. l + 1 \notin InPlace!Links
      BY <1>1, <1>2, <1>11 DEF Reaches, Leaves
    <3> QED BY <1>2, <3>1 DEF InPlace!Links
  <2>2. ~readOnly
    BY <1>1, <1>11 DEF Chosen, InPlace!ReadOnly
  <2>3. i < k /\ k > 0
    BY <1>2, <1>3, <1>11, <2>1, <2>2 DEF InPlace!Links
  <2>4. k - 1 \in i..N
    BY <1>2, <2>3 DEF InPlace!Links
  <2> QED BY <1>4, <2>3, <2>4
<1>12. CopiersInv'
  BY <1>10, <1>11 DEF CopiersInv, InPlace!UsingDifferentAllocators, InPlace!Complete
<1> QED BY <1>5, <1>7, <1>8, <1>9, <1>12 DEF InPlaceInv

\* Breaking link k.
LEMMA UnlinkKeeps ==
    ASSUME InPlaceInv, NEW k \in InPlace!Links, connected' = connected \ {k},
           out' = [out EXCEPT ![k] = InPlace!None], in' = [in EXCEPT ![k] = InPlace!None],
           m_mt' = [m_mt EXCEPT ![k] = InPlace!NoType], UNCHANGED << m_bModifiesData, m_bReadOnly >>,
           supplier' \in InPlace!Sources, k # 0 => supplier' = supplier, sink' \in InPlace!Sinks,
           pending' \in Seq(Requests), \A j : Requested(j) => j = k \/ Requested(j)',
           connects' \in Nat, connects' <= MaxConnects
    PROVE  InPlaceInv'
<1> USE ChainConstants
<1>1. \A i \in InPlace!Links :
         /\ in'[i] = IF i = k THEN InPlace!None ELSE in[i]
         /\ out'[i] = IF i = k THEN InPlace!None ELSE out[i]
         /\ m_mt'[i] = IF i = k THEN InPlace!NoType ELSE m_mt[i]
  BY DEF InPlaceInv, ChainTypes
<1>2. ChainTypes'
  BY DEF InPlaceInv, ChainTypes, Given, Requests
<1>3. \A i \in InPlace!Links : Untouched(i)' <=> Untouched(i)
  BY DEF Untouched
<1>4. InPlace!None.by \notin InPlace!ReadOnly
  BY DEF InPlace!None, InPlace!ReadOnly
<1>5. ReadOnlyInv'
  <2> SUFFICES ASSUME NEW i \in InPlace!Links
               PROVE  /\ m_bReadOnly[i] => Untouched(i)
                      /\ m_bReadOnly[i] /\ i \in connected' => in'[i].by \in InPlace!ReadOnly
                      /\ ~Untouched(i) => in'[i].by \notin InPlace!ReadOnly /\ out'[i].by \notin InPlace!ReadOnly
    BY <1>3 DEF ReadOnlyInv, Untouched, InPlace!ReadOnly
  <2> QED BY <1>1, <1>4 DEF InPlaceInv, ReadOnlyInv
<1>6. LinksInv'
  <2>1. ASSUME NEW i \in InPlace!Links
        PROVE  /\ i \in connected' => out'[i] = in'[i] /\ in'[i] # InPlace!None
               /\ i \notin connected' => out'[i] = InPlace!None
    BY <1>1 DEF InPlaceInv, LinksInv
  <2>2. ASSUME 0 \in connected', supplier' = "C" PROVE in'[0].by = "C"
    <3>1. 0 \in InPlace!Links /\ k # 0
      BY <2>2 DEF InPlace!Links
    <3> QED BY <1>1, <2>2, <3>1 DEF InPlaceInv, LinksInv
  <2> QED BY <2>1, <2>2 DEF LinksInv, InPlace!None
<1>7. TypesInv'
  <2> SUFFICES ASSUME NEW f \in InPlace!Filters, f - 1 \in connected', f \in connected',
                      m_mt'[f - 1] # m_mt'[f]
               PROVE  Requested(f - 1)' \/ Requested(f)'
    BY DEF TypesInv
  <2>1. f - 1 \in InPlace!Links /\ f \in InPlace!Links /\ f # k /\ f - 1 # k
    BY DEF InPlace!Filters, InPlace!Links
  <2> QED BY <1>1, <2>1 DEF InPlaceInv, TypesInv
<1>8. ASSUME NEW f \in InPlace!Filters, f - 1 \in connected', f \in connected', in'[f - 1] # out'[f]
      PROVE  Requested(f - 1)' \/ (m_bReadOnly'[f - 1] /\ m_bModifiesData[f])
  <2>1. f - 1 \in InPlace!Links /\ f \in InPlace!Links /\ f # k /\ f - 1 # k
    BY <1>8 DEF InPlace!Filters, InPlace!Links
  <2> QED BY <1>1, <1>8, <2>1 DEF InPlaceInv, CopiersInv, InPlace!UsingDifferentAllocators
<1>9. connected' # InPlace!Links
  OBVIOUS
<1>10. CopiersInv'
  BY <1>8, <1>9 DEF CopiersInv, InPlace!UsingDifferentAllocators, InPlace!Complete
<1> QED BY <1>2, <1>5, <1>6, <1>7, <1>10 DEF InPlaceInv

\* A link that is to be reconnected, but is not connected any more.
LEMMA SkipKeeps ==
    ASSUME InPlaceInv, NEW k \in InPlace!Links, k \notin connected,
           UNCHANGED << m_bModifiesData, supplier, sink, connected, out, in, m_bReadOnly, m_mt, connects >>,
           pending' \in Seq(Requests), \A j : Requested(j) => j = k \/ Requested(j)'
    PROVE  InPlaceInv'
<1> USE ChainConstants
<1>1. ChainTypes' /\ ReadOnlyInv' /\ LinksInv'
  BY DEF InPlaceInv, ChainTypes, ReadOnlyInv, LinksInv, Untouched, Requests
<1>2. TypesInv'
  <2> SUFFICES ASSUME NEW f \in InPlace!Filters, f - 1 \in connected, f \in connected,
                      m_mt[f - 1] # m_mt[f]
               PROVE  Requested(f - 1)' \/ Requested(f)'
    BY DEF TypesInv
  <2> QED BY DEF InPlaceInv, TypesInv
<1>3. CopiersInv'
  <2>1. ASSUME NEW f \in InPlace!Filters, f - 1 \in connected, f \in connected, in[f - 1] # out[f]
        PROVE  Requested(f - 1)' \/ (m_bReadOnly[f - 1] /\ m_bModifiesData[f])
    BY <2>1 DEF InPlaceInv, CopiersInv, InPlace!UsingDifferentAllocators
  <2>2. connected # InPlace!Links
    OBVIOUS
  <2> QED BY <2>1, <2>2 DEF CopiersInv, InPlace!UsingDifferentAllocators, InPlace!Complete
<1> QED BY <1>1, <1>2, <1>3 DEF InPlaceInv

LEMMA InPlaceStep == InPlaceInv /\ InPlace!Next => InPlaceInv'
<1> SUFFICES ASSUME InPlaceInv, InPlace!Next PROVE InPlaceInv'
  OBVIOUS
<1>1. pending \in Seq(Requests) /\ connects \in Nat /\ connects <= MaxConnects /\ connected \subseteq InPlace!Links
  BY DEF InPlaceInv, ChainTypes, Requests
<1>2. ASSUME NEW k \in InPlace!Links, InPlace!Disconnect(k) PROVE InPlaceInv'
  <2>1. supplier' \in InPlace!Sources /\ (k # 0 => supplier' = supplier) /\ sink' \in InPlace!Sinks
    BY <1>2 DEF InPlace!Disconnect, InPlaceInv, ChainTypes
  <2>2. \A j : Requested(j) => Requested(j)'
    BY <1>2 DEF InPlace!Disconnect, Requested
  <2> QED BY <1>1, <1>2, <2>1, <2>2, UnlinkKeeps DEF InPlace!Disconnect
<1>3. ASSUME NEW k \in InPlace!Links, NEW t \in Types, InPlace!Connect(k, t) PROVE InPlaceInv'
  <2>1. InPlace!ConnectLink(k, t, pending) /\ (k > 0 => k - 1 \in connected)
        /\ UNCHANGED << m_bModifiesData, supplier, sink >>
        /\ connects < MaxConnects /\ connects' = connects + 1
    BY <1>3 DEF InPlace!Connect
  <2>2. connects' \in Nat /\ connects' <= MaxConnects
    BY <1>1, <2>1, ChainConstants
  <2>3. \A j : Requested(j) => Queued(pending, j)
    BY DEF Requested
  <2> QED BY <1>1, <2>1, <2>2, <2>3, LinkKeeps
<1>4. ASSUME InPlace!Reconnect PROVE InPlaceInv'
  <2> DEFINE k == Head(pending).link
             t == Head(pending).type
  <2>1. pending # << >> /\ UNCHANGED << m_bModifiesData, supplier, sink, connects >>
    BY <1>4 DEF InPlace!Reconnect
  <2>2. Head(pending) \in Requests /\ Tail(pending) \in Seq(Requests)
        /\ \A j : Requested(j) => j = k \/ Queued(Tail(pending), j)
    BY <1>1, <2>1, RestOfQueue DEF Requested
  <2>3. k \in InPlace!Links /\ t \in Types
    BY <2>2 DEF Requests
  <2>4. CASE (k > 0 => k - 1 \in connected) /\ InPlace!ConnectLink(k, t, Tail(pending))
    <3> HIDE DEF k, t
    <3> QED BY <1>1, <2>1, <2>2, <2>3, <2>4, LinkKeeps
  <2>5. CASE k \notin connected /\ pending' = Tail(pending)
             /\ UNCHANGED << connected, out, in, m_bReadOnly, m_mt >>
    <3>1. \A j : Requested(j) => j = k \/ Requested(j)'
      BY <2>2, <2>5 DEF Requested
    <3> HIDE DEF k
    <3> QED BY <2>1, <2>2, <2>3, <2>5, <3>1, SkipKeeps
  <2>6. CASE /\ k \in connected /\ k > 0
             /\ pending' = Tail(pending) /\ connected' = connected \ {k}
             /\ out' = [out EXCEPT ![k] = InPlace!None] /\ in' = [in EXCEPT ![k] = InPlace!None]
             /\ m_mt' = [m_mt EXCEPT ![k] = InPlace!NoType] /\ UNCHANGED m_bReadOnly
    <3>1. \A j : Requested(j) => j = k \/ Requested(j)'
      BY <2>2, <2>6 DEF Requested
    <3>2. supplier \in InPlace!Sources /\ sink \in InPlace!Sinks
      BY DEF InPlaceInv, ChainTypes
    <3> HIDE DEF k
    <3> QED BY <1>1, <2>1, <2>2, <2>3, <2>6, <3>1, <3>2, UnlinkKeeps
  <2> QED BY <1>4, <2>4, <2>5, <2>6 DEF InPlace!Reconnect
<1> QED BY <1>2, <1>3, <1>4 DEF InPlace!Next

LEMMA InPlaceStays == InPlaceInv /\ UNCHANGED inPlaceVars => InPlaceInv'
BY DEF inPlaceVars, InPlaceInv, ChainTypes, ReadOnlyInv, LinksInv, TypesInv, CopiersInv, Untouched,
       Requested, InPlace!UsingDifferentAllocators, InPlace!Complete

LEMMA InPlaceInit == InPlace!Init => InPlaceInv
<1> SUFFICES ASSUME InPlace!Init PROVE InPlaceInv
  OBVIOUS
<1> USE ChainConstants DEF InPlace!Init
<1>1. ChainTypes
  BY DEF ChainTypes, Given
<1>2. InPlace!None.by \notin InPlace!ReadOnly
  BY DEF InPlace!None, InPlace!ReadOnly
<1>3. ReadOnlyInv
  BY <1>2 DEF ReadOnlyInv
<1>4. LinksInv
  BY DEF LinksInv
<1>5. TypesInv /\ CopiersInv
  BY DEF TypesInv, CopiersInv, InPlace!Complete, InPlace!Links
<1> QED BY <1>1, <1>3, <1>4, <1>5 DEF InPlaceInv

\* What a chain at rest agrees on, with the filters that copy.
ChainOf(copiers) ==
    /\ \A k \in InPlace!Links : m_mt[k] = m_mt[0]
    /\ supplier = "C" => in[0].by = "C"
    /\ supplier # "A" /\ ~(supplier = "B" /\ sink = "F") => copiers = {}
    /\ copiers \subseteq {f \in InPlace!Filters : m_bModifiesData[f]}
    /\ \A f, g \in copiers : f = g

LEMMA InPlaceHolds == InPlaceInv => InPlace!TypeOK /\ InPlace!AllocatorsSound /\ InPlace!ChainAgrees
<1> SUFFICES ASSUME InPlaceInv
             PROVE  InPlace!TypeOK /\ InPlace!AllocatorsSound /\ InPlace!ChainAgrees
  OBVIOUS
<1> USE ChainConstants
<1>1. \A f \in InPlace!Filters : f \in Int /\ f > 0 /\ f - 1 \in InPlace!Links /\ f \in InPlace!Links
  BY DEF InPlace!Filters, InPlace!Links
<1>2. InPlace!TypeOK
  <2>1. ASSUME NEW i \in DOMAIN pending
        PROVE  pending[i].link \in InPlace!Links /\ pending[i].type \in Types
    <3> DEFINE R == [link : InPlace!Links, type : Types]
    <3>1. pending \in Seq(R)
      BY DEF InPlaceInv, ChainTypes
    <3>2. i \in 1..Len(pending)
      <4> HIDE DEF R
      <4> QED BY <2>1, <3>1
    <3>3. pending[i] \in R
      <4> HIDE DEF R
      <4> QED BY <3>1, <3>2, ElementOfSeq
    <3> QED BY <3>3
  <2>2. \A k \in InPlace!Links : /\ {out[k], in[k]} \subseteq InPlace!Allocators \cup {InPlace!None}
                                 /\ m_bReadOnly[k] \in BOOLEAN
                                 /\ m_mt[k] \in Types \cup {InPlace!NoType}
    BY DEF InPlaceInv, ChainTypes, Given
  <2> QED BY <2>1, <2>2 DEF InPlaceInv, ChainTypes, InPlace!TypeOK
<1>3. InPlace!AllocatorsSound
  <2>1. ASSUME NEW f \in InPlace!Filters, f - 1 \in connected, m_bModifiesData[f], m_bReadOnly[f - 1]
        PROVE  in[f - 1] # out[f]
    <3>1. ~Untouched(f)
      BY <1>1, <2>1 DEF Untouched
    <3>2. in[f - 1].by \in InPlace!ReadOnly /\ out[f].by \notin InPlace!ReadOnly
      BY <1>1, <2>1, <3>1 DEF InPlaceInv, ReadOnlyInv
    <3> QED BY <3>2
  <2> QED BY <2>1 DEF InPlaceInv, LinksInv, InPlace!AllocatorsSound,
     InPlace!UsingDifferentAllocators
<1>4. ASSUME pending = << >>, connected = InPlace!Links
      PROVE  ChainOf({f \in InPlace!Filters : InPlace!UsingDifferentAllocators(f)})
  <2>1. \A j : ~Requested(j)
    BY <1>4 DEF Requested, Queued
  <2>2. \A k \in InPlace!Links : m_mt[k] = m_mt[0]
    <3> DEFINE others == { k \in InPlace!Links : m_mt[k] # m_mt[0] }
    <3>1. ASSUME others # {} PROVE FALSE
      <4>1. others \subseteq Nat
        BY DEF InPlace!Links
      <4>2. PICK f \in others : \A k \in others : f <= k
        BY <3>1, <4>1, Least
      <4>3. f \in InPlace!Filters /\ f - 1 \notin others /\ f - 1 \in InPlace!Links
        BY <4>2 DEF InPlace!Links, InPlace!Filters
      <4>4. m_mt[f - 1] # m_mt[f]
        BY <4>3
      <4> QED BY <1>4, <2>1, <4>3, <4>4 DEF InPlaceInv, TypesInv
    <3> QED BY <3>1
  <2> DEFINE copiers == {f \in InPlace!Filters : InPlace!UsingDifferentAllocators(f)}
  <2>3. \A f \in copiers : m_bReadOnly[f - 1] /\ m_bModifiesData[f]
    BY <1>1, <1>4, <2>1 DEF InPlaceInv, CopiersInv
  <2>4. supplier = "C" => in[0].by = "C"
    BY <1>4 DEF InPlaceInv, LinksInv, InPlace!Links
  <2>5. ASSUME supplier # "A", ~(supplier = "B" /\ sink = "F"), NEW f \in copiers PROVE FALSE
    BY <1>1, <1>4, <2>1, <2>3, <2>5 DEF InPlaceInv, CopiersInv, InPlace!Complete
  <2>6. ASSUME NEW f \in copiers, NEW g \in copiers, f < g PROVE FALSE
    <3>1. Untouched(g - 1)
      BY <1>1, <2>3 DEF InPlaceInv, ReadOnlyInv
    <3>2. f \in 1..g - 1
      BY <1>1, <2>6
    <3> QED BY <2>3, <3>1, <3>2 DEF Untouched
  <2>7. \A f, g \in copiers : f = g
    BY <1>1, <2>6
  <2>8. copiers \subseteq {f \in InPlace!Filters : m_bModifiesData[f]}
    BY <2>3
  <2>9. supplier # "A" /\ ~(supplier = "B" /\ sink = "F") => copiers = {}
    BY <2>5
  <2> HIDE DEF copiers
  <2>10. ChainOf(copiers)
    BY <2>2, <2>4, <2>7, <2>8, <2>9, Zenon DEF ChainOf
  <2> QED BY <2>10 DEF copiers
<1>5. InPlace!ChainAgrees
  <2> DEFINE S == {f \in InPlace!Filters : InPlace!UsingDifferentAllocators(f)}
  <2>1. InPlace!AtRest /\ InPlace!Complete => ChainOf(S)
    BY <1>4 DEF InPlace!AtRest, InPlace!Complete
  <2>2. InPlace!ChainAgrees <=> (InPlace!AtRest /\ InPlace!Complete => ChainOf(S))
    BY DEF InPlace!ChainAgrees, ChainOf
  <2> QED BY <2>1, <2>2
<1> QED BY <1>2, <1>3, <1>5

-----------------------------------------------------------------------------
(* The windows that show the pictures, and their threads (BaseWindow). *)

\* Every call there may be.
KnownCalls ==
    [fn : {"create", "realise", "prepare", "show", "done", "destroy"}, win : Shown,
     at : {"create", "lock", "hdc", "broadcast", "memdc", "redraw", "remove", "unset", "make",
           "window", "set", "sent", "test", "clear", "hide", "uninit", "destroy"},
     locks : SUBSET {"window", "palette"},
     message : {"none", "posted", "pending", "taken", "answered"}, to : Shown,
     what : {"none", "realise", "changed", "show", "hide", "activate", "destroy"},
     todo : SUBSET Shown, redraw : BOOLEAN, from : {NoSender} \cup Showing!Places]

WindowTypes ==
    /\ m_hwnd \in [Shown -> BOOLEAN] /\ m_hPalette \in [Shown -> BOOLEAN]
    /\ m_bActivated \in [Shown -> BOOLEAN] /\ window \in [Shown -> BOOLEAN]
    /\ visible \in [Shown -> BOOLEAN] /\ deleted \in [Shown -> BOOLEAN]

PostedInv ==
    /\ events \in Nat /\ events <= MaxEvents /\ calls \in Nat
    /\ posted \in [Shown -> Nat] /\ \A w \in Shown : posted[w] <= events

\* How far each function may be, and what it sends.
Sensible(c) ==
    /\ c.fn = "create" => c.at = "create"
    /\ c.fn = "realise" => c.at \in {"lock", "hdc", "broadcast", "memdc", "redraw"}
    /\ c.fn = "prepare" => c.at \in {"remove", "unset", "make", "window", "set", "sent"}
    /\ c.fn = "show" => c.at = "sent"
    /\ c.fn = "done" => c.at \in {"test", "clear"}
    /\ c.fn = "destroy" => c.at \in {"hide", "uninit", "destroy"}
    /\ c.message # "none" => c.at \in {"broadcast", "sent", "clear"}
    /\ c.what = "destroy" => c.fn = "done" /\ c.to = c.win
    /\ c.fn = "done" /\ c.message # "none" => c.what = "destroy"
    /\ c.message = "posted" => c.fn = "done"

\* Who handles the message of the call at a place.
Handled(s, u, d) == \E t \in Users : \E i \in DOMAIN s[t] : s[t][i].from = <<u, d>>

\* A call that handles a message: its sender waits for it.
Answers(s, c) ==
    c.from # NoSender =>
       \E u \in Users : \E d \in DOMAIN s[u] :
          /\ c.from = <<u, d>>
          /\ s[u][d].message = "taken" /\ s[u][d].to = c.win
          /\ s[u][d].what = "destroy" <=> c.fn = "destroy"

\* The stacks: every message is handled once.
StackSound(s) ==
    /\ s \in [Users -> Seq(KnownCalls)]
    /\ \A t \in Users : \A i \in DOMAIN s[t] : Sensible(s[t][i]) /\ Answers(s, s[t][i])
    /\ \A t, u \in Users : \A i \in DOMAIN s[t], j \in DOMAIN s[u] :
         s[t][i].from = s[u][j].from /\ s[t][i].from # NoSender => t = u /\ i = j

\* What each call may count on, if windows are destroyed by posted messages: hwnd is m_hwnd,
\* made are the windows of the system.
Stands(t, i, c, hwnd, made) ==
    /\ c.fn \in {"realise", "prepare", "show"} => hwnd[c.win]
    /\ c.fn = "create" => made[c.win] /\ ~hwnd[c.win]
    /\ c.fn = "done" =>
         /\ t # Owner[c.win] /\ c.message # "pending"
         /\ c.at = "test" <=> c.message = "none"
         /\ c.message \in {"none", "posted"} => hwnd[c.win]
         /\ c.message = "answered" => ~hwnd[c.win]
    /\ c.fn = "destroy" =>
         /\ t = Owner[c.win] /\ i = 1
         /\ hwnd[c.win] <=> c.at # "destroy"

\* Which other call there may be for the window of a call.
Besides(c, u, e) ==
    c.win = e.win =>
      /\ c.fn # "create"
      /\ c.fn \in {"done", "destroy"} =>
            /\ e.fn \in {"realise", "done", "destroy"}
            /\ e.fn = "realise" => u = Owner[c.win]
      /\ c.fn = "done" => e.fn # "done"
      /\ c.fn = "done" /\ e.fn = "destroy" => c.message = "taken" /\ e.from # NoSender

Together(s) ==
    \A t, u \in Users : \A i \in DOMAIN s[t], j \in DOMAIN s[u] :
        t # u \/ i # j => Besides(s[t][i], u, s[u][j])

Standing(s, hwnd, made, gone) ==
    /\ \A w \in Shown : hwnd[w] => made[w] /\ ~gone[w]
    /\ \A t \in Users : \A i \in DOMAIN s[t] :
          Stands(t, i, s[t][i], hwnd, made) /\ ~gone[s[t][i].win]
    /\ Together(s)

\* What changes with the stacks.
StacksInv ==
    /\ StackSound(stack) /\ m_bDoPostToDestroy \in BOOLEAN
    /\ m_bDoPostToDestroy => Standing(stack, m_hwnd, window, deleted)

WindowInv == WindowTypes /\ PostedInv /\ StacksInv

LEMMA WindowConstants ==
    /\ Owner \in [Shown -> Users] /\ Destroyer \in [Shown -> Users]
    /\ Callers \in [Shown -> SUBSET Users] /\ Renderers \in [Shown -> SUBSET Users]
    /\ NoSender \notin Users \X Nat
    /\ MaxCalls \in Nat /\ MaxEvents \in Nat
BY TransformsAssumption DEF Showing!WindowAssumption

\* One call goes on, or is told how its message fares.
Replaced(s2, s, u, d, e) ==
    /\ s2 \in [Users -> Seq(KnownCalls)]
    /\ \A t \in Users : DOMAIN s2[t] = DOMAIN s[t]
    /\ s2[u][d] = e
    /\ \A t \in Users : \A i \in DOMAIN s[t] : t # u \/ i # d => s2[t][i] = s[t][i]

LEMMA ReplacedIs ==
    ASSUME NEW s, StackSound(s), NEW u \in Users, NEW d \in DOMAIN s[u], NEW e \in KnownCalls
    PROVE  Replaced([s EXCEPT ![u][d] = e], s, u, d, e)
<1>1. s \in [Users -> Seq(KnownCalls)]
  BY DEF StackSound
<1>2. [s EXCEPT ![u][d] = e] = [s EXCEPT ![u] = [s[u] EXCEPT ![d] = e]]
  BY <1>1
<1>3. [s[u] EXCEPT ![d] = e] \in Seq(KnownCalls)
  BY <1>1
<1>4. /\ DOMAIN [s[u] EXCEPT ![d] = e] = DOMAIN s[u] /\ [s[u] EXCEPT ![d] = e][d] = e
      /\ \A i \in DOMAIN s[u] : i # d => [s[u] EXCEPT ![d] = e][i] = s[u][i]
  BY <1>1
<1> QED BY <1>1, <1>2, <1>3, <1>4 DEF Replaced

LEMMA ReplaceSound ==
    ASSUME NEW s, StackSound(s), NEW u \in Users, NEW d \in DOMAIN s[u], NEW e \in KnownCalls,
           Sensible(e), e.fn = s[u][d].fn, e.win = s[u][d].win, e.from = s[u][d].from,
           ~Handled(s, u, d)
    PROVE  StackSound([s EXCEPT ![u][d] = e])
<1> DEFINE s2 == [s EXCEPT ![u][d] = e]
<1>0. s2 = [s EXCEPT ![u][d] = e]
  OBVIOUS
<1> HIDE DEF s2
<1>1. /\ s2 \in [Users -> Seq(KnownCalls)]
      /\ \A t \in Users : DOMAIN s2[t] = DOMAIN s[t]
      /\ s2[u][d] = e
      /\ \A t \in Users : \A i \in DOMAIN s[t] : t # u \/ i # d => s2[t][i] = s[t][i]
  <2>1. Replaced(s2, s, u, d, e)
    BY <1>0, ReplacedIs
  <2> QED BY <2>1 DEF Replaced
<1>2. \A t \in Users : \A i \in DOMAIN s[t] :
         s2[t][i].from = s[t][i].from /\ s2[t][i].fn = s[t][i].fn /\ s2[t][i].win = s[t][i].win
  BY <1>1
<1>3. ASSUME NEW t \in Users, NEW i \in DOMAIN s[t] PROVE Sensible(s2[t][i]) /\ Answers(s2, s2[t][i])
  <2>1. Sensible(s2[t][i])
    BY <1>1, <1>3 DEF StackSound
  <2>2. ASSUME s2[t][i].from # NoSender PROVE Answers(s2, s2[t][i])
    <3>0. PICK v \in Users : \E j \in DOMAIN s[v] :
             /\ s[t][i].from = <<v, j>>
             /\ s[v][j].message = "taken" /\ s[v][j].to = s[t][i].win
             /\ s[v][j].what = "destroy" <=> s[t][i].fn = "destroy"
      BY <1>2, <1>3, <2>2 DEF StackSound, Answers
    <3>1. PICK j \in DOMAIN s[v] :
             /\ s[t][i].from = <<v, j>>
             /\ s[v][j].message = "taken" /\ s[v][j].to = s[t][i].win
             /\ s[v][j].what = "destroy" <=> s[t][i].fn = "destroy"
      BY <3>0
    <3>2. v # u \/ j # d
      BY <1>3, <3>1 DEF Handled
    <3>3. s2[v][j] = s[v][j] /\ j \in DOMAIN s2[v]
      BY <1>1, <3>1, <3>2
    <3>4. s2[t][i].from = <<v, j>> /\ s2[t][i].win = s[t][i].win /\ s2[t][i].fn = s[t][i].fn
      BY <1>2, <1>3, <3>1
    <3> QED BY <3>1, <3>3, <3>4 DEF Answers
  <2> QED BY <2>1, <2>2 DEF Answers
<1>4. \A t, v \in Users : \A i \in DOMAIN s[t], j \in DOMAIN s[v] :
         s2[t][i].from = s2[v][j].from /\ s2[t][i].from # NoSender => t = v /\ i = j
  BY <1>2 DEF StackSound
<1>5. StackSound(s2)
  <2> \A t \in Users : \A i \in DOMAIN s2[t] : Sensible(s2[t][i]) /\ Answers(s2, s2[t][i])
    BY <1>1, <1>3
  <2> \A t, v \in Users : \A i \in DOMAIN s2[t], j \in DOMAIN s2[v] :
         s2[t][i].from = s2[v][j].from /\ s2[t][i].from # NoSender => t = v /\ i = j
    BY <1>1, <1>4
  <2> QED BY <1>1 DEF StackSound
<1> QED BY <1>0, <1>5

LEMMA ReplaceTogether ==
    ASSUME NEW s, StackSound(s), NEW u \in Users, NEW d \in DOMAIN s[u], NEW e \in KnownCalls,
           e.fn = s[u][d].fn, e.win = s[u][d].win, e.from = s[u][d].from, Together(s),
           e.fn = "done" /\ e.message # "taken" =>
              \/ s[u][d].message # "taken"
              \/ \A t \in Users : \A i \in DOMAIN s[t] : s[t][i].fn = "destroy" => s[t][i].win # e.win
    PROVE  Together([s EXCEPT ![u][d] = e])
<1> DEFINE s2 == [s EXCEPT ![u][d] = e]
<1>0. s2 = [s EXCEPT ![u][d] = e]
  OBVIOUS
<1> HIDE DEF s2
<1>1. /\ s2 \in [Users -> Seq(KnownCalls)]
      /\ \A t \in Users : DOMAIN s2[t] = DOMAIN s[t]
      /\ s2[u][d] = e
      /\ \A t \in Users : \A i \in DOMAIN s[t] : t # u \/ i # d => s2[t][i] = s[t][i]
  <2>1. Replaced(s2, s, u, d, e)
    BY <1>0, ReplacedIs
  <2> QED BY <2>1 DEF Replaced
<1>3. ASSUME NEW t \in Users, NEW v \in Users, NEW i \in DOMAIN s[t], NEW j \in DOMAIN s[v], t # v \/ i # j
      PROVE  Besides(s2[t][i], v, s2[v][j])
  <2>1. Besides(s[t][i], v, s[v][j])
    BY <1>3 DEF Together
  <2>2. CASE t = u /\ i = d
    <3>1. s2[t][i] = e /\ s2[v][j] = s[v][j]
      BY <1>1, <1>3, <2>2
    <3>2. e.fn = s[t][i].fn /\ e.win = s[t][i].win
      BY <2>2
    <3>3. e.fn = "done" /\ s[v][j].fn = "destroy" /\ s[v][j].win = e.win => e.message = "taken"
      BY <2>1, <2>2, <3>2 DEF Besides
    <3> QED BY <2>1, <3>1, <3>2, <3>3 DEF Besides
  <2>3. CASE v = u /\ j = d
    <3>1. s2[t][i] = s[t][i] /\ s2[v][j] = e
      BY <1>1, <1>3, <2>3
    <3>2. e.fn = s[v][j].fn /\ e.win = s[v][j].win /\ e.from = s[v][j].from
      BY <2>3
    <3> QED BY <2>1, <3>1, <3>2 DEF Besides
  <2>4. CASE ~(t = u /\ i = d) /\ ~(v = u /\ j = d)
    <3>1. s2[t][i] = s[t][i] /\ s2[v][j] = s[v][j]
      BY <1>1, <1>3, <2>4
    <3> QED BY <2>1, <3>1
  <2> QED BY <2>2, <2>3, <2>4
<1>4. Together(s2)
  BY <1>1, <1>3 DEF Together
<1> QED BY <1>0, <1>4

LEMMA ReplaceStands ==
    ASSUME NEW s, StackSound(s), NEW u \in Users, NEW d \in DOMAIN s[u], NEW e \in KnownCalls,
           e.fn = s[u][d].fn, e.win = s[u][d].win, e.from = s[u][d].from,
           NEW hwnd, NEW made, NEW gone, Standing(s, hwnd, made, gone), Stands(u, d, e, hwnd, made),
           e.fn = "done" /\ e.message # "taken" =>
              \/ s[u][d].message # "taken"
              \/ \A t \in Users : \A i \in DOMAIN s[t] : s[t][i].fn = "destroy" => s[t][i].win # e.win
    PROVE  Standing([s EXCEPT ![u][d] = e], hwnd, made, gone)
<1> DEFINE s2 == [s EXCEPT ![u][d] = e]
<1>0. s2 = [s EXCEPT ![u][d] = e]
  OBVIOUS
<1> HIDE DEF s2
<1>1. /\ s2 \in [Users -> Seq(KnownCalls)]
      /\ \A t \in Users : DOMAIN s2[t] = DOMAIN s[t]
      /\ s2[u][d] = e
      /\ \A t \in Users : \A i \in DOMAIN s[t] : t # u \/ i # d => s2[t][i] = s[t][i]
  <2>1. Replaced(s2, s, u, d, e)
    BY <1>0, ReplacedIs
  <2> QED BY <2>1 DEF Replaced
<1>2. ASSUME NEW t \in Users, NEW i \in DOMAIN s[t]
      PROVE  Stands(t, i, s2[t][i], hwnd, made) /\ ~gone[s2[t][i].win]
  <2>1. CASE t = u /\ i = d
    BY <1>1, <2>1 DEF Standing
  <2>2. CASE t # u \/ i # d
    BY <1>1, <2>2 DEF Standing
  <2> QED BY <2>1, <2>2
<1>4. \A w \in Shown : hwnd[w] => made[w] /\ ~gone[w]
  BY DEF Standing
<1>5. \A t \in Users : \A i \in DOMAIN s2[t] :
         Stands(t, i, s2[t][i], hwnd, made) /\ ~gone[s2[t][i].win]
  BY <1>1, <1>2
<1>6. Together(s2)
  <2>1. Together(s)
    BY DEF Standing
  <2>2. Together([s EXCEPT ![u][d] = e])
    BY <2>1, ReplaceTogether
  <2> QED BY <1>0, <2>2
<1>7. Standing(s2, hwnd, made, gone)
  BY <1>4, <1>5, <1>6 DEF Standing
<1> QED BY <1>0, <1>7

Pushed(s2, s, t, e) ==
    /\ s2 \in [Users -> Seq(KnownCalls)]
    /\ \A u \in Users : u # t => s2[u] = s[u]
    /\ DOMAIN s2[t] = DOMAIN s[t] \cup {Len(s[t]) + 1} /\ Len(s[t]) + 1 \notin DOMAIN s[t]
    /\ s2[t][Len(s[t]) + 1] = e
    /\ \A i \in DOMAIN s[t] : s2[t][i] = s[t][i]

LEMMA PushedIs ==
    ASSUME NEW s, StackSound(s), NEW t \in Users, NEW e \in KnownCalls
    PROVE  Pushed([s EXCEPT ![t] = Append(@, e)], s, t, e)
<1>1. s \in [Users -> Seq(KnownCalls)]
  BY DEF StackSound
<1>2. s[t] \in Seq(KnownCalls)
  BY <1>1
<1>3. Append(s[t], e) \in Seq(KnownCalls)
  BY <1>2
<1>4. /\ DOMAIN Append(s[t], e) = DOMAIN s[t] \cup {Len(s[t]) + 1}
      /\ Len(s[t]) + 1 \notin DOMAIN s[t]
      /\ Append(s[t], e)[Len(s[t]) + 1] = e
      /\ \A i \in DOMAIN s[t] : Append(s[t], e)[i] = s[t][i]
  BY <1>2
<1> QED BY <1>1, <1>3, <1>4 DEF Pushed

LEMMA PushSound ==
    ASSUME NEW s, StackSound(s), NEW t \in Users, NEW e \in KnownCalls,
           Sensible(e), Answers(s, e),
           e.from # NoSender => \A u \in Users : \A i \in DOMAIN s[u] : s[u][i].from # e.from
    PROVE  StackSound([s EXCEPT ![t] = Append(@, e)])
<1> DEFINE s2 == [s EXCEPT ![t] = Append(@, e)]
           n == Len(s[t]) + 1
<1>0. s2 = [s EXCEPT ![t] = Append(@, e)]
  OBVIOUS
<1> HIDE DEF s2
<1>1. /\ s2 \in [Users -> Seq(KnownCalls)]
      /\ \A u \in Users : u # t => s2[u] = s[u]
      /\ DOMAIN s2[t] = DOMAIN s[t] \cup {n} /\ n \notin DOMAIN s[t]
      /\ s2[t][n] = e
      /\ \A i \in DOMAIN s[t] : s2[t][i] = s[t][i]
  <2>1. Pushed(s2, s, t, e)
    BY <1>0, PushedIs
  <2> QED BY <2>1 DEF Pushed
<1> HIDE DEF n
<1>2. \A u \in Users : \A i \in DOMAIN s[u] : i \in DOMAIN s2[u] /\ s2[u][i] = s[u][i]
  BY <1>1
<1>3. \A u \in Users : \A i \in DOMAIN s2[u] : i \in DOMAIN s[u] \/ (u = t /\ i = n)
  BY <1>1
<1>4. ASSUME NEW c, Answers(s, c) PROVE Answers(s2, c)
  BY <1>2, <1>4 DEF Answers
<1>5. \A u \in Users : \A i \in DOMAIN s2[u] : Sensible(s2[u][i]) /\ Answers(s2, s2[u][i])
  BY <1>1, <1>2, <1>3, <1>4 DEF StackSound
<1>6. ASSUME NEW u \in Users, NEW v \in Users, NEW i \in DOMAIN s2[u], NEW j \in DOMAIN s2[v],
             s2[u][i].from = s2[v][j].from, s2[u][i].from # NoSender
      PROVE  u = v /\ i = j
  <2>1. CASE u = t /\ i = n
    <3>1. j \notin DOMAIN s[v]
      BY <1>1, <1>2, <1>6, <2>1
    <3> QED BY <1>3, <1>6, <2>1, <3>1
  <2>2. CASE v = t /\ j = n
    <3>1. i \notin DOMAIN s[u]
      BY <1>1, <1>2, <1>6, <2>2
    <3> QED BY <1>3, <1>6, <2>2, <3>1
  <2>3. CASE i \in DOMAIN s[u] /\ j \in DOMAIN s[v]
    BY <1>2, <1>6, <2>3 DEF StackSound
  <2> QED BY <1>3, <2>1, <2>2, <2>3
<1>7. StackSound(s2)
  BY <1>1, <1>5, <1>6 DEF StackSound
<1> QED BY <1>0, <1>7

LEMMA PushStands ==
    ASSUME NEW s, StackSound(s), NEW t \in Users, NEW e \in KnownCalls,
           NEW hwnd, NEW made, NEW gone, Standing(s, hwnd, made, gone),
           Stands(t, Len(s[t]) + 1, e, hwnd, made), ~gone[e.win],
           \A u \in Users : \A i \in DOMAIN s[u] : Besides(s[u][i], t, e) /\ Besides(e, u, s[u][i])
    PROVE  Standing([s EXCEPT ![t] = Append(@, e)], hwnd, made, gone)
<1> DEFINE s2 == [s EXCEPT ![t] = Append(@, e)]
           n == Len(s[t]) + 1
<1>0. s2 = [s EXCEPT ![t] = Append(@, e)]
  OBVIOUS
<1> HIDE DEF s2
<1>1. /\ \A u \in Users : u # t => s2[u] = s[u]
      /\ DOMAIN s2[t] = DOMAIN s[t] \cup {n} /\ n \notin DOMAIN s[t]
      /\ s2[t][n] = e
      /\ \A i \in DOMAIN s[t] : s2[t][i] = s[t][i]
  <2>1. Pushed(s2, s, t, e)
    BY <1>0, PushedIs
  <2> QED BY <2>1 DEF Pushed
<1>n. Stands(t, n, e, hwnd, made)
  OBVIOUS
<1> HIDE DEF n
<1>2. \A u \in Users : \A i \in DOMAIN s[u] : i \in DOMAIN s2[u] /\ s2[u][i] = s[u][i]
  BY <1>1
<1>3. \A u \in Users : \A i \in DOMAIN s2[u] : i \in DOMAIN s[u] \/ (u = t /\ i = n)
  BY <1>1
<1>4. \A u \in Users : \A i \in DOMAIN s2[u] :
         Stands(u, i, s2[u][i], hwnd, made) /\ ~gone[s2[u][i].win]
  BY <1>1, <1>2, <1>3, <1>n DEF Standing
<1>5. ASSUME NEW u \in Users, NEW v \in Users, NEW i \in DOMAIN s2[u], NEW j \in DOMAIN s2[v],
             u # v \/ i # j
      PROVE  Besides(s2[u][i], v, s2[v][j])
  <2>1. CASE u = t /\ i = n
    <3>1. j \in DOMAIN s[v] /\ s2[u][i] = e
      BY <1>1, <1>3, <1>5, <2>1
    <3> QED BY <1>2, <2>1, <3>1
  <2>2. CASE v = t /\ j = n
    <3>1. i \in DOMAIN s[u] /\ s2[v][j] = e
      BY <1>1, <1>3, <1>5, <2>2
    <3> QED BY <1>2, <2>2, <3>1
  <2>3. CASE i \in DOMAIN s[u] /\ j \in DOMAIN s[v]
    BY <1>2, <1>5, <2>3 DEF Standing, Together
  <2> QED BY <1>3, <2>1, <2>2, <2>3
<1>6. Standing(s2, hwnd, made, gone)
  BY <1>4, <1>5 DEF Standing, Together
<1> QED BY <1>0, <1>6

Popped(s2, s, t) ==
    /\ s2 \in [Users -> Seq(KnownCalls)]
    /\ \A u \in Users : u # t => s2[u] = s[u]
    /\ Len(s[t]) \in DOMAIN s[t] /\ DOMAIN s2[t] = DOMAIN s[t] \ {Len(s[t])}
    /\ \A i \in DOMAIN s2[t] : s2[t][i] = s[t][i]

LEMMA PoppedIs ==
    ASSUME NEW s, StackSound(s), NEW t \in Users, s[t] # << >>
    PROVE  Popped([s EXCEPT ![t] = Showing!Front(@)], s, t)
<1>1. s \in [Users -> Seq(KnownCalls)]
  BY DEF StackSound
<1>2. s[t] \in Seq(KnownCalls) /\ Len(s[t]) \in Nat /\ Len(s[t]) > 0
  BY <1>1
<1> DEFINE f == Showing!Front(s[t])
<1>3. /\ f \in Seq(KnownCalls) /\ Len(s[t]) \in DOMAIN s[t]
      /\ DOMAIN f = DOMAIN s[t] \ {Len(s[t])}
      /\ \A i \in DOMAIN f : f[i] = s[t][i]
  BY <1>2 DEF Showing!Front
<1> HIDE DEF f
<1>4. [s EXCEPT ![t] = Showing!Front(@)] = [s EXCEPT ![t] = f]
  BY DEF f
<1> QED BY <1>1, <1>3, <1>4 DEF Popped

LEMMA PopSound ==
    ASSUME NEW s, StackSound(s), NEW t \in Users, s[t] # << >>, ~Handled(s, t, Len(s[t]))
    PROVE  StackSound([s EXCEPT ![t] = Showing!Front(@)])
<1> DEFINE s2 == [s EXCEPT ![t] = Showing!Front(@)]
           n == Len(s[t])
<1>0. s2 = [s EXCEPT ![t] = Showing!Front(@)]
  OBVIOUS
<1> HIDE DEF s2
<1>1. /\ s2 \in [Users -> Seq(KnownCalls)]
      /\ \A u \in Users : u # t => s2[u] = s[u]
      /\ n \in DOMAIN s[t] /\ DOMAIN s2[t] = DOMAIN s[t] \ {n}
      /\ \A i \in DOMAIN s2[t] : s2[t][i] = s[t][i]
  <2>1. Popped(s2, s, t)
    BY <1>0, PoppedIs
  <2> QED BY <2>1 DEF Popped
<1>h. ~Handled(s, t, n)
  OBVIOUS
<1> HIDE DEF n
<1>2. \A u \in Users : \A i \in DOMAIN s2[u] : i \in DOMAIN s[u] /\ s2[u][i] = s[u][i]
  BY <1>1
<1>3. \A u \in Users : \A i \in DOMAIN s[u] : i \in DOMAIN s2[u] \/ (u = t /\ i = n)
  BY <1>1
<1>4. ASSUME NEW u \in Users, NEW i \in DOMAIN s2[u] PROVE Sensible(s2[u][i]) /\ Answers(s2, s2[u][i])
  <2>1. Sensible(s[u][i]) /\ Answers(s, s[u][i]) /\ s2[u][i] = s[u][i]
    BY <1>2, <1>4 DEF StackSound
  <2>2. ASSUME s2[u][i].from # NoSender PROVE Answers(s2, s2[u][i])
    <3>1. PICK v \in Users : \E j \in DOMAIN s[v] :
             /\ s[u][i].from = <<v, j>>
             /\ s[v][j].message = "taken" /\ s[v][j].to = s[u][i].win
             /\ s[v][j].what = "destroy" <=> s[u][i].fn = "destroy"
      BY <2>1, <2>2 DEF Answers
    <3>2. PICK j \in DOMAIN s[v] :
             /\ s[u][i].from = <<v, j>>
             /\ s[v][j].message = "taken" /\ s[v][j].to = s[u][i].win
             /\ s[v][j].what = "destroy" <=> s[u][i].fn = "destroy"
      BY <3>1
    <3>3. j \in DOMAIN s2[v]
      BY <1>2, <1>3, <1>4, <1>h, <3>2 DEF Handled
    <3>4. s2[v][j] = s[v][j]
      BY <1>2, <3>3
    <3> QED BY <2>1, <3>2, <3>3, <3>4 DEF Answers
  <2> QED BY <2>1, <2>2 DEF Answers
<1>5. \A u, v \in Users : \A i \in DOMAIN s2[u], j \in DOMAIN s2[v] :
         s2[u][i].from = s2[v][j].from /\ s2[u][i].from # NoSender => u = v /\ i = j
  BY <1>2 DEF StackSound
<1>6. StackSound(s2)
  BY <1>1, <1>4, <1>5 DEF StackSound
<1> QED BY <1>0, <1>6

LEMMA PopStands ==
    ASSUME NEW s, StackSound(s), NEW t \in Users, s[t] # << >>,
           NEW hwnd, NEW made, NEW gone, Standing(s, hwnd, made, gone)
    PROVE  Standing([s EXCEPT ![t] = Showing!Front(@)], hwnd, made, gone)
<1> DEFINE s2 == [s EXCEPT ![t] = Showing!Front(@)]
<1>0. s2 = [s EXCEPT ![t] = Showing!Front(@)]
  OBVIOUS
<1> HIDE DEF s2
<1>1. /\ \A u \in Users : u # t => s2[u] = s[u]
      /\ DOMAIN s2[t] = DOMAIN s[t] \ {Len(s[t])}
      /\ \A i \in DOMAIN s2[t] : s2[t][i] = s[t][i]
  <2>1. Popped(s2, s, t)
    BY <1>0, PoppedIs
  <2> QED BY <2>1 DEF Popped
<1>2. \A u \in Users : \A i \in DOMAIN s2[u] : i \in DOMAIN s[u] /\ s2[u][i] = s[u][i]
  BY <1>1
<1>3. Standing(s2, hwnd, made, gone)
  BY <1>2 DEF Standing, Together
<1> QED BY <1>0, <1>3

LEMMA TopIs ==
    ASSUME StackSound(stack), NEW t \in Users, stack[t] # << >>
    PROVE  /\ Len(stack[t]) \in DOMAIN stack[t]
           /\ Showing!Top(t) = stack[t][Len(stack[t])] /\ Showing!Top(t) \in KnownCalls
           /\ Sensible(Showing!Top(t)) /\ Answers(stack, Showing!Top(t))
           /\ Showing!Top(t).message # "taken" => ~Handled(stack, t, Len(stack[t]))
<1> DEFINE n == Len(stack[t])
<1>1. stack[t] \in Seq(KnownCalls)
  BY DEF StackSound
<1>2. n \in DOMAIN stack[t] /\ Showing!Top(t) = stack[t][n] /\ stack[t][n] \in KnownCalls
  BY <1>1 DEF Showing!Top, Showing!Last
<1> HIDE DEF n
<1>3. Sensible(stack[t][n]) /\ Answers(stack, stack[t][n])
  BY <1>2 DEF StackSound
<1>4. ASSUME Handled(stack, t, n) PROVE stack[t][n].message = "taken"
  <2>1. PICK u \in Users : \E i \in DOMAIN stack[u] : stack[u][i].from = <<t, n>>
    BY <1>4 DEF Handled
  <2>2. PICK i \in DOMAIN stack[u] : stack[u][i].from = <<t, n>>
    BY <2>1
  <2>3. n \in Nat
    BY <1>1 DEF n
  <2>4. stack[u][i].from # NoSender
    BY <2>2, <2>3, WindowConstants
  <2>5. Answers(stack, stack[u][i])
    BY DEF StackSound
  <2> QED BY <2>2, <2>4, <2>5 DEF Answers
<1> QED BY <1>2, <1>3, <1>4 DEF n

LEMMA GoesOnSound ==
    ASSUME StacksInv, NEW t \in Users, stack[t] # << >>, Showing!Top(t).message # "taken",
           NEW e \in KnownCalls, Sensible(e), Showing!Goto(t, e),
           e.fn = Showing!Top(t).fn, e.win = Showing!Top(t).win, e.from = Showing!Top(t).from,
           m_bDoPostToDestroy => Stands(t, Len(stack[t]), e, m_hwnd, window),
           UNCHANGED << m_hwnd, window, deleted, m_bDoPostToDestroy >>
    PROVE  StacksInv'
<1> DEFINE n == Len(stack[t])
<1>1. n \in DOMAIN stack[t] /\ Showing!Top(t) = stack[t][n] /\ ~Handled(stack, t, n)
  BY TopIs DEF StacksInv
<1>2. stack' = [stack EXCEPT ![t][n] = e]
  BY DEF Showing!Goto
<1>n. m_bDoPostToDestroy => Stands(t, n, e, m_hwnd, window)
  OBVIOUS
<1> HIDE DEF n
<1>3. StackSound(stack')
  BY <1>1, <1>2, ReplaceSound DEF StacksInv
<1>4. ASSUME m_bDoPostToDestroy PROVE Standing(stack', m_hwnd, window, deleted)
  BY <1>1, <1>2, <1>4, <1>n, ReplaceStands DEF StacksInv
<1> QED BY <1>3, <1>4 DEF StacksInv

\* A call returns: the others are as they were, but for the one it answers.
LEMMA ReturnedAre ==
    ASSUME StackSound(stack), NEW t \in Users, stack[t] # << >>, Showing!Top(t).message # "taken"
    PROVE  /\ StackSound(Showing!Popped(t))
           /\ \A u \in Users : \A i \in DOMAIN Showing!Popped(t)[u] :
                /\ i \in DOMAIN stack[u] /\ ~(u = t /\ i = Len(stack[t]))
                /\ Showing!Popped(t)[u][i].fn = stack[u][i].fn
                /\ Showing!Popped(t)[u][i].win = stack[u][i].win
           /\ \A hwnd, made, gone :
                /\ Standing(stack, hwnd, made, gone)
                /\ Showing!Top(t).fn = "destroy" => ~hwnd[Showing!Top(t).win]
                => Standing(Showing!Popped(t), hwnd, made, gone)
<1> DEFINE n == Len(stack[t])
           c == stack[t][n]
           s == [stack EXCEPT ![t] = Showing!Front(@)]
<1>1. /\ n \in DOMAIN stack[t] /\ Showing!Top(t) = c /\ c \in KnownCalls
      /\ Sensible(c) /\ Answers(stack, c) /\ ~Handled(stack, t, n)
  BY TopIs
<1>2. StackSound(s)
  BY <1>1, PopSound
<1>3. /\ \A u \in Users : \A i \in DOMAIN s[u] : i \in DOMAIN stack[u] /\ s[u][i] = stack[u][i]
      /\ \A u \in Users : \A i \in DOMAIN stack[u] : i \in DOMAIN s[u] <=> ~(u = t /\ i = n)
  <2>1. Popped(s, stack, t)
    BY PoppedIs
  <2> HIDE DEF s
  <2> QED BY <2>1 DEF Popped
<1>4. \A hwnd, made, gone : Standing(stack, hwnd, made, gone) => Standing(s, hwnd, made, gone)
  BY PopStands
<1>s. Showing!Popped(t) = IF c.from = NoSender THEN s
                          ELSE [s EXCEPT ![c.from[1]][c.from[2]].message = "answered"]
  BY <1>1 DEF Showing!Popped
<1> HIDE DEF s
<1>5. CASE c.from = NoSender
  <2>1. Showing!Popped(t) = s
    BY <1>5, <1>s
  <2> QED BY <1>2, <1>3, <1>4, <2>1
<1>6. CASE c.from # NoSender
  <2>1. PICK u \in Users : \E d \in DOMAIN stack[u] :
          /\ c.from = <<u, d>>
          /\ stack[u][d].message = "taken" /\ stack[u][d].to = c.win
          /\ stack[u][d].what = "destroy" <=> c.fn = "destroy"
    BY <1>1, <1>6 DEF Answers
  <2>2. PICK d \in DOMAIN stack[u] :
          /\ c.from = <<u, d>>
          /\ stack[u][d].message = "taken" /\ stack[u][d].to = c.win
          /\ stack[u][d].what = "destroy" <=> c.fn = "destroy"
    BY <2>1
  <2>3. d \in DOMAIN s[u] /\ s[u][d] = stack[u][d]
    <3>1. ~(u = t /\ d = n)
      BY <1>1, <2>2
    <3> QED BY <1>3, <3>1
  <2>4. s[u][d] \in KnownCalls /\ Sensible(s[u][d]) /\ s \in [Users -> Seq(KnownCalls)]
    <3>1. s[u] \in Seq(KnownCalls)
      BY <1>2 DEF StackSound
    <3>2. s[u][d] \in KnownCalls
      BY <2>3, <3>1
    <3> QED BY <1>2, <2>3, <3>2 DEF StackSound
  <2> DEFINE e == [s[u][d] EXCEPT !.message = "answered"]
  <2>5. e \in KnownCalls
    BY <2>4 DEF KnownCalls
  <2>6. /\ e.fn = s[u][d].fn /\ e.win = s[u][d].win /\ e.from = s[u][d].from /\ e.at = s[u][d].at
        /\ e.what = s[u][d].what /\ e.to = s[u][d].to /\ e.message = "answered"
    BY <2>4 DEF KnownCalls
  <2>7. Showing!Popped(t) = [s EXCEPT ![u][d] = e]
    <3>1. c.from[1] = u /\ c.from[2] = d
      BY <2>2
    <3> QED BY <1>6, <1>s, <2>4, <3>1
  <2> HIDE DEF e
  <2>8. Sensible(e)
    BY <2>2, <2>3, <2>4, <2>6 DEF Sensible
  <2>9. ~Handled(s, u, d)
    <3>1. ASSUME NEW v \in Users, NEW i \in DOMAIN s[v], s[v][i].from = <<u, d>> PROVE FALSE
      <4>1. i \in DOMAIN stack[v] /\ stack[v][i].from = c.from /\ ~(v = t /\ i = n)
        BY <1>3, <2>2, <3>1
      <4> QED BY <1>1, <1>6, <4>1 DEF StackSound
    <3> QED BY <3>1 DEF Handled
  <2>10. StackSound(Showing!Popped(t))
    <3>1. StackSound([s EXCEPT ![u][d] = e])
      BY <1>2, <2>3, <2>5, <2>6, <2>8, <2>9, ReplaceSound
    <3> QED BY <2>7, <3>1
  <2>11. Replaced(Showing!Popped(t), s, u, d, e)
    <3>1. Replaced([s EXCEPT ![u][d] = e], s, u, d, e)
      BY <1>2, <2>3, <2>5, ReplacedIs
    <3> QED BY <2>7, <3>1
  <2>12. ASSUME NEW v \in Users, NEW i \in DOMAIN Showing!Popped(t)[v]
         PROVE  /\ i \in DOMAIN stack[v] /\ ~(v = t /\ i = n)
                /\ Showing!Popped(t)[v][i].fn = stack[v][i].fn
                /\ Showing!Popped(t)[v][i].win = stack[v][i].win
    <3>1. i \in DOMAIN s[v]
      BY <2>11, <2>12 DEF Replaced
    <3>2. Showing!Popped(t)[v][i].fn = s[v][i].fn /\ Showing!Popped(t)[v][i].win = s[v][i].win
      BY <2>6, <2>11, <2>12, <3>1 DEF Replaced
    <3> QED BY <1>3, <3>1, <3>2
  <2>13. ASSUME NEW hwnd, NEW made, NEW gone, Standing(stack, hwnd, made, gone),
                c.fn = "destroy" => ~hwnd[c.win]
         PROVE  Standing(Showing!Popped(t), hwnd, made, gone)
    <3>1. Standing(s, hwnd, made, gone)
      BY <1>4, <2>13
    <3>2. Stands(u, d, s[u][d], hwnd, made)
      BY <2>3, <3>1 DEF Standing
    <3>3. e.fn = "done" => c.fn = "destroy" /\ c.win = e.win
      BY <2>2, <2>3, <2>4, <2>6 DEF Sensible
    <3>4. Stands(u, d, e, hwnd, made)
      BY <2>2, <2>3, <2>6, <2>13, <3>2, <3>3 DEF Stands
    <3>5. ASSUME e.fn = "done", NEW v \in Users, NEW i \in DOMAIN s[v], s[v][i].fn = "destroy", s[v][i].win = e.win
          PROVE  FALSE
      <4>1. Stands(v, i, s[v][i], hwnd, made)
        BY <3>1 DEF Standing
      <4>2. Stands(t, n, c, hwnd, made)
        BY <1>1, <2>13 DEF Standing
      <4>3. v = t /\ i = n
        BY <3>3, <3>5, <4>1, <4>2 DEF Stands
      <4> QED BY <1>3, <4>3
    <3>6. Standing([s EXCEPT ![u][d] = e], hwnd, made, gone)
      BY <1>2, <2>3, <2>5, <2>6, <3>1, <3>4, <3>5, ReplaceStands
    <3> QED BY <2>7, <3>6
  <2> HIDE DEF c, n
  <2>14. \A hwnd, made, gone :
            Standing(stack, hwnd, made, gone) /\ (c.fn = "destroy" => ~hwnd[c.win])
              => Standing(Showing!Popped(t), hwnd, made, gone)
    BY <2>13
  <2> QED BY <1>1, <2>10, <2>12, <2>14 DEF n
<1> QED BY <1>5, <1>6

\* As long as nobody is inside, a window may come, go or be deleted.
NobodyIn(s, w) == \A u \in Users : \A i \in DOMAIN s[u] : s[u][i].win # w

SameBut(w, f, g) == \A v \in Shown \ {w} : f[v] = g[v]

LEMMA WindowFree ==
    ASSUME NEW s, NEW w \in Shown, NobodyIn(s, w),
           NEW hwnd \in [Shown -> BOOLEAN], NEW made \in [Shown -> BOOLEAN],
           NEW gone \in [Shown -> BOOLEAN], Standing(s, hwnd, made, gone),
           NEW hwnd2, NEW made2, NEW gone2, hwnd2[w] => made2[w] /\ ~gone2[w],
           SameBut(w, hwnd2, hwnd), SameBut(w, made2, made), SameBut(w, gone2, gone),
           s \in [Users -> Seq(KnownCalls)]
    PROVE  Standing(s, hwnd2, made2, gone2)
<1>1. \A u \in Users : \A i \in DOMAIN s[u] : s[u][i].win \in Shown \ {w}
  <2>1. ASSUME NEW u \in Users, NEW i \in DOMAIN s[u] PROVE s[u][i].win \in Shown
    <3>1. s[u] \in Seq(KnownCalls)
      OBVIOUS
    <3>2. s[u][i] \in KnownCalls
      BY <3>1
    <3> QED BY <3>2 DEF KnownCalls
  <2> QED BY <2>1 DEF NobodyIn
<1>2. ASSUME NEW u \in Users, NEW i \in DOMAIN s[u]
      PROVE  Stands(u, i, s[u][i], hwnd2, made2) /\ ~gone2[s[u][i].win]
  BY <1>1, <1>2 DEF Standing, Stands, SameBut
<1>3. \A v \in Shown : hwnd2[v] => made2[v] /\ ~gone2[v]
  BY DEF Standing, SameBut
<1> QED BY <1>2, <1>3 DEF Standing

\* A call that shows something goes on, or returns.
LEMMA PaletteCallGoesOn ==
    ASSUME StacksInv, NEW t \in Users, stack[t] # << >>,
           Showing!Top(t).fn \in {"realise", "prepare", "show"}, Showing!Top(t).message # "taken",
           NEW e \in KnownCalls, Sensible(e), Showing!Goto(t, e),
           e.fn = Showing!Top(t).fn, e.win = Showing!Top(t).win, e.from = Showing!Top(t).from,
           UNCHANGED << m_hwnd, window, deleted, m_bDoPostToDestroy >>
    PROVE  StacksInv'
<1> DEFINE n == Len(stack[t])
<1>1. n \in DOMAIN stack[t] /\ Showing!Top(t) = stack[t][n]
  BY TopIs DEF StacksInv
<1>2. m_bDoPostToDestroy => Stands(t, n, e, m_hwnd, window)
  <2> HIDE DEF n
  <2>1. m_bDoPostToDestroy => Stands(t, n, Showing!Top(t), m_hwnd, window)
    BY <1>1 DEF StacksInv, Standing
  <2> QED BY <2>1 DEF Stands
<1> QED BY <1>2, GoesOnSound

LEMMA PaletteCallReturns ==
    ASSUME StacksInv, NEW t \in Users, stack[t] # << >>,
           Showing!Top(t).fn # "destroy", Showing!Top(t).message # "taken", Showing!Return(t),
           UNCHANGED << m_hwnd, window, deleted, m_bDoPostToDestroy >>
    PROVE  StacksInv'
<1>1. StackSound(stack')
  BY ReturnedAre DEF StacksInv, Showing!Return
<1>2. m_bDoPostToDestroy => Standing(stack', m_hwnd, window, deleted)
  BY ReturnedAre DEF StacksInv, Showing!Return
<1> QED BY <1>1, <1>2 DEF StacksInv

LEMMA RealisedKeeps ==
    ASSUME StacksInv, NEW t \in Users, stack[t] # << >>, Showing!Top(t).fn = "realise",
           Showing!Top(t).message = "none", Showing!Realised(t),
           UNCHANGED << m_hwnd, window, deleted, m_bDoPostToDestroy >>
    PROVE  StacksInv'
<1> DEFINE c == Showing!Top(t)
           e == [c EXCEPT !.at = "redraw"]
<1>1. c \in KnownCalls /\ Sensible(c)
  BY TopIs DEF StacksInv
<1> HIDE DEF c
<1>2. /\ e \in KnownCalls /\ e.fn = c.fn /\ e.win = c.win /\ e.from = c.from
      /\ e.at = "redraw" /\ e.message = c.message /\ e.what = c.what /\ e.to = c.to
  BY <1>1 DEF KnownCalls
<1> HIDE DEF e
<1>3. Sensible(e)
  BY <1>1, <1>2 DEF c, Sensible
<1>4. CASE Showing!Goto(t, e)
  BY <1>2, <1>3, <1>4, PaletteCallGoesOn DEF c
<1>5. CASE Showing!Return(t)
  BY <1>5, PaletteCallReturns
<1> QED BY <1>4, <1>5 DEF Showing!Realised, c, e

LEMMA SelectPaletteKeeps ==
    ASSUME WindowInv, NEW t \in Users, Showing!SelectPalette(t) PROVE WindowInv'
<1> USE DEF Showing!SelectPalette, Showing!objectVars, Showing!systemVars, Showing!Realising
<1> DEFINE c == Showing!Top(t)
<1>1. WindowTypes' /\ PostedInv'
  <2>1. c \in KnownCalls
    BY TopIs DEF WindowInv, StacksInv, Showing!Runs
  <2>2. c.win \in Shown
    BY <2>1 DEF KnownCalls
  <2> HIDE DEF c
  <2> QED BY <2>2, WindowConstants DEF WindowInv, WindowTypes, PostedInv, c
<1>2. StacksInv /\ stack[t] # << >> /\ c \in KnownCalls /\ Sensible(c)
  BY TopIs DEF WindowInv, StacksInv, Showing!Runs
<1>3. c.fn = "realise" /\ c.message = "none" /\ UNCHANGED << m_hwnd, window, deleted, m_bDoPostToDestroy >>
  BY <1>2 DEF Showing!Runs, Sensible, KnownCalls
<1>4. StacksInv'
  <2>1. CASE Showing!Goto(t, [Showing!Top(t) EXCEPT !.at = "hdc", !.locks = Showing!Realising])
    <3> HIDE DEF c
    <3> DEFINE e == [c EXCEPT !.at = "hdc", !.locks = Showing!Realising]
    <3>1. /\ e \in KnownCalls /\ e.fn = c.fn /\ e.win = c.win /\ e.from = c.from
          /\ Sensible(e)
      BY <1>2, <1>3 DEF KnownCalls, Sensible, Showing!Runs, Showing!Sends, c
    <3>2. Showing!Goto(t, e)
      BY <2>1 DEF c
    <3> HIDE DEF e
    <3> QED BY <1>2, <1>3, <3>1, <3>2, PaletteCallGoesOn DEF c
  <2>2. CASE Showing!Realised(t)
    BY <1>2, <1>3, <2>2, RealisedKeeps
  <2> QED BY <2>1, <2>2
<1> QED BY <1>1, <1>4 DEF WindowInv

LEMMA RealizePaletteKeeps ==
    ASSUME WindowInv, NEW t \in Users, Showing!RealizePalette(t) PROVE WindowInv'
<1> USE DEF Showing!RealizePalette, Showing!objectVars, Showing!systemVars
<1> DEFINE c == Showing!Top(t)
<1>1. WindowTypes' /\ PostedInv'
  <2>1. c \in KnownCalls
    BY TopIs DEF WindowInv, StacksInv, Showing!Runs
  <2>2. c.win \in Shown
    BY <2>1 DEF KnownCalls
  <2> HIDE DEF c
  <2> QED BY <2>2, WindowConstants DEF WindowInv, WindowTypes, PostedInv, c
<1>2. StacksInv /\ stack[t] # << >> /\ c \in KnownCalls /\ Sensible(c)
  BY TopIs DEF WindowInv, StacksInv, Showing!Runs
<1>3. c.fn = "realise" /\ c.message = "none" /\ UNCHANGED << m_hwnd, window, deleted, m_bDoPostToDestroy >>
  BY <1>2 DEF Showing!Runs, Sensible, KnownCalls
<1>4. StacksInv'
  <2>1. CASE Showing!Goto(t, [Showing!Top(t) EXCEPT !.at = "broadcast", !.todo = {w \in Shown : window[w]}])
    <3> HIDE DEF c
    <3> DEFINE e == [c EXCEPT !.at = "broadcast", !.todo = {w \in Shown : window[w]}]
    <3>1. /\ e \in KnownCalls /\ e.fn = c.fn /\ e.win = c.win /\ e.from = c.from
          /\ Sensible(e)
      BY <1>2, <1>3 DEF KnownCalls, Sensible, Showing!Runs, Showing!Sends, c
    <3>2. Showing!Goto(t, e)
      BY <2>1 DEF c
    <3> HIDE DEF e
    <3> QED BY <1>2, <1>3, <3>1, <3>2, PaletteCallGoesOn DEF c
  <2>2. CASE Showing!Goto(t, [Showing!Top(t) EXCEPT !.at = "memdc"])
    <3> HIDE DEF c
    <3> DEFINE e == [c EXCEPT !.at = "memdc"]
    <3>1. /\ e \in KnownCalls /\ e.fn = c.fn /\ e.win = c.win /\ e.from = c.from
          /\ Sensible(e)
      BY <1>2, <1>3 DEF KnownCalls, Sensible, Showing!Runs, Showing!Sends, c
    <3>2. Showing!Goto(t, e)
      BY <2>2 DEF c
    <3> HIDE DEF e
    <3> QED BY <1>2, <1>3, <3>1, <3>2, PaletteCallGoesOn DEF c
  <2> QED BY <2>1, <2>2
<1> QED BY <1>1, <1>4 DEF WindowInv

LEMMA BroadcastKeeps ==
    ASSUME WindowInv, NEW t \in Users, Showing!Broadcast(t) PROVE WindowInv'
<1> USE DEF Showing!Broadcast, Showing!objectVars, Showing!systemVars
<1> DEFINE c == Showing!Top(t)
<1>1. WindowTypes' /\ PostedInv'
  <2>1. c \in KnownCalls
    BY TopIs DEF WindowInv, StacksInv, Showing!Runs
  <2>2. c.win \in Shown
    BY <2>1 DEF KnownCalls
  <2> HIDE DEF c
  <2> QED BY <2>2, WindowConstants DEF WindowInv, WindowTypes, PostedInv, c
<1>2. StacksInv /\ stack[t] # << >> /\ c \in KnownCalls /\ Sensible(c)
  BY TopIs DEF WindowInv, StacksInv, Showing!Runs
<1>3. c.fn = "realise" /\ c.message # "taken" /\ UNCHANGED << m_hwnd, window, deleted, m_bDoPostToDestroy >>
  BY <1>2 DEF Showing!Runs, Sensible, KnownCalls, Showing!Waits
<1>4. StacksInv'
  <2>1. ASSUME NEW w \in Showing!Top(t).todo,
                 Showing!Goto(t, [Showing!Sends(Showing!Top(t), "pending", w, "changed") EXCEPT !.todo = @ \ {w}])
          PROVE  StacksInv'
    <3> DEFINE e == [Showing!Sends(c, "pending", w, "changed") EXCEPT !.todo = @ \ {w}]
    <3>0. w \in c.todo /\ c.todo \subseteq Shown
      BY <1>2, <2>1 DEF KnownCalls
    <3>2. Showing!Goto(t, e)
      BY <2>1
    <3> HIDE DEF c
    <3>1. /\ e \in KnownCalls /\ e.fn = c.fn /\ e.win = c.win /\ e.from = c.from
          /\ Sensible(e)
      BY <1>2, <1>3, <3>0 DEF KnownCalls, Sensible, Showing!Runs, Showing!Sends, c
    <3> HIDE DEF e
    <3> QED BY <1>2, <1>3, <3>1, <3>2, PaletteCallGoesOn DEF c
  <2>2. CASE Showing!Goto(t, [Showing!Top(t) EXCEPT !.at = "memdc", !.message = "none"])
    <3> HIDE DEF c
    <3> DEFINE e == [c EXCEPT !.at = "memdc", !.message = "none"]
    <3>1. /\ e \in KnownCalls /\ e.fn = c.fn /\ e.win = c.win /\ e.from = c.from
          /\ Sensible(e)
      BY <1>2, <1>3 DEF KnownCalls, Sensible, Showing!Runs, Showing!Sends, c
    <3>2. Showing!Goto(t, e)
      BY <2>2 DEF c
    <3> HIDE DEF e
    <3> QED BY <1>2, <1>3, <3>1, <3>2, PaletteCallGoesOn DEF c
  <2> QED BY <2>1, <2>2
<1> QED BY <1>1, <1>4 DEF WindowInv

LEMMA RealizeMemoryKeeps ==
    ASSUME WindowInv, NEW t \in Users, Showing!RealizeMemory(t) PROVE WindowInv'
<1> USE DEF Showing!RealizeMemory, Showing!objectVars, Showing!systemVars
<1> DEFINE c == Showing!Top(t)
<1>1. WindowTypes' /\ PostedInv'
  <2>1. c \in KnownCalls
    BY TopIs DEF WindowInv, StacksInv, Showing!Runs
  <2>2. c.win \in Shown
    BY <2>1 DEF KnownCalls
  <2> HIDE DEF c
  <2> QED BY <2>2, WindowConstants DEF WindowInv, WindowTypes, PostedInv, c
<1>2. StacksInv /\ stack[t] # << >> /\ c \in KnownCalls /\ Sensible(c)
  BY TopIs DEF WindowInv, StacksInv, Showing!Runs
<1>3. c.fn = "realise" /\ c.message = "none" /\ UNCHANGED << m_hwnd, window, deleted, m_bDoPostToDestroy >>
  BY <1>2 DEF Showing!Runs, Sensible, KnownCalls
<1>4. StacksInv'
  <2>1. CASE Showing!Realised(t)
    BY <1>2, <1>3, <2>1, RealisedKeeps
  <2> QED BY <2>1
<1> QED BY <1>1, <1>4 DEF WindowInv

LEMMA RedrawKeeps ==
    ASSUME WindowInv, NEW t \in Users, Showing!Redraw(t) PROVE WindowInv'
<1> USE DEF Showing!Redraw, Showing!objectVars, Showing!systemVars
<1> DEFINE c == Showing!Top(t)
<1>1. WindowTypes' /\ PostedInv'
  <2>1. c \in KnownCalls
    BY TopIs DEF WindowInv, StacksInv, Showing!Runs
  <2>2. c.win \in Shown
    BY <2>1 DEF KnownCalls
  <2> HIDE DEF c
  <2> QED BY <2>2, WindowConstants DEF WindowInv, WindowTypes, PostedInv, c
<1>2. StacksInv /\ stack[t] # << >> /\ c \in KnownCalls /\ Sensible(c)
  BY TopIs DEF WindowInv, StacksInv, Showing!Runs
<1>3. c.fn = "realise" /\ c.message = "none" /\ UNCHANGED << m_hwnd, window, deleted, m_bDoPostToDestroy >>
  BY <1>2 DEF Showing!Runs, Sensible, KnownCalls
<1>4. StacksInv'
  <2>1. CASE Showing!Return(t)
    BY <1>2, <1>3, <2>1, PaletteCallReturns
  <2> QED BY <2>1
<1> QED BY <1>1, <1>4 DEF WindowInv

LEMMA RemovePaletteKeeps ==
    ASSUME WindowInv, NEW t \in Users, Showing!RemovePalette(t) PROVE WindowInv'
<1> USE DEF Showing!RemovePalette, Showing!objectVars, Showing!systemVars
<1> DEFINE c == Showing!Top(t)
<1>1. WindowTypes' /\ PostedInv'
  <2>1. c \in KnownCalls
    BY TopIs DEF WindowInv, StacksInv, Showing!Runs
  <2>2. c.win \in Shown
    BY <2>1 DEF KnownCalls
  <2> HIDE DEF c
  <2> QED BY <2>2, WindowConstants DEF WindowInv, WindowTypes, PostedInv, c
<1>2. StacksInv /\ stack[t] # << >> /\ c \in KnownCalls /\ Sensible(c)
  BY TopIs DEF WindowInv, StacksInv, Showing!Runs
<1>3. c.fn = "prepare" /\ c.message = "none" /\ UNCHANGED << m_hwnd, window, deleted, m_bDoPostToDestroy >>
  BY <1>2 DEF Showing!Runs, Sensible, KnownCalls
<1>4. StacksInv'
  <2>1. CASE Showing!Goto(t, [Showing!Top(t) EXCEPT !.at = "unset", !.locks = {"palette"}])
    <3> HIDE DEF c
    <3> DEFINE e == [c EXCEPT !.at = "unset", !.locks = {"palette"}]
    <3>1. /\ e \in KnownCalls /\ e.fn = c.fn /\ e.win = c.win /\ e.from = c.from
          /\ Sensible(e)
      BY <1>2, <1>3 DEF KnownCalls, Sensible, Showing!Runs, Showing!Sends, c
    <3>2. Showing!Goto(t, e)
      BY <2>1 DEF c
    <3> HIDE DEF e
    <3> QED BY <1>2, <1>3, <3>1, <3>2, PaletteCallGoesOn DEF c
  <2>2. CASE Showing!Goto(t, [Showing!Top(t) EXCEPT !.at = "make"])
    <3> HIDE DEF c
    <3> DEFINE e == [c EXCEPT !.at = "make"]
    <3>1. /\ e \in KnownCalls /\ e.fn = c.fn /\ e.win = c.win /\ e.from = c.from
          /\ Sensible(e)
      BY <1>2, <1>3 DEF KnownCalls, Sensible, Showing!Runs, Showing!Sends, c
    <3>2. Showing!Goto(t, e)
      BY <2>2 DEF c
    <3> HIDE DEF e
    <3> QED BY <1>2, <1>3, <3>1, <3>2, PaletteCallGoesOn DEF c
  <2> QED BY <2>1, <2>2
<1> QED BY <1>1, <1>4 DEF WindowInv

LEMMA UnsetPaletteKeeps ==
    ASSUME WindowInv, NEW t \in Users, Showing!UnsetPalette(t) PROVE WindowInv'
<1> USE DEF Showing!UnsetPalette, Showing!objectVars, Showing!systemVars
<1> DEFINE c == Showing!Top(t)
<1>1. WindowTypes' /\ PostedInv'
  <2>1. c \in KnownCalls
    BY TopIs DEF WindowInv, StacksInv, Showing!Runs
  <2>2. c.win \in Shown
    BY <2>1 DEF KnownCalls
  <2> HIDE DEF c
  <2> QED BY <2>2, WindowConstants DEF WindowInv, WindowTypes, PostedInv, c
<1>2. StacksInv /\ stack[t] # << >> /\ c \in KnownCalls /\ Sensible(c)
  BY TopIs DEF WindowInv, StacksInv, Showing!Runs
<1>3. c.fn = "prepare" /\ c.message = "none" /\ UNCHANGED << m_hwnd, window, deleted, m_bDoPostToDestroy >>
  BY <1>2 DEF Showing!Runs, Sensible, KnownCalls
<1>4. StacksInv'
  <2>1. CASE Showing!Goto(t, [Showing!Top(t) EXCEPT !.at = "make", !.locks = {}])
    <3> HIDE DEF c
    <3> DEFINE e == [c EXCEPT !.at = "make", !.locks = {}]
    <3>1. /\ e \in KnownCalls /\ e.fn = c.fn /\ e.win = c.win /\ e.from = c.from
          /\ Sensible(e)
      BY <1>2, <1>3 DEF KnownCalls, Sensible, Showing!Runs, Showing!Sends, c
    <3>2. Showing!Goto(t, e)
      BY <2>1 DEF c
    <3> HIDE DEF e
    <3> QED BY <1>2, <1>3, <3>1, <3>2, PaletteCallGoesOn DEF c
  <2> QED BY <2>1
<1> QED BY <1>1, <1>4 DEF WindowInv

LEMMA MakePaletteKeeps ==
    ASSUME WindowInv, NEW t \in Users, Showing!MakePalette(t) PROVE WindowInv'
<1> USE DEF Showing!MakePalette, Showing!objectVars, Showing!systemVars
<1> DEFINE c == Showing!Top(t)
<1>1. WindowTypes' /\ PostedInv'
  <2>1. c \in KnownCalls
    BY TopIs DEF WindowInv, StacksInv, Showing!Runs
  <2>2. c.win \in Shown
    BY <2>1 DEF KnownCalls
  <2> HIDE DEF c
  <2> QED BY <2>2, WindowConstants DEF WindowInv, WindowTypes, PostedInv, c
<1>2. StacksInv /\ stack[t] # << >> /\ c \in KnownCalls /\ Sensible(c)
  BY TopIs DEF WindowInv, StacksInv, Showing!Runs
<1>3. c.fn = "prepare" /\ c.message = "none" /\ UNCHANGED << m_hwnd, window, deleted, m_bDoPostToDestroy >>
  BY <1>2 DEF Showing!Runs, Sensible, KnownCalls
<1>4. StacksInv'
  <2>1. CASE Showing!Return(t)
    BY <1>2, <1>3, <2>1, PaletteCallReturns
  <2>2. CASE Showing!Goto(t, [Showing!Top(t) EXCEPT !.at = "window"])
    <3> HIDE DEF c
    <3> DEFINE e == [c EXCEPT !.at = "window"]
    <3>1. /\ e \in KnownCalls /\ e.fn = c.fn /\ e.win = c.win /\ e.from = c.from
          /\ Sensible(e)
      BY <1>2, <1>3 DEF KnownCalls, Sensible, Showing!Runs, Showing!Sends, c
    <3>2. Showing!Goto(t, e)
      BY <2>2 DEF c
    <3> HIDE DEF e
    <3> QED BY <1>2, <1>3, <3>1, <3>2, PaletteCallGoesOn DEF c
  <2> QED BY <2>1, <2>2
<1> QED BY <1>1, <1>4 DEF WindowInv

LEMMA SetPaletteLockKeeps ==
    ASSUME WindowInv, NEW t \in Users, Showing!SetPaletteLock(t) PROVE WindowInv'
<1> USE DEF Showing!SetPaletteLock, Showing!objectVars, Showing!systemVars
<1> DEFINE c == Showing!Top(t)
<1>1. WindowTypes' /\ PostedInv'
  <2>1. c \in KnownCalls
    BY TopIs DEF WindowInv, StacksInv, Showing!Runs
  <2>2. c.win \in Shown
    BY <2>1 DEF KnownCalls
  <2> HIDE DEF c
  <2> QED BY <2>2, WindowConstants DEF WindowInv, WindowTypes, PostedInv, c
<1>2. StacksInv /\ stack[t] # << >> /\ c \in KnownCalls /\ Sensible(c)
  BY TopIs DEF WindowInv, StacksInv, Showing!Runs
<1>3. c.fn = "prepare" /\ c.message = "none" /\ UNCHANGED << m_hwnd, window, deleted, m_bDoPostToDestroy >>
  BY <1>2 DEF Showing!Runs, Sensible, KnownCalls
<1>4. StacksInv'
  <2>1. CASE Showing!Goto(t, [Showing!Top(t) EXCEPT !.at = "set", !.locks = {"window"}])
    <3> HIDE DEF c
    <3> DEFINE e == [c EXCEPT !.at = "set", !.locks = {"window"}]
    <3>1. /\ e \in KnownCalls /\ e.fn = c.fn /\ e.win = c.win /\ e.from = c.from
          /\ Sensible(e)
      BY <1>2, <1>3 DEF KnownCalls, Sensible, Showing!Runs, Showing!Sends, c
    <3>2. Showing!Goto(t, e)
      BY <2>1 DEF c
    <3> HIDE DEF e
    <3> QED BY <1>2, <1>3, <3>1, <3>2, PaletteCallGoesOn DEF c
  <2> QED BY <2>1
<1> QED BY <1>1, <1>4 DEF WindowInv

LEMMA SetPaletteKeeps ==
    ASSUME WindowInv, NEW t \in Users, Showing!SetPalette(t) PROVE WindowInv'
<1> USE DEF Showing!SetPalette, Showing!objectVars, Showing!systemVars
<1> DEFINE c == Showing!Top(t)
<1>1. WindowTypes' /\ PostedInv'
  <2>1. c \in KnownCalls
    BY TopIs DEF WindowInv, StacksInv, Showing!Runs
  <2>2. c.win \in Shown
    BY <2>1 DEF KnownCalls
  <2> HIDE DEF c
  <2> QED BY <2>2, WindowConstants DEF WindowInv, WindowTypes, PostedInv, c
<1>2. StacksInv /\ stack[t] # << >> /\ c \in KnownCalls /\ Sensible(c)
  BY TopIs DEF WindowInv, StacksInv, Showing!Runs
<1>3. c.fn = "prepare" /\ c.message = "none" /\ UNCHANGED << m_hwnd, window, deleted, m_bDoPostToDestroy >>
  BY <1>2 DEF Showing!Runs, Sensible, KnownCalls
<1>4. StacksInv'
  <2>1. CASE Showing!Goto(t, [Showing!Sends(Showing!Top(t), "pending", Showing!Top(t).win, "realise") EXCEPT !.at = "sent", !.locks = {}])
    <3> HIDE DEF c
    <3> DEFINE e == [Showing!Sends(c, "pending", c.win, "realise") EXCEPT !.at = "sent", !.locks = {}]
    <3>1. /\ e \in KnownCalls /\ e.fn = c.fn /\ e.win = c.win /\ e.from = c.from
          /\ Sensible(e)
      BY <1>2, <1>3 DEF KnownCalls, Sensible, Showing!Runs, Showing!Sends, c
    <3>2. Showing!Goto(t, e)
      BY <2>1 DEF c
    <3> HIDE DEF e
    <3> QED BY <1>2, <1>3, <3>1, <3>2, PaletteCallGoesOn DEF c
  <2> QED BY <2>1
<1> QED BY <1>1, <1>4 DEF WindowInv

LEMMA SendsIs ==
    ASSUME NEW c \in KnownCalls, NEW kind \in {"posted", "pending"}, NEW to \in Shown
    PROVE  LET m == Showing!Sends(c, kind, to, "destroy") IN
           /\ m \in KnownCalls /\ m.fn = c.fn /\ m.win = c.win /\ m.from = c.from
           /\ m.message = kind /\ m.what = "destroy" /\ m.to = to
BY DEF KnownCalls, Showing!Sends

LEMMA SentKeeps ==
    ASSUME WindowInv, NEW t \in Users, Showing!Sent(t) PROVE WindowInv'
<1> USE DEF Showing!Sent, Showing!systemVars
<1> DEFINE c == Showing!Top(t)
<1>1. StacksInv /\ stack[t] # << >> /\ c \in KnownCalls /\ Sensible(c)
  BY TopIs DEF WindowInv, StacksInv, Showing!Runs
<1>2. c.win \in Shown /\ c.fn # "destroy" /\ c.message # "taken"
  BY <1>1 DEF KnownCalls, Sensible, Showing!Runs, Showing!Waits
<1>3. WindowTypes' /\ PostedInv'
  <2>1. m_bActivated' \in [Shown -> BOOLEAN]
    <3>1. m_bActivated' = [m_bActivated EXCEPT ![c.win] = @ \/ c.what = "activate"]
      OBVIOUS
    <3>2. (m_bActivated[c.win] \/ c.what = "activate") \in BOOLEAN
      OBVIOUS
    <3> HIDE DEF c
    <3> QED BY <3>1, <3>2 DEF WindowInv, WindowTypes
  <2> QED BY <2>1 DEF WindowInv, WindowTypes, PostedInv
<1>4. StacksInv'
  BY <1>1, <1>2, PaletteCallReturns
<1> QED BY <1>3, <1>4 DEF WindowInv

LEMMA NobodyThereKeeps ==
    ASSUME WindowInv, NEW t \in Users, Showing!NobodyThere(t) PROVE WindowInv'
<1> USE DEF Showing!NobodyThere, Showing!objectVars, Showing!systemVars
<1> DEFINE c == Showing!Top(t)
           e == [c EXCEPT !.message = "answered"]
           n == Len(stack[t])
<1>1. /\ StacksInv /\ stack[t] # << >> /\ c \in KnownCalls /\ Sensible(c)
      /\ n \in DOMAIN stack[t] /\ c = stack[t][n]
  BY TopIs DEF WindowInv, StacksInv, Showing!Waits
<1>2. WindowTypes' /\ PostedInv'
  BY DEF WindowInv, WindowTypes, PostedInv
<1>3. c.message = "pending" /\ Showing!Goto(t, e)
      /\ UNCHANGED << m_hwnd, window, deleted, m_bDoPostToDestroy >>
  OBVIOUS
<1> HIDE DEF c
<1>4. /\ e \in KnownCalls /\ e.fn = c.fn /\ e.win = c.win /\ e.from = c.from
      /\ Sensible(e)
  BY <1>1, <1>3 DEF KnownCalls, Sensible
<1>5. m_bDoPostToDestroy => Stands(t, n, e, m_hwnd, window)
  <2> HIDE DEF n
  <2>1. m_bDoPostToDestroy => Stands(t, n, c, m_hwnd, window)
    BY <1>1 DEF StacksInv, Standing
  <2>2. e.at = c.at
    BY <1>1 DEF KnownCalls
  <2> QED BY <1>3, <1>4, <2>1, <2>2 DEF Stands
<1> HIDE DEF e
<1>6. StacksInv'
  BY <1>1, <1>3, <1>4, <1>5, GoesOnSound DEF c
<1> QED BY <1>2, <1>6 DEF WindowInv

LEMMA TellOwnerKeeps ==
    ASSUME WindowInv, NEW t \in Users, Showing!TellOwner(t) PROVE WindowInv'
<1> USE DEF Showing!TellOwner, Showing!objectVars, Showing!systemVars
<1> DEFINE c == Showing!Top(t)
           told == [Showing!Sends(c, Showing!DestroyMessage, c.win, "destroy") EXCEPT !.at = "clear"]
           e == IF window[c.win] /\ m_hwnd[c.win] THEN told ELSE [c EXCEPT !.at = "clear"]
           n == Len(stack[t])
<1>1. /\ StacksInv /\ stack[t] # << >> /\ c \in KnownCalls /\ Sensible(c)
      /\ n \in DOMAIN stack[t] /\ c = stack[t][n]
  BY TopIs DEF WindowInv, StacksInv, Showing!Runs
<1>2. WindowTypes' /\ PostedInv'
  BY DEF WindowInv, WindowTypes, PostedInv
<1>3. c.at = "test" /\ Showing!Goto(t, e)
      /\ UNCHANGED << m_hwnd, window, deleted, m_bDoPostToDestroy >>
  BY DEF Showing!Runs
<1> HIDE DEF c, n
<1>4. c.fn = "done" /\ c.message = "none"
  BY <1>1, <1>3 DEF KnownCalls, Sensible
<1>5. /\ told \in KnownCalls /\ told.fn = c.fn /\ told.win = c.win /\ told.from = c.from
      /\ told.message = Showing!DestroyMessage /\ told.at = "clear" /\ told.what = "destroy"
      /\ told.to = c.win /\ told.message \in {"posted", "pending"}
  <2>1. Showing!DestroyMessage \in {"posted", "pending"}
    BY DEF Showing!DestroyMessage
  <2> DEFINE m == Showing!Sends(c, Showing!DestroyMessage, c.win, "destroy")
  <2>2. /\ m \in KnownCalls /\ m.fn = c.fn /\ m.win = c.win /\ m.from = c.from
        /\ m.message = Showing!DestroyMessage /\ m.what = "destroy" /\ m.to = c.win
    <3> HIDE DEF Showing!TellOwner
    <3>1. c.win \in Shown
      BY <1>1 DEF KnownCalls
    <3> QED BY <1>1, <2>1, <3>1, SendsIs
  <2> HIDE DEF m
  <2>3. told = [m EXCEPT !.at = "clear"]
    BY DEF m
  <2> QED BY <2>1, <2>2, <2>3 DEF KnownCalls
<1>6. /\ e \in KnownCalls /\ e.fn = c.fn /\ e.win = c.win /\ e.from = c.from
      /\ Sensible(e)
  <2>1. CASE window[c.win] /\ m_hwnd[c.win]
    BY <1>4, <1>5, <2>1 DEF Sensible
  <2>2. CASE ~(window[c.win] /\ m_hwnd[c.win])
    BY <1>1, <1>4, <2>2 DEF KnownCalls, Sensible
  <2> QED BY <2>1, <2>2
<1>7. m_bDoPostToDestroy => Stands(t, n, e, m_hwnd, window)
  <2>1. ASSUME m_bDoPostToDestroy PROVE Stands(t, n, e, m_hwnd, window)
    <3>1. Stands(t, n, c, m_hwnd, window) /\ (m_hwnd[c.win] => window[c.win])
      BY <1>1, <2>1 DEF StacksInv, Standing, KnownCalls
    <3>2. e = told
      BY <1>4, <3>1 DEF Stands
    <3> HIDE DEF e
    <3> QED BY <1>4, <1>5, <2>1, <3>1, <3>2 DEF Stands, Showing!DestroyMessage
  <2> QED BY <2>1
<1> HIDE DEF e
<1>8. StacksInv'
  BY <1>1, <1>3, <1>4, <1>6, <1>7, GoesOnSound DEF c, n
<1> QED BY <1>2, <1>8 DEF WindowInv

LEMMA InactivateWindowKeeps ==
    ASSUME WindowInv, NEW t \in Users, Showing!InactivateWindow(t) PROVE WindowInv'
<1> USE DEF Showing!InactivateWindow
<1> DEFINE c == Showing!Top(t)
           e == [c EXCEPT !.at = "uninit"]
           n == Len(stack[t])
<1>1. /\ StacksInv /\ stack[t] # << >> /\ c \in KnownCalls /\ Sensible(c)
      /\ n \in DOMAIN stack[t] /\ c = stack[t][n]
  BY TopIs DEF WindowInv, StacksInv, Showing!Runs
<1>3. /\ c.at = "hide" /\ Showing!Goto(t, e)
      /\ UNCHANGED << m_hwnd, window, deleted, m_bDoPostToDestroy >>
      /\ UNCHANGED << posted, events, calls, m_hPalette >>
      /\ visible' = [visible EXCEPT ![c.win] = @ /\ ~m_bActivated[c.win]]
      /\ m_bActivated' = [m_bActivated EXCEPT ![c.win] = FALSE]
  BY DEF Showing!Runs
<1> HIDE DEF c, n
<1>2. WindowTypes' /\ PostedInv'
  <2>1. (visible[c.win] /\ ~m_bActivated[c.win]) \in BOOLEAN /\ FALSE \in BOOLEAN
    OBVIOUS
  <2>2. WindowTypes'
    BY <1>3, <2>1 DEF WindowInv, WindowTypes
  <2> QED BY <1>3, <2>2 DEF WindowInv, PostedInv
<1>4. c.fn = "destroy" /\ c.message = "none"
  BY <1>1, <1>3 DEF KnownCalls, Sensible
<1>6. /\ e \in KnownCalls /\ e.fn = c.fn /\ e.win = c.win /\ e.from = c.from
      /\ Sensible(e) /\ e.at = "uninit"
  BY <1>1, <1>4 DEF KnownCalls, Sensible
<1>7. m_bDoPostToDestroy => Stands(t, n, e, m_hwnd, window)
  <2>1. m_bDoPostToDestroy => Stands(t, n, c, m_hwnd, window)
    BY <1>1 DEF StacksInv, Standing
  <2> QED BY <1>3, <1>4, <1>6, <2>1 DEF Stands
<1> HIDE DEF e
<1>8. StacksInv'
  BY <1>1, <1>3, <1>4, <1>6, <1>7, GoesOnSound DEF c, n
<1> QED BY <1>2, <1>8 DEF WindowInv

LEMMA InitialiseWindowKeeps ==
    ASSUME WindowInv, NEW t \in Users, Showing!InitialiseWindow(t) PROVE WindowInv'
<1> USE DEF Showing!InitialiseWindow, Showing!systemVars
<1> DEFINE c == Showing!Top(t)
           n == Len(stack[t])
           s == Showing!Popped(t)
<1>1. /\ StacksInv /\ stack[t] # << >> /\ c \in KnownCalls /\ Sensible(c)
      /\ n \in DOMAIN stack[t] /\ c = stack[t][n]
  BY TopIs DEF WindowInv, StacksInv, Showing!Runs
<1>2. WindowTypes' /\ PostedInv'
  BY DEF WindowInv, WindowTypes, PostedInv
<1>3. /\ c.at = "create" /\ stack' = s /\ m_hwnd' = [m_hwnd EXCEPT ![c.win] = TRUE]
      /\ UNCHANGED << window, deleted, m_bDoPostToDestroy >>
  BY DEF Showing!Runs, Showing!Return
<1>4. c.fn = "create" /\ c.message = "none" /\ c.win \in Shown
  BY <1>1, <1>3 DEF KnownCalls, Sensible
<1>5. /\ StackSound(s)
      /\ \A u \in Users : \A i \in DOMAIN s[u] :
           /\ i \in DOMAIN stack[u] /\ ~(u = t /\ i = n)
           /\ s[u][i].fn = stack[u][i].fn /\ s[u][i].win = stack[u][i].win
      /\ m_bDoPostToDestroy => Standing(s, m_hwnd, window, deleted)
  BY <1>1, <1>4, ReturnedAre DEF StacksInv
<1> HIDE DEF c, n, s
<1>6. ASSUME m_bDoPostToDestroy PROVE Standing(s, m_hwnd', window, deleted)
  <2>1. NobodyIn(s, c.win)
    BY <1>1, <1>4, <1>5, <1>6 DEF StacksInv, Standing, Together, Besides, NobodyIn
  <2>2. window[c.win] /\ ~deleted[c.win]
    BY <1>1, <1>4, <1>6 DEF StacksInv, Standing, Stands
  <2>3. /\ m_hwnd' \in [Shown -> BOOLEAN] /\ m_hwnd \in [Shown -> BOOLEAN]
        /\ window \in [Shown -> BOOLEAN] /\ deleted \in [Shown -> BOOLEAN]
        /\ SameBut(c.win, m_hwnd', m_hwnd) /\ SameBut(c.win, window, window)
        /\ SameBut(c.win, deleted, deleted)
    BY <1>3 DEF WindowInv, WindowTypes, SameBut
  <2>4. Standing(s, m_hwnd, window, deleted) /\ s \in [Users -> Seq(KnownCalls)]
    BY <1>5, <1>6 DEF StackSound
  <2> QED BY <1>4, <2>1, <2>2, <2>3, <2>4, WindowFree
<1> QED BY <1>1, <1>2, <1>3, <1>5, <1>6 DEF WindowInv, StacksInv

LEMMA ClearWindowKeeps ==
    ASSUME WindowInv, NEW t \in Users, Showing!ClearWindow(t) PROVE WindowInv'
<1> USE DEF Showing!ClearWindow, Showing!systemVars
<1> DEFINE c == Showing!Top(t)
           n == Len(stack[t])
           s == Showing!Popped(t)
<1>1. /\ StacksInv /\ stack[t] # << >> /\ c \in KnownCalls /\ Sensible(c)
      /\ n \in DOMAIN stack[t] /\ c = stack[t][n]
  BY TopIs DEF WindowInv, StacksInv, Showing!Runs
<1>2. WindowTypes' /\ PostedInv'
  BY DEF WindowInv, WindowTypes, PostedInv
<1>3. /\ c.at = "clear" /\ stack' = s /\ m_hwnd' = [m_hwnd EXCEPT ![c.win] = FALSE]
      /\ deleted' = [deleted EXCEPT ![c.win] = TRUE]
      /\ UNCHANGED << window, m_bDoPostToDestroy >>
      /\ c.message \notin {"posted", "pending", "taken"}
  BY DEF Showing!Runs, Showing!Return, Showing!Waits
<1>4. c.fn = "done" /\ c.message \in {"none", "answered"} /\ c.win \in Shown
  BY <1>1, <1>3 DEF KnownCalls, Sensible
<1>5. /\ StackSound(s)
      /\ \A u \in Users : \A i \in DOMAIN s[u] :
           /\ i \in DOMAIN stack[u] /\ ~(u = t /\ i = n)
           /\ s[u][i].fn = stack[u][i].fn /\ s[u][i].win = stack[u][i].win
      /\ m_bDoPostToDestroy => Standing(s, m_hwnd, window, deleted)
  BY <1>1, <1>3, <1>4, ReturnedAre DEF StacksInv
<1> HIDE DEF c, n, s
<1>6. ASSUME m_bDoPostToDestroy PROVE Standing(s, m_hwnd', window, deleted')
  <2>1. Standing(stack, m_hwnd, window, deleted)
    BY <1>1, <1>6 DEF StacksInv
  <2>2. c.message = "answered" /\ ~m_hwnd[c.win]
    <3>1. Stands(t, n, c, m_hwnd, window)
      BY <1>1, <2>1 DEF Standing
    <3> QED BY <1>3, <1>4, <3>1 DEF Stands
  <2>3. ASSUME NEW u \in Users, NEW i \in DOMAIN s[u], s[u][i].win = c.win PROVE FALSE
    <3>1. /\ i \in DOMAIN stack[u] /\ ~(u = t /\ i = n) /\ stack[u][i].win = c.win
      BY <1>5, <2>3
    <3>2. Besides(c, u, stack[u][i]) /\ Stands(u, i, stack[u][i], m_hwnd, window)
      BY <1>1, <2>1, <3>1 DEF Standing, Together
    <3> QED BY <1>4, <2>2, <3>1, <3>2 DEF Besides, Stands
  <2>4. /\ m_hwnd' \in [Shown -> BOOLEAN] /\ m_hwnd \in [Shown -> BOOLEAN] /\ ~m_hwnd'[c.win]
        /\ window \in [Shown -> BOOLEAN] /\ deleted \in [Shown -> BOOLEAN]
        /\ m_hwnd'[c.win] => window[c.win] /\ ~deleted'[c.win]
        /\ SameBut(c.win, m_hwnd', m_hwnd) /\ SameBut(c.win, window, window)
        /\ SameBut(c.win, deleted', deleted)
    BY <1>3, <1>4 DEF WindowInv, WindowTypes, SameBut
  <2>5. Standing(s, m_hwnd, window, deleted) /\ s \in [Users -> Seq(KnownCalls)]
    BY <1>5, <1>6 DEF StackSound
  <2>6. NobodyIn(s, c.win)
    BY <2>3 DEF NobodyIn
  <2> QED BY <1>4, <2>4, <2>5, <2>6, WindowFree
<1> QED BY <1>1, <1>2, <1>3, <1>5, <1>6 DEF WindowInv, StacksInv

LEMMA UninitialiseWindowKeeps ==
    ASSUME WindowInv, NEW t \in Users, Showing!UninitialiseWindow(t) PROVE WindowInv'
<1> USE DEF Showing!UninitialiseWindow, Showing!systemVars
<1> DEFINE c == Showing!Top(t)
           e == [c EXCEPT !.at = "destroy"]
           n == Len(stack[t])
<1>1. /\ StacksInv /\ stack[t] # << >> /\ c \in KnownCalls /\ Sensible(c)
      /\ n \in DOMAIN stack[t] /\ c = stack[t][n] /\ (c.message # "taken" => ~Handled(stack, t, n))
  BY TopIs DEF WindowInv, StacksInv, Showing!Runs
<1>2. WindowTypes' /\ PostedInv'
  BY DEF WindowInv, WindowTypes, PostedInv
<1>3. /\ c.at = "uninit" /\ stack' = [stack EXCEPT ![t][n] = e]
      /\ m_hwnd' = [m_hwnd EXCEPT ![c.win] = FALSE]
      /\ UNCHANGED << window, deleted, m_bDoPostToDestroy >>
  BY DEF Showing!Runs, Showing!Goto
<1>4. stack \in [Users -> Seq(KnownCalls)] /\ DOMAIN stack[t] = 1..n
  <2>1. stack \in [Users -> Seq(KnownCalls)]
    BY <1>1 DEF StacksInv, StackSound
  <2> QED BY <2>1
<1> HIDE DEF c, n
<1>5. c.fn = "destroy" /\ c.message = "none" /\ c.win \in Shown
  BY <1>1, <1>3 DEF KnownCalls, Sensible
<1>6. /\ e \in KnownCalls /\ e.fn = c.fn /\ e.win = c.win /\ e.from = c.from
      /\ Sensible(e) /\ e.at = "destroy"
  BY <1>1, <1>5 DEF KnownCalls, Sensible
<1> HIDE DEF e
<1>7. StackSound(stack')
  <2>1. StackSound([stack EXCEPT ![t][n] = e])
    BY <1>1, <1>5, <1>6, ReplaceSound DEF StacksInv
  <2> QED BY <1>3, <2>1
<1>8. ASSUME m_bDoPostToDestroy PROVE Standing(stack', m_hwnd', window, deleted)
  <2>1. Standing(stack, m_hwnd, window, deleted) /\ StackSound(stack)
    BY <1>1, <1>8 DEF StacksInv
  <2>2. t = Owner[c.win] /\ n = 1 /\ m_hwnd[c.win]
    BY <1>1, <1>3, <1>5, <2>1 DEF Standing, Stands
  <2>3. Together(stack')
    <3>1. Together([stack EXCEPT ![t][n] = e])
      BY <1>1, <1>5, <1>6, <2>1, ReplaceTogether DEF Standing
    <3> QED BY <1>3, <3>1
  <2>4. Replaced(stack', stack, t, n, e)
    <3>1. Replaced([stack EXCEPT ![t][n] = e], stack, t, n, e)
      BY <1>1, <1>6, <2>1, ReplacedIs
    <3> QED BY <1>3, <3>1
  <2>5. ASSUME NEW u \in Users, NEW i \in DOMAIN stack[u]
        PROVE  Stands(u, i, stack'[u][i], m_hwnd', window) /\ ~deleted[stack'[u][i].win]
    <3>1. CASE u = t /\ i = n
      <4>1. stack'[u][i] = e /\ ~deleted[e.win]
        BY <1>1, <1>6, <2>1, <2>4, <3>1 DEF Replaced, Standing
      <4>2. ~m_hwnd'[e.win]
        BY <1>3, <1>5, <1>6 DEF WindowInv, WindowTypes
      <4> QED BY <1>5, <1>6, <2>2, <3>1, <4>1, <4>2 DEF Stands
    <3>2. CASE ~(u = t /\ i = n)
      <4> DEFINE x == stack[u][i]
      <4>1. stack'[u][i] = x /\ Stands(u, i, x, m_hwnd, window) /\ ~deleted[x.win]
        BY <2>1, <2>4, <3>2 DEF Replaced, Standing
      <4>2. CASE x.win # c.win
        <5>1. x.win \in Shown
          <6>1. x \in KnownCalls
            BY <1>4
          <6> QED BY <6>1 DEF KnownCalls
        <5>2. m_hwnd'[x.win] = m_hwnd[x.win]
          BY <1>3, <4>2, <5>1 DEF WindowInv, WindowTypes
        <5> QED BY <4>1, <5>2 DEF Stands
      <4>3. CASE x.win = c.win
        <5>1. Besides(c, u, x) /\ Besides(x, t, c)
          BY <1>1, <2>1, <3>2 DEF Standing, Together
        <5>2. u # t
          BY <1>4, <2>2, <3>2
        <5>3. x.fn = "done" /\ x.message = "taken"
          BY <1>5, <2>2, <4>1, <4>3, <5>1, <5>2 DEF Besides, Stands
        <5> QED BY <4>1, <5>3 DEF Stands
      <4> QED BY <4>2, <4>3
    <3> QED BY <3>1, <3>2
  <2>6. \A w \in Shown : m_hwnd'[w] => window[w] /\ ~deleted[w]
    BY <1>3, <2>1 DEF WindowInv, WindowTypes, Standing
  <2>7. \A u \in Users : \A i \in DOMAIN stack'[u] :
           Stands(u, i, stack'[u][i], m_hwnd', window) /\ ~deleted[stack'[u][i].win]
    BY <2>4, <2>5 DEF Replaced
  <2> QED BY <2>3, <2>6, <2>7 DEF Standing
<1> QED BY <1>1, <1>2, <1>3, <1>7, <1>8 DEF WindowInv, StacksInv

LEMMA WindowGone ==
    ASSUME NEW s \in [Users -> Seq(KnownCalls)], NEW w \in Shown,
           NEW hwnd, NEW made, NEW gone, Standing(s, hwnd, made, gone), ~hwnd[w],
           \A u \in Users : \A i \in DOMAIN s[u] : s[u][i].fn = "create" => s[u][i].win # w,
           NEW made2, SameBut(w, made2, made)
    PROVE  Standing(s, hwnd, made2, gone)
<1>1. \A u \in Users : \A i \in DOMAIN s[u] : s[u][i].win \in Shown
  <2>1. ASSUME NEW u \in Users, NEW i \in DOMAIN s[u] PROVE s[u][i].win \in Shown
    <3>1. s[u] \in Seq(KnownCalls)
      OBVIOUS
    <3>2. s[u][i] \in KnownCalls
      BY <3>1
    <3> QED BY <3>2 DEF KnownCalls
  <2> QED BY <2>1
<1>2. ASSUME NEW u \in Users, NEW i \in DOMAIN s[u]
      PROVE  Stands(u, i, s[u][i], hwnd, made2) /\ ~gone[s[u][i].win]
  BY <1>1, <1>2 DEF Standing, Stands, SameBut
<1>3. \A v \in Shown : hwnd[v] => made2[v] /\ ~gone[v]
  BY DEF Standing, SameBut
<1> QED BY <1>2, <1>3 DEF Standing

LEMMA DestroyWindowKeeps ==
    ASSUME WindowInv, NEW t \in Users, Showing!DestroyWindow(t) PROVE WindowInv'
<1> USE DEF Showing!DestroyWindow
<1> DEFINE c == Showing!Top(t)
           n == Len(stack[t])
           s == Showing!Popped(t)
<1>1. /\ StacksInv /\ stack[t] # << >> /\ c \in KnownCalls /\ Sensible(c)
      /\ n \in DOMAIN stack[t] /\ c = stack[t][n]
  BY TopIs DEF WindowInv, StacksInv, Showing!Runs
<1>3. /\ c.at = "destroy" /\ stack' = s
      /\ window' = [window EXCEPT ![c.win] = FALSE] /\ visible' = [visible EXCEPT ![c.win] = FALSE]
      /\ posted' = [posted EXCEPT ![c.win] = 0]
      /\ deleted' = [deleted EXCEPT ![c.win] = @ \/ c.from = NoSender]
      /\ UNCHANGED << m_hwnd, m_hPalette, m_bActivated, m_bDoPostToDestroy, calls, events >>
  BY DEF Showing!Runs, Showing!Return
<1>4. c.fn = "destroy" /\ c.message = "none" /\ c.win \in Shown
  BY <1>1, <1>3 DEF KnownCalls, Sensible
<1>5. /\ StackSound(s)
      /\ \A u \in Users : \A i \in DOMAIN s[u] :
           /\ i \in DOMAIN stack[u] /\ ~(u = t /\ i = n)
           /\ s[u][i].fn = stack[u][i].fn /\ s[u][i].win = stack[u][i].win
      /\ m_bDoPostToDestroy /\ ~m_hwnd[c.win] => Standing(s, m_hwnd, window, deleted)
  BY <1>1, <1>4, ReturnedAre DEF StacksInv
<1> HIDE DEF c, n, s
<1>2. WindowTypes' /\ PostedInv'
  <2>1. (deleted[c.win] \/ c.from = NoSender) \in BOOLEAN
    OBVIOUS
  <2>2. deleted' \in [Shown -> BOOLEAN]
    BY <1>3, <2>1, Zenon DEF WindowInv, WindowTypes
  <2>3. window' \in [Shown -> BOOLEAN] /\ visible' \in [Shown -> BOOLEAN]
    BY <1>3 DEF WindowInv, WindowTypes
  <2>4. PostedInv'
    <3>1. /\ posted \in [Shown -> Nat] /\ events \in Nat /\ events <= MaxEvents /\ calls \in Nat
          /\ \A w \in Shown : posted[w] <= events
      BY DEF WindowInv, PostedInv
    <3>2. posted' = [posted EXCEPT ![c.win] = 0] /\ events' = events /\ calls' = calls
      BY <1>3
    <3>3. posted' \in [Shown -> Nat] /\ \A w \in Shown : posted'[w] <= events
      <4>1. posted' \in [Shown -> Nat]
        <5>1. 0 \in Nat
          OBVIOUS
        <5> QED BY <3>1, <3>2, <5>1, Zenon
      <4>2. ASSUME NEW w \in Shown PROVE posted'[w] <= events
        <5>1. posted'[w] = IF w = c.win THEN 0 ELSE posted[w]
          BY <3>1, <3>2
        <5>2. posted[w] <= events /\ 0 <= events
          BY <3>1
        <5> QED BY <5>1, <5>2
      <4> QED BY <4>1, <4>2
    <3> QED BY <3>1, <3>2, <3>3 DEF PostedInv
  <2> QED BY <1>3, <2>2, <2>3, <2>4 DEF WindowInv, WindowTypes
<1>6. ASSUME m_bDoPostToDestroy PROVE Standing(s, m_hwnd, window', deleted')
  <2>1. Standing(stack, m_hwnd, window, deleted)
    BY <1>1, <1>6 DEF StacksInv
  <2>2. ~m_hwnd[c.win] /\ t = Owner[c.win] /\ n = 1
    BY <1>1, <1>3, <1>4, <2>1 DEF Standing, Stands
  <2>3. Standing(s, m_hwnd, window, deleted) /\ s \in [Users -> Seq(KnownCalls)]
    BY <1>5, <1>6, <2>2 DEF StackSound
  <2>4. ASSUME NEW u \in Users, NEW i \in DOMAIN s[u], s[u][i].win = c.win
        PROVE  s[u][i].fn = "done" /\ c.from # NoSender
    <3> DEFINE x == stack[u][i]
    <3>1. i \in DOMAIN stack[u] /\ ~(u = t /\ i = n) /\ x.win = c.win /\ s[u][i].fn = x.fn
      BY <1>5, <2>4
    <3>2. Besides(c, u, x) /\ Besides(x, t, c) /\ Stands(u, i, x, m_hwnd, window)
      BY <1>1, <2>1, <3>1 DEF Standing, Together
    <3> QED BY <1>4, <2>2, <3>1, <3>2 DEF Besides, Stands
  <2>5. /\ SameBut(c.win, window', window) /\ SameBut(c.win, deleted', deleted)
        /\ SameBut(c.win, m_hwnd, m_hwnd)
    BY <1>3 DEF WindowInv, WindowTypes, SameBut
  <2>6. CASE c.from = NoSender
    <3>1. NobodyIn(s, c.win)
      BY <2>4, <2>6 DEF NobodyIn
    <3>2. /\ m_hwnd \in [Shown -> BOOLEAN] /\ window \in [Shown -> BOOLEAN]
          /\ deleted \in [Shown -> BOOLEAN]
      BY DEF WindowInv, WindowTypes
    <3>3. m_hwnd[c.win] => window'[c.win] /\ ~deleted'[c.win]
      BY <2>2
    <3> QED BY <1>4, <2>3, <2>5, <3>1, <3>2, <3>3, WindowFree
  <2>7. CASE c.from # NoSender
    <3>1. deleted' = deleted
      BY <1>3, <1>4, <2>7 DEF WindowInv, WindowTypes
    <3>2. \A u \in Users : \A i \in DOMAIN s[u] : s[u][i].fn = "create" => s[u][i].win # c.win
      BY <2>4
    <3>3. Standing(s, m_hwnd, window', deleted)
      BY <1>4, <2>2, <2>3, <2>5, <3>2, WindowGone
    <3> QED BY <3>1, <3>3
  <2> QED BY <2>6, <2>7
<1> QED BY <1>1, <1>2, <1>3, <1>5, <1>6 DEF WindowInv, StacksInv

Ordinary == {"realise", "prepare", "show"}

LEMMA PushOrdinary ==
    ASSUME NEW s, StackSound(s), NEW t \in Users, NEW e \in KnownCalls, e.fn \in Ordinary,
           NEW hwnd, NEW made, NEW gone, Standing(s, hwnd, made, gone), hwnd[e.win],
           \/ e.fn = "realise" /\ t = Owner[e.win]
           \/ \A u \in Users : \A i \in DOMAIN s[u] :
                 s[u][i].win = e.win => s[u][i].fn \notin {"done", "destroy"}
    PROVE  Standing([s EXCEPT ![t] = Append(@, e)], hwnd, made, gone)
<1>1. e.win \in Shown
  BY DEF KnownCalls
<1>2. Stands(t, Len(s[t]) + 1, e, hwnd, made) /\ ~gone[e.win]
  BY <1>1 DEF Standing, Stands, Ordinary
<1>3. ASSUME NEW u \in Users, NEW i \in DOMAIN s[u]
      PROVE  Besides(s[u][i], t, e) /\ Besides(e, u, s[u][i])
  <2>1. Stands(u, i, s[u][i], hwnd, made)
    BY DEF Standing
  <2>2. Besides(e, u, s[u][i])
    BY DEF Besides, Ordinary
  <2>3. Besides(s[u][i], t, e)
    BY <2>1 DEF Besides, Ordinary, Stands
  <2> QED BY <2>2, <2>3
<1> QED BY <1>2, <1>3, PushStands

\* A call without a sender that waits.
LEMMA CallIs ==
    ASSUME NEW fn \in {"create", "realise", "prepare", "show", "done", "destroy"}, NEW w \in Shown,
           NEW at \in {"create", "lock", "hdc", "broadcast", "memdc", "redraw", "remove", "unset",
                       "make", "window", "set", "sent", "test", "clear", "hide", "uninit", "destroy"}
    PROVE  LET c == Showing!Call(fn, w, at) IN
           /\ c \in KnownCalls /\ c.fn = fn /\ c.win = w /\ c.at = at /\ c.message = "none"
           /\ c.what = "none" /\ c.to = w /\ c.from = NoSender
BY DEF KnownCalls, Showing!Call

LEMMA BeginSound ==
    ASSUME StackSound(stack), NEW t \in Users, NEW e \in KnownCalls, Sensible(e), e.from = NoSender
    PROVE  StackSound([stack EXCEPT ![t] = Append(@, e)])
<1>1. Answers(stack, e)
  BY DEF Answers
<1> QED BY <1>1, PushSound

\* What the window procedure runs: nothing, a new palette, or the end of the window.
LEMMA HandlerIs ==
    ASSUME NEW w \in Shown, NEW what, NEW from \in Shown, WindowTypes
    PROVE  \/ /\ Showing!Handler(w, what, from) = << >>
              /\ what = "destroy" => ~m_hwnd[w]
           \/ /\ m_hwnd[w] /\ Len(Showing!Handler(w, what, from)) = 1
              /\ Showing!Handler(w, what, from) = << Showing!Handler(w, what, from)[1] >>
              /\ LET e == Showing!Handler(w, what, from)[1] IN
                 /\ e \in KnownCalls /\ e.win = w /\ e.message = "none" /\ e.what = "none"
                 /\ e.to = w /\ e.from = NoSender
                 /\ e.fn = (IF what = "destroy" THEN "destroy" ELSE "realise")
                 /\ e.at = (IF what = "destroy" THEN "hide" ELSE "lock")
<1> DEFINE h == Showing!Handler(w, what, from)
           last == Showing!Call("destroy", w, "hide")
           c == Showing!Call("realise", w, "lock")
           e == [c EXCEPT !.redraw = (what = "changed")]
<1>1. CASE what = "destroy" /\ m_hwnd[w]
  <2>1. h = << last >>
    BY <1>1 DEF Showing!Handler
  <2>2. /\ last \in KnownCalls /\ last.fn = "destroy" /\ last.win = w /\ last.at = "hide"
        /\ last.message = "none" /\ last.what = "none" /\ last.to = w /\ last.from = NoSender
    BY CallIs
  <2> HIDE DEF last, h
  <2> QED BY <1>1, <2>1, <2>2 DEF h
<1>2. CASE what \in {"realise", "changed"} /\ Showing!MustRealise(w, what, from)
  <2>1. h = << e >>
    BY <1>2 DEF Showing!Handler
  <2>2. m_hwnd[w]
    BY <1>2 DEF Showing!MustRealise
  <2>3. /\ c \in KnownCalls /\ c.fn = "realise" /\ c.win = w /\ c.at = "lock"
        /\ c.message = "none" /\ c.what = "none" /\ c.to = w /\ c.from = NoSender
    BY CallIs
  <2>4. (what = "changed") \in BOOLEAN
    OBVIOUS
  <2> HIDE DEF c
  <2>5. /\ e \in KnownCalls /\ e.fn = "realise" /\ e.win = w /\ e.at = "lock"
        /\ e.message = "none" /\ e.what = "none" /\ e.to = w /\ e.from = NoSender
    BY <2>3, <2>4 DEF KnownCalls
  <2> HIDE DEF e, h
  <2> QED BY <1>2, <2>1, <2>2, <2>5 DEF h
<1>3. CASE /\ ~(what = "destroy" /\ m_hwnd[w])
           /\ ~(what \in {"realise", "changed"} /\ Showing!MustRealise(w, what, from))
  <2>1. h = << >>
    BY <1>3 DEF Showing!Handler
  <2> QED BY <1>3, <2>1
<1> QED BY <1>1, <1>2, <1>3

LEMMA TakePostedKeeps ==
    ASSUME WindowInv, NEW t \in Users, Showing!TakePosted(t) PROVE WindowInv'
<1>1. PICK w \in Shown :
         /\ Owner[w] = t /\ posted[w] > 0
         /\ posted' = [posted EXCEPT ![w] = @ - 1]
         /\ stack' = [stack EXCEPT ![t] = Showing!Handler(w, "realise", w)]
  BY DEF Showing!TakePosted
<1>2. stack[t] = << >> /\ UNCHANGED << m_bDoPostToDestroy, m_hwnd, m_hPalette, m_bActivated, deleted >>
      /\ UNCHANGED << window, visible, calls, events >>
  BY DEF Showing!TakePosted, Showing!objectVars
<1>3. WindowTypes' /\ PostedInv'
  <2>1. /\ posted \in [Shown -> Nat] /\ events \in Nat /\ events <= MaxEvents /\ calls \in Nat
        /\ \A v \in Shown : posted[v] <= events
    BY DEF WindowInv, PostedInv
  <2>2. posted[w] - 1 \in Nat /\ posted[w] - 1 <= events
    BY <1>1, <2>1
  <2>3. posted' \in [Shown -> Nat]
    BY <1>1, <2>1, <2>2, Zenon
  <2>4. \A v \in Shown : posted'[v] <= events
    BY <1>1, <2>1, <2>2
  <2> QED BY <1>2, <2>1, <2>3, <2>4 DEF WindowInv, WindowTypes, PostedInv
<1> DEFINE h == Showing!Handler(w, "realise", w)
           e == h[1]
<1>4. StackSound(stack) /\ stack \in [Users -> Seq(KnownCalls)]
  BY DEF WindowInv, StacksInv, StackSound
<1>5. CASE h = << >>
  <2>1. stack' = stack
    BY <1>1, <1>2, <1>4, <1>5
  <2>2. StacksInv'
    BY <1>2, <2>1 DEF WindowInv, StacksInv
  <2> QED BY <1>3, <2>2 DEF WindowInv
<1>6. CASE h # << >>
  <2>1. /\ m_hwnd[w] /\ h = << e >> /\ e \in KnownCalls /\ e.win = w /\ e.message = "none"
        /\ e.what = "none" /\ e.to = w /\ e.from = NoSender /\ e.fn = "realise" /\ e.at = "lock"
    BY <1>6, HandlerIs DEF WindowInv
  <2>2. stack' = [stack EXCEPT ![t] = h]
    BY <1>1
  <2> HIDE DEF h, e
  <2>3. stack' = [stack EXCEPT ![t] = Append(@, e)]
    BY <1>2, <1>4, <2>1, <2>2
  <2>4. Sensible(e)
    BY <2>1 DEF Sensible
  <2>5. StackSound(stack')
    BY <1>4, <2>1, <2>3, <2>4, BeginSound
  <2>6. ASSUME m_bDoPostToDestroy PROVE Standing(stack', m_hwnd, window, deleted)
    <3>1. Standing(stack, m_hwnd, window, deleted)
      BY <2>6 DEF WindowInv, StacksInv
    <3>2. Standing([stack EXCEPT ![t] = Append(@, e)], m_hwnd, window, deleted)
      BY <1>1, <1>4, <2>1, <3>1, PushOrdinary DEF Ordinary
    <3> QED BY <2>3, <3>2
  <2>7. StacksInv'
    BY <1>2, <2>5, <2>6 DEF WindowInv, StacksInv
  <2> QED BY <1>3, <2>7 DEF WindowInv
<1> QED BY <1>5, <1>6

LEMMA FocusKeeps ==
    ASSUME WindowInv, NEW w \in Shown, Showing!Focus(w) PROVE WindowInv'
<1> DEFINE h == Showing!Handler(w, "realise", w)
           e == h[1]
           t == Owner[w]
<1>1. /\ events < MaxEvents /\ events' = events + 1 /\ h # << >>
      /\ stack' = [stack EXCEPT ![t] = Append(@, e)]
      /\ UNCHANGED << m_bDoPostToDestroy, m_hwnd, m_hPalette, m_bActivated, deleted >>
      /\ UNCHANGED << window, visible, posted, calls >>
  BY DEF Showing!Focus, Showing!Push, Showing!objectVars, Showing!systemVars
<1>2. WindowTypes' /\ PostedInv'
  BY <1>1, WindowConstants DEF WindowInv, WindowTypes, PostedInv
<1>3. /\ m_hwnd[w] /\ e \in KnownCalls /\ e.win = w /\ e.message = "none"
      /\ e.what = "none" /\ e.to = w /\ e.from = NoSender /\ e.fn = "realise" /\ e.at = "lock"
  BY <1>1, HandlerIs DEF WindowInv
<1> HIDE DEF h, e
<1>4. StackSound(stack) /\ t \in Users
  BY WindowConstants DEF WindowInv, StacksInv
<1>5. Sensible(e)
  BY <1>3 DEF Sensible
<1>6. StackSound(stack')
  BY <1>1, <1>3, <1>4, <1>5, BeginSound
<1>7. ASSUME m_bDoPostToDestroy PROVE Standing(stack', m_hwnd, window, deleted)
  <2>1. Standing(stack, m_hwnd, window, deleted)
    BY <1>7 DEF WindowInv, StacksInv
  <2>2. Standing([stack EXCEPT ![t] = Append(@, e)], m_hwnd, window, deleted)
    BY <1>3, <1>4, <2>1, PushOrdinary DEF Ordinary
  <2> QED BY <1>1, <2>2
<1>8. StacksInv'
  BY <1>1, <1>6, <1>7 DEF WindowInv, StacksInv
<1> QED BY <1>2, <1>8 DEF WindowInv

LEMMA NotHandled ==
    ASSUME NEW s, StackSound(s), NEW u \in Users, NEW d \in DOMAIN s[u], s[u][d].message # "taken"
    PROVE  ~Handled(s, u, d)
<1>1. s[u] \in Seq(KnownCalls)
  BY DEF StackSound
<1>2. d \in Nat
  BY <1>1
<1>3. ASSUME NEW t \in Users, NEW i \in DOMAIN s[t], s[t][i].from = <<u, d>> PROVE FALSE
  <2>1. s[t][i].from # NoSender
    BY <1>2, <1>3, WindowConstants
  <2>2. Answers(s, s[t][i])
    BY DEF StackSound
  <2> QED BY <1>3, <2>1, <2>2 DEF Answers
<1> QED BY <1>3 DEF Handled

\* The message of a call is marked as taken or answered.
Marks(e, c, mark) ==
    /\ e \in KnownCalls /\ e.message = mark
    /\ e.fn = c.fn /\ e.win = c.win /\ e.from = c.from /\ e.at = c.at /\ e.what = c.what /\ e.to = c.to

Marked(s, u, d, mark) == [s EXCEPT ![u][d].message = mark]

LEMMA MarkSound ==
    ASSUME NEW s, StackSound(s), NEW u \in Users, NEW d \in DOMAIN s[u],
           s[u][d].message \in {"posted", "pending"}, NEW mark \in {"taken", "answered"}
    PROVE  /\ StackSound(Marked(s, u, d, mark))
           /\ \E e : Marks(e, s[u][d], mark) /\ Marked(s, u, d, mark) = [s EXCEPT ![u][d] = e]
<1> DEFINE e == [s[u][d] EXCEPT !.message = mark]
<1>1. s[u] \in Seq(KnownCalls) /\ s \in [Users -> Seq(KnownCalls)]
  BY DEF StackSound
<1>2. s[u][d] \in KnownCalls /\ Sensible(s[u][d])
  BY <1>1 DEF StackSound
<1>3. Marked(s, u, d, mark) = [s EXCEPT ![u][d] = e]
  BY <1>1, <1>2 DEF Marked
<1>4. Marks(e, s[u][d], mark)
  BY <1>2 DEF KnownCalls, Marks
<1> HIDE DEF e
<1>5. Sensible(e)
  BY <1>2, <1>4 DEF Sensible, Marks
<1>6. ~Handled(s, u, d)
  BY NotHandled
<1>7. StackSound([s EXCEPT ![u][d] = e])
  BY <1>4, <1>5, <1>6, ReplaceSound DEF Marks
<1> QED BY <1>3, <1>4, <1>7

LEMMA MarkStands ==
    ASSUME NEW s, StackSound(s), NEW u \in Users, NEW d \in DOMAIN s[u],
           s[u][d].message \in {"posted", "pending"}, NEW mark \in {"taken", "answered"},
           NEW hwnd, NEW made, NEW gone, Standing(s, hwnd, made, gone),
           mark = "answered" => s[u][d].fn # "done"
    PROVE  Standing(Marked(s, u, d, mark), hwnd, made, gone)
<1>1. PICK e : Marks(e, s[u][d], mark) /\ Marked(s, u, d, mark) = [s EXCEPT ![u][d] = e]
  BY MarkSound
<1>2. Stands(u, d, s[u][d], hwnd, made)
  BY DEF Standing
<1>3. Stands(u, d, e, hwnd, made)
  BY <1>1, <1>2 DEF Stands, Marks
<1>4. Standing([s EXCEPT ![u][d] = e], hwnd, made, gone)
  BY <1>1, <1>3, ReplaceStands DEF Marks
<1> QED BY <1>1, <1>4

LEMMA TakeKeeps ==
    ASSUME WindowInv, NEW t \in Users, Showing!Take(t) PROVE WindowInv'
<1>1. PICK u \in Users : \E d \in DOMAIN stack[u] :
         LET m == stack[u][d]
             handler == Showing!Handler(m.to, m.what, m.win)
         IN /\ Owner[m.to] = t /\ window[m.to]
            /\ \/ m.message = "pending" /\ Showing!Dispatches(t)
               \/ m.message = "posted" /\ stack[t] = << >>
            /\ IF handler = << >>
               THEN stack' = [stack EXCEPT ![u][d].message = "answered"]
               ELSE stack' = Showing!Push([stack EXCEPT ![u][d].message = "taken"], t,
                                          [handler[1] EXCEPT !.from = << u, d >>])
            /\ visible' = CASE m.what = "show" -> [visible EXCEPT ![m.to] = TRUE]
                            [] m.what = "hide" -> [visible EXCEPT ![m.to] = FALSE]
                            [] OTHER -> visible
  BY DEF Showing!Take
<1>2. PICK d \in DOMAIN stack[u] :
         LET m == stack[u][d]
             handler == Showing!Handler(m.to, m.what, m.win)
         IN /\ Owner[m.to] = t /\ window[m.to]
            /\ \/ m.message = "pending" /\ Showing!Dispatches(t)
               \/ m.message = "posted" /\ stack[t] = << >>
            /\ IF handler = << >>
               THEN stack' = [stack EXCEPT ![u][d].message = "answered"]
               ELSE stack' = Showing!Push([stack EXCEPT ![u][d].message = "taken"], t,
                                          [handler[1] EXCEPT !.from = << u, d >>])
            /\ visible' = CASE m.what = "show" -> [visible EXCEPT ![m.to] = TRUE]
                            [] m.what = "hide" -> [visible EXCEPT ![m.to] = FALSE]
                            [] OTHER -> visible
  BY <1>1
<1> DEFINE m == stack[u][d]
           h == Showing!Handler(m.to, m.what, m.win)
           g == h[1]
           e == [g EXCEPT !.from = << u, d >>]
           s == Marked(stack, u, d, "taken")
<1>3. /\ UNCHANGED << m_bDoPostToDestroy, m_hwnd, m_hPalette, m_bActivated, deleted >>
      /\ UNCHANGED << window, posted, calls, events >>
  BY DEF Showing!Take, Showing!objectVars
<1>4. /\ Owner[m.to] = t /\ m.message \in {"posted", "pending"}
      /\ m.message = "posted" => stack[t] = << >>
      /\ h = << >> => stack' = Marked(stack, u, d, "answered")
      /\ h # << >> => stack' = [s EXCEPT ![t] = Append(@, e)]
  BY <1>2 DEF Showing!Push, Marked
<1>5. StackSound(stack) /\ stack \in [Users -> Seq(KnownCalls)] /\ d \in Nat
  <2>1. StackSound(stack) /\ stack \in [Users -> Seq(KnownCalls)]
    BY DEF WindowInv, StacksInv, StackSound
  <2> QED BY <2>1
<1>6. m \in KnownCalls /\ Sensible(m) /\ m.to \in Shown /\ m.win \in Shown
  <2>1. stack[u] \in Seq(KnownCalls)
    BY <1>5
  <2>2. m \in KnownCalls
    BY <2>1
  <2> QED BY <1>5, <2>2 DEF StackSound, KnownCalls
<1>7. WindowTypes' /\ PostedInv'
  <2>1. \/ visible' = [visible EXCEPT ![m.to] = TRUE] \/ visible' = [visible EXCEPT ![m.to] = FALSE]
        \/ visible' = visible
    BY <1>2
  <2>2. visible' \in [Shown -> BOOLEAN]
    BY <2>1 DEF WindowInv, WindowTypes
  <2> QED BY <1>3, <2>2 DEF WindowInv, WindowTypes, PostedInv
<1>8. m_bDoPostToDestroy => Standing(stack, m_hwnd, window, deleted) /\ Stands(u, d, m, m_hwnd, window)
  BY DEF WindowInv, StacksInv, Standing
<1>9. CASE h = << >>
  <2>1. StackSound(stack')
    BY <1>4, <1>5, <1>9, MarkSound
  <2>2. ASSUME m_bDoPostToDestroy PROVE Standing(stack', m_hwnd, window, deleted)
    <3>1. m.fn # "done"
      <4>1. m.what = "destroy" => ~m_hwnd[m.to]
        BY <1>6, <1>9, HandlerIs DEF WindowInv
      <4> QED BY <1>4, <1>6, <1>8, <2>2, <4>1 DEF Sensible, Stands
    <3> QED BY <1>4, <1>5, <1>8, <1>9, <2>2, <3>1, MarkStands
  <2>3. StacksInv'
    BY <1>3, <2>1, <2>2 DEF WindowInv, StacksInv
  <2> QED BY <1>7, <2>3 DEF WindowInv
<1>10. CASE h # << >>
  <2>1. /\ m_hwnd[m.to] /\ g \in KnownCalls /\ g.win = m.to /\ g.message = "none"
        /\ g.what = "none" /\ g.to = m.to
        /\ g.fn = (IF m.what = "destroy" THEN "destroy" ELSE "realise")
        /\ g.at = (IF m.what = "destroy" THEN "hide" ELSE "lock")
    BY <1>6, <1>10, HandlerIs DEF WindowInv
  <2>2. <<u, d>> \in Showing!Places
    BY <1>5 DEF Showing!Places
  <2> HIDE DEF g, h
  <2>3. /\ e \in KnownCalls /\ e.win = m.to /\ e.message = "none" /\ e.what = "none"
        /\ e.to = m.to /\ e.from = <<u, d>> /\ e.fn = g.fn /\ e.at = g.at
    BY <2>1, <2>2 DEF KnownCalls
  <2>4. Sensible(e)
    BY <2>1, <2>3 DEF Sensible
  <2>0. PICK k : Marks(k, m, "taken") /\ s = [stack EXCEPT ![u][d] = k]
    BY <1>4, <1>5, MarkSound
  <2>5. /\ k \in KnownCalls /\ k.message = "taken"
        /\ k.fn = m.fn /\ k.win = m.win /\ k.from = m.from /\ k.at = m.at /\ k.what = m.what
        /\ k.to = m.to /\ StackSound(s)
    BY <1>4, <1>5, <2>0, MarkSound DEF Marks
  <2> HIDE DEF e, s
  <2>6. StackSound(s) /\ Replaced(s, stack, u, d, k)
    <3>1. Replaced([stack EXCEPT ![u][d] = k], stack, u, d, k)
      BY <1>5, <2>5, ReplacedIs
    <3> QED BY <2>0, <2>5, <3>1
  <2>7. d \in DOMAIN s[u] /\ s[u][d] = k
    BY <2>6 DEF Replaced
  <2>8. Answers(s, e)
    BY <2>1, <2>3, <2>5, <2>7 DEF Answers
  <2>9. \A v \in Users : \A i \in DOMAIN s[v] : s[v][i].from # e.from
    <3>1. ~Handled(stack, u, d)
      BY <1>4, <1>5, NotHandled
    <3>2. ASSUME NEW v \in Users, NEW i \in DOMAIN s[v] PROVE s[v][i].from # e.from
      <4>1. i \in DOMAIN stack[v] /\ s[v][i].from = stack[v][i].from
        BY <2>5, <2>6 DEF Replaced
      <4> QED BY <2>3, <3>1, <4>1 DEF Handled
    <3> QED BY <3>2
  <2>10. StackSound(stack')
    <3>1. StackSound([s EXCEPT ![t] = Append(@, e)])
      BY <2>3, <2>4, <2>6, <2>8, <2>9, PushSound
    <3> QED BY <1>4, <1>10, <3>1
  <2>11. ASSUME m_bDoPostToDestroy PROVE Standing(stack', m_hwnd, window, deleted)
    <3>1. Standing(s, m_hwnd, window, deleted)
      BY <1>4, <1>5, <1>8, <2>11, MarkStands DEF s
    <3>2. CASE e.fn = "realise"
      <4>1. Standing([s EXCEPT ![t] = Append(@, e)], m_hwnd, window, deleted)
        BY <1>4, <2>1, <2>3, <2>6, <3>1, <3>2, PushOrdinary DEF Ordinary
      <4> QED BY <1>4, <1>10, <4>1
    <3>3. CASE e.fn # "realise"
      <4>1. m.what = "destroy" /\ e.fn = "destroy" /\ e.at = "hide"
        BY <2>1, <2>3, <3>3
      <4>2. m.fn = "done" /\ m.to = m.win /\ m.message = "posted" /\ stack[t] = << >>
        BY <1>4, <1>6, <1>8, <2>11, <4>1 DEF Sensible, Stands
      <4>3. s[t] = << >>
        <5>1. t # u
          BY <4>2
        <5>2. s[t] = stack[t]
          BY <1>5, <2>0, <5>1
        <5> QED BY <4>2, <5>2
      <4>4. Stands(t, Len(s[t]) + 1, e, m_hwnd, window) /\ ~deleted[e.win]
        <5>1. ~deleted[e.win]
          BY <1>6, <1>8, <2>1, <2>3, <2>11 DEF Standing
        <5>2. Len(s[t]) + 1 = 1
          BY <4>3
        <5> QED BY <1>4, <2>1, <2>3, <4>1, <5>1, <5>2 DEF Stands
      <4>5. ASSUME NEW v \in Users, NEW i \in DOMAIN s[v]
            PROVE  Besides(s[v][i], t, e) /\ Besides(e, v, s[v][i])
        <5>1. CASE v = u /\ i = d
          BY <2>3, <2>5, <2>7, <4>1, <4>2, <5>1, WindowConstants, <1>5 DEF Besides
        <5>2. CASE (v # u \/ i # d) /\ stack[v][i].win = e.win
          <6>1. i \in DOMAIN stack[v] /\ s[v][i] = stack[v][i]
            BY <2>6, <5>2 DEF Replaced
          <6>2. Besides(m, v, stack[v][i]) /\ Besides(stack[v][i], u, m)
            BY <1>8, <2>11, <5>2, <6>1 DEF Standing, Together
          <6>3. v # t
            BY <4>2, <6>1
          <6> QED BY <1>4, <2>3, <4>2, <5>2, <6>2, <6>3 DEF Besides
        <5>3. CASE (v # u \/ i # d) /\ stack[v][i].win # e.win
          <6>1. s[v][i] = stack[v][i]
            BY <2>6, <5>3 DEF Replaced
          <6> QED BY <5>3, <6>1 DEF Besides
        <5> QED BY <5>1, <5>2, <5>3
      <4>6. Standing([s EXCEPT ![t] = Append(@, e)], m_hwnd, window, deleted)
        BY <2>3, <2>6, <3>1, <4>4, <4>5, PushStands
      <4> QED BY <1>4, <1>10, <4>6
    <3> QED BY <3>2, <3>3
  <2>12. StacksInv'
    BY <1>3, <2>10, <2>11 DEF WindowInv, StacksInv
  <2> QED BY <1>7, <2>12 DEF WindowInv
<1> QED BY <1>9, <1>10

\* A thread that is free calls a method: every call that is not yet there.
LEMMA BeginIs ==
    ASSUME WindowInv, NEW t \in Users, NEW e, Showing!Begin(t, e)
    PROVE  /\ stack[t] = << >> /\ stack' = [stack EXCEPT ![t] = Append(@, e)]
           /\ calls' \in Nat /\ StackSound(stack)
           /\ m_bDoPostToDestroy => Standing(stack, m_hwnd, window, deleted)
<1>1. calls' \in Nat
  BY DEF WindowInv, PostedInv, Showing!Begin
<1> QED BY <1>1 DEF WindowInv, StacksInv, Showing!Begin, Showing!Push

LEMMA PrepareWindowKeeps ==
    ASSUME WindowInv, NEW w \in Shown, Showing!PrepareWindow(w) PROVE WindowInv'
<1> DEFINE e == Showing!Call("create", w, "create")
           t == Owner[w]
<1>1. /\ ~window[w] /\ ~deleted[w] /\ \A u \in Users : ~Showing!Inside(u, w)
      /\ Showing!Begin(t, e) /\ window' = [window EXCEPT ![w] = TRUE]
      /\ UNCHANGED << m_bDoPostToDestroy, m_hwnd, m_hPalette, m_bActivated, deleted >>
      /\ UNCHANGED << visible, posted, events >>
  BY DEF Showing!PrepareWindow, Showing!objectVars
<1>2. /\ e \in KnownCalls /\ e.fn = "create" /\ e.win = w /\ e.at = "create"
      /\ e.message = "none" /\ e.what = "none" /\ e.to = w /\ e.from = NoSender
  BY CallIs
<1>3. t \in Users
  BY WindowConstants
<1> HIDE DEF e, t
<1>4. /\ stack[t] = << >> /\ stack' = [stack EXCEPT ![t] = Append(@, e)]
      /\ calls' \in Nat /\ StackSound(stack)
      /\ m_bDoPostToDestroy => Standing(stack, m_hwnd, window, deleted)
  BY <1>1, <1>3, BeginIs
<1>5. Sensible(e)
  BY <1>2 DEF Sensible
<1>6. WindowTypes' /\ PostedInv'
  BY <1>1, <1>4 DEF WindowInv, WindowTypes, PostedInv
<1>7. StackSound(stack')
  BY <1>2, <1>3, <1>4, <1>5, BeginSound
<1>8. NobodyIn(stack, w)
  BY <1>1 DEF NobodyIn, Showing!Inside
<1>9. ASSUME m_bDoPostToDestroy PROVE Standing(stack', m_hwnd, window', deleted)
  <2>1. Standing(stack, m_hwnd, window, deleted)
    BY <1>4, <1>9
  <2>2. ~m_hwnd[w] /\ window'[w]
    BY <1>1, <2>1 DEF Standing, WindowInv, WindowTypes
  <2>3. /\ m_hwnd \in [Shown -> BOOLEAN] /\ window \in [Shown -> BOOLEAN]
        /\ deleted \in [Shown -> BOOLEAN] /\ stack \in [Users -> Seq(KnownCalls)]
    BY <1>4 DEF WindowInv, WindowTypes, StackSound
  <2>4. SameBut(w, m_hwnd, m_hwnd) /\ SameBut(w, window', window) /\ SameBut(w, deleted, deleted)
    BY <1>1, <2>3 DEF SameBut
  <2>5. Standing(stack, m_hwnd, window', deleted)
    BY <1>8, <2>1, <2>2, <2>3, <2>4, WindowFree
  <2>6. Stands(t, Len(stack[t]) + 1, e, m_hwnd, window') /\ ~deleted[e.win]
    BY <1>1, <1>2, <2>2 DEF Stands
  <2>7. \A u \in Users : \A i \in DOMAIN stack[u] :
           Besides(stack[u][i], t, e) /\ Besides(e, u, stack[u][i])
    BY <1>2, <1>8 DEF NobodyIn, Besides
  <2>8. Standing([stack EXCEPT ![t] = Append(@, e)], m_hwnd, window', deleted)
    BY <1>2, <1>3, <1>4, <2>5, <2>6, <2>7, PushStands
  <2> QED BY <1>4, <2>8
<1>10. StacksInv'
  BY <1>1, <1>7, <1>9 DEF WindowInv, StacksInv
<1> QED BY <1>6, <1>10 DEF WindowInv

\* Calls of an object that has its window and is not on its way out.
LEMMA UsedKeeps ==
    ASSUME WindowInv, NEW w \in Shown, NEW t \in Users, Showing!Usable(w),
           NEW e \in KnownCalls, e.fn \in Ordinary, e.win = w, e.from = NoSender, Sensible(e),
           Showing!Begin(t, e),
           UNCHANGED << m_bDoPostToDestroy, m_hwnd, m_hPalette, m_bActivated, deleted >>,
           UNCHANGED << window, visible, posted, events >>
    PROVE  WindowInv'
<1>1. /\ stack[t] = << >> /\ stack' = [stack EXCEPT ![t] = Append(@, e)]
      /\ calls' \in Nat /\ StackSound(stack)
      /\ m_bDoPostToDestroy => Standing(stack, m_hwnd, window, deleted)
  BY BeginIs
<1>2. WindowTypes' /\ PostedInv'
  BY <1>1 DEF WindowInv, WindowTypes, PostedInv
<1>3. StackSound(stack')
  BY <1>1, BeginSound
<1>4. m_hwnd[w] /\ \A u \in Users : \A i \in DOMAIN stack[u] :
         stack[u][i].win = w => stack[u][i].fn \notin {"done", "destroy"}
  BY DEF Showing!Usable
<1>5. ASSUME m_bDoPostToDestroy PROVE Standing(stack', m_hwnd, window, deleted)
  <2>1. Standing([stack EXCEPT ![t] = Append(@, e)], m_hwnd, window, deleted)
    BY <1>1, <1>4, <1>5, PushOrdinary
  <2> QED BY <1>1, <2>1
<1>6. StacksInv'
  BY <1>3, <1>5 DEF WindowInv, StacksInv
<1> QED BY <1>2, <1>6 DEF WindowInv

LEMMA PreparePaletteKeeps ==
    ASSUME WindowInv, NEW w \in Shown, NEW t \in Users, Showing!PreparePalette(t, w)
    PROVE  WindowInv'
<1> DEFINE e == Showing!Call("prepare", w, "remove")
<1>1. /\ Showing!Usable(w) /\ Showing!Begin(t, e)
      /\ UNCHANGED << m_bDoPostToDestroy, m_hwnd, m_hPalette, m_bActivated, deleted >>
      /\ UNCHANGED << window, visible, posted, events >>
  BY DEF Showing!PreparePalette, Showing!objectVars, Showing!systemVars
<1>2. /\ e \in KnownCalls /\ e.fn = "prepare" /\ e.win = w /\ e.at = "remove"
      /\ e.message = "none" /\ e.what = "none" /\ e.to = w /\ e.from = NoSender
  BY CallIs
<1> HIDE DEF e
<1>3. Sensible(e) /\ e.fn \in Ordinary
  BY <1>2 DEF Sensible, Ordinary
<1> QED BY <1>1, <1>2, <1>3, UsedKeeps

LEMMA DoRealisePaletteKeeps ==
    ASSUME WindowInv, NEW w \in Shown, NEW t \in Users, Showing!DoRealisePalette(t, w)
    PROVE  WindowInv'
<1> DEFINE e == Showing!Call("realise", w, "lock")
<1>1. /\ Showing!Usable(w) /\ Showing!Begin(t, e)
      /\ UNCHANGED << m_bDoPostToDestroy, m_hwnd, m_hPalette, m_bActivated, deleted >>
      /\ UNCHANGED << window, visible, posted, events >>
  BY DEF Showing!DoRealisePalette, Showing!objectVars, Showing!systemVars
<1>2. /\ e \in KnownCalls /\ e.fn = "realise" /\ e.win = w /\ e.at = "lock"
      /\ e.message = "none" /\ e.what = "none" /\ e.to = w /\ e.from = NoSender
  BY CallIs
<1> HIDE DEF e
<1>3. Sensible(e) /\ e.fn \in Ordinary
  BY <1>2 DEF Sensible, Ordinary
<1> QED BY <1>1, <1>2, <1>3, UsedKeeps

LEMMA ShowKeeps ==
    ASSUME WindowInv, NEW w \in Shown, NEW t \in Users, NEW what \in {"show", "hide", "activate"},
           Showing!Usable(w),
           Showing!Begin(t, Showing!Sends(Showing!Call("show", w, "sent"), "pending", w, what)),
           UNCHANGED << m_bDoPostToDestroy, m_hwnd, m_hPalette, m_bActivated, deleted >>,
           UNCHANGED << window, visible, posted, events >>
    PROVE  WindowInv'
<1> DEFINE c == Showing!Call("show", w, "sent")
           e == Showing!Sends(c, "pending", w, what)
<1>1. /\ c \in KnownCalls /\ c.fn = "show" /\ c.win = w /\ c.at = "sent"
      /\ c.message = "none" /\ c.what = "none" /\ c.to = w /\ c.from = NoSender
  BY CallIs
<1> HIDE DEF c
<1>2. /\ e \in KnownCalls /\ e.fn = "show" /\ e.win = w /\ e.at = "sent"
      /\ e.message = "pending" /\ e.what = what /\ e.from = NoSender
  BY <1>1 DEF KnownCalls, Showing!Sends
<1>3. Showing!Begin(t, e)
  BY DEF c
<1> HIDE DEF e
<1>4. Sensible(e) /\ e.fn \in Ordinary
  BY <1>2 DEF Sensible, Ordinary
<1> QED BY <1>2, <1>3, <1>4, UsedKeeps

LEMMA put_VisibleKeeps ==
    ASSUME WindowInv, NEW w \in Shown, NEW t \in Users, Showing!put_Visible(t, w)
    PROVE  WindowInv'
<1>1. /\ Showing!Usable(w)
      /\ UNCHANGED << m_bDoPostToDestroy, m_hwnd, m_hPalette, m_bActivated, deleted >>
      /\ UNCHANGED << window, visible, posted, events >>
  BY DEF Showing!put_Visible, Showing!objectVars, Showing!systemVars
<1>2. PICK what \in {"show", "hide"} :
         Showing!Begin(t, Showing!Sends(Showing!Call("show", w, "sent"), "pending", w, what))
  BY DEF Showing!put_Visible
<1> QED BY <1>1, <1>2, ShowKeeps

LEMMA ActivateWindowKeeps ==
    ASSUME WindowInv, NEW w \in Shown, NEW t \in Users, Showing!ActivateWindow(t, w)
    PROVE  WindowInv'
<1>1. /\ Showing!Usable(w)
      /\ UNCHANGED << m_bDoPostToDestroy, m_hwnd, m_hPalette, m_bActivated, deleted >>
      /\ UNCHANGED << window, visible, posted, events >>
      /\ Showing!Begin(t, Showing!Sends(Showing!Call("show", w, "sent"), "pending", w, "activate"))
  BY DEF Showing!ActivateWindow, Showing!objectVars, Showing!systemVars
<1> QED BY <1>1, ShowKeeps

LEMMA put_BackgroundPaletteKeeps ==
    ASSUME WindowInv, NEW w \in Shown, NEW t \in Users, Showing!put_BackgroundPalette(t, w)
    PROVE  WindowInv'
<1>1. /\ events < MaxEvents /\ events' = events + 1
      /\ posted' = [posted EXCEPT ![w] = @ + 1]
      /\ UNCHANGED << m_bDoPostToDestroy, m_hwnd, m_hPalette, m_bActivated, deleted >>
      /\ UNCHANGED << window, visible, stack, calls >>
  BY DEF Showing!put_BackgroundPalette, Showing!objectVars
<1>2. /\ posted \in [Shown -> Nat] /\ events \in Nat /\ events <= MaxEvents /\ calls \in Nat
      /\ \A v \in Shown : posted[v] <= events
  BY DEF WindowInv, PostedInv
<1>3. posted[w] + 1 \in Nat /\ posted[w] + 1 <= events' /\ events' \in Nat /\ events' <= MaxEvents
  BY <1>1, <1>2, WindowConstants
<1>4. posted' \in [Shown -> Nat]
  BY <1>1, <1>2, <1>3, Zenon
<1>5. \A v \in Shown : posted'[v] <= events'
  BY <1>1, <1>2, <1>3
<1>6. WindowTypes' /\ PostedInv'
  BY <1>1, <1>2, <1>3, <1>4, <1>5 DEF WindowInv, WindowTypes, PostedInv
<1>7. StacksInv'
  BY <1>1 DEF WindowInv, StacksInv
<1> QED BY <1>6, <1>7 DEF WindowInv

LEMMA DoneWithWindowKeeps ==
    ASSUME WindowInv, NEW w \in Shown, Showing!DoneWithWindow(w) PROVE WindowInv'
<1> DEFINE last == Showing!Call("destroy", w, "hide")
           done == Showing!Call("done", w, "test")
           t == Destroyer[w]
           e == IF t = Owner[w] THEN last ELSE done
<1>1. /\ Showing!Usable(w) /\ \A u \in Users \ {Owner[w]} : ~Showing!Inside(u, w)
      /\ \A i \in DOMAIN stack[Owner[w]] :
            stack[Owner[w]][i].win = w => stack[Owner[w]][i].fn = "realise"
      /\ Showing!Begin(t, e)
      /\ UNCHANGED << m_bDoPostToDestroy, m_hwnd, m_hPalette, m_bActivated, deleted >>
      /\ UNCHANGED << window, visible, posted, events >>
  BY DEF Showing!DoneWithWindow, Showing!objectVars, Showing!systemVars
<1>2. t \in Users /\ Owner[w] \in Users
  BY WindowConstants
<1>3. /\ last \in KnownCalls /\ last.fn = "destroy" /\ last.win = w /\ last.at = "hide"
      /\ last.message = "none" /\ last.what = "none" /\ last.to = w /\ last.from = NoSender
  BY CallIs
<1>4. /\ done \in KnownCalls /\ done.fn = "done" /\ done.win = w /\ done.at = "test"
      /\ done.message = "none" /\ done.what = "none" /\ done.to = w /\ done.from = NoSender
  BY CallIs
<1> HIDE DEF last, done
<1>5. /\ e \in KnownCalls /\ e.win = w /\ e.message = "none" /\ e.what = "none" /\ e.to = w
      /\ e.from = NoSender
      /\ t = Owner[w] => e.fn = "destroy" /\ e.at = "hide"
      /\ t # Owner[w] => e.fn = "done" /\ e.at = "test"
  BY <1>3, <1>4
<1> HIDE DEF e, t
<1>6. /\ stack[t] = << >> /\ stack' = [stack EXCEPT ![t] = Append(@, e)]
      /\ calls' \in Nat /\ StackSound(stack)
      /\ m_bDoPostToDestroy => Standing(stack, m_hwnd, window, deleted)
  BY <1>1, <1>2, BeginIs
<1>7. Sensible(e)
  BY <1>5 DEF Sensible
<1>8. WindowTypes' /\ PostedInv'
  BY <1>1, <1>6 DEF WindowInv, WindowTypes, PostedInv
<1>9. StackSound(stack')
  BY <1>2, <1>5, <1>6, <1>7, BeginSound
<1>10. ASSUME m_bDoPostToDestroy PROVE Standing(stack', m_hwnd, window, deleted)
  <2>1. Standing(stack, m_hwnd, window, deleted)
    BY <1>6, <1>10
  <2>2. m_hwnd[w] /\ ~deleted[w]
    BY <1>1 DEF Showing!Usable
  <2>3. Len(stack[t]) + 1 = 1
    BY <1>6
  <2>4. Stands(t, Len(stack[t]) + 1, e, m_hwnd, window) /\ ~deleted[e.win]
    BY <1>5, <2>2, <2>3 DEF Stands
  <2>5. ASSUME NEW u \in Users, NEW i \in DOMAIN stack[u]
        PROVE  Besides(stack[u][i], t, e) /\ Besides(e, u, stack[u][i])
    <3>1. CASE stack[u][i].win # w
      BY <1>5, <3>1 DEF Besides
    <3>2. CASE stack[u][i].win = w
      <4>1. u = Owner[w] /\ stack[u][i].fn = "realise"
        BY <1>1, <3>2 DEF Showing!Inside
      <4>2. t # Owner[w]
        BY <1>6, <4>1
      <4> QED BY <1>5, <4>1, <4>2 DEF Besides
    <3> QED BY <3>1, <3>2
  <2>6. Standing([stack EXCEPT ![t] = Append(@, e)], m_hwnd, window, deleted)
    BY <1>2, <1>5, <1>6, <2>1, <2>4, <2>5, PushStands
  <2> QED BY <1>6, <2>6
<1>11. StacksInv'
  BY <1>1, <1>9, <1>10 DEF WindowInv, StacksInv
<1> QED BY <1>8, <1>11 DEF WindowInv

LEMMA WindowInit == Showing!Init => WindowInv
<1> SUFFICES ASSUME Showing!Init PROVE WindowInv
  OBVIOUS
<1>1. WindowTypes
  BY DEF Showing!Init, WindowTypes
<1>2. PostedInv
  BY WindowConstants DEF Showing!Init, PostedInv
<1>3. stack \in [Users -> Seq(KnownCalls)] /\ \A t \in Users : DOMAIN stack[t] = {}
  BY DEF Showing!Init
<1>4. StackSound(stack)
  BY <1>3 DEF StackSound
<1>5. Standing(stack, m_hwnd, window, deleted)
  <2>1. \A w \in Shown : m_hwnd[w] => window[w] /\ ~deleted[w]
    BY DEF Showing!Init
  <2> QED BY <1>3, <2>1 DEF Standing, Together
<1>6. m_bDoPostToDestroy \in BOOLEAN
  BY DEF Showing!Init
<1> QED BY <1>1, <1>2, <1>4, <1>5, <1>6 DEF WindowInv, StacksInv

LEMMA WindowStays == WindowInv /\ UNCHANGED windowVars => WindowInv'
BY DEF windowVars, WindowInv, WindowTypes, PostedInv, StacksInv

LEMMA WindowStep == WindowInv /\ Showing!Next => WindowInv'
<1> SUFFICES ASSUME WindowInv, Showing!Next PROVE WindowInv'
  OBVIOUS
<1>1. ASSUME NEW w \in Shown,
             Showing!PrepareWindow(w) \/ Showing!Focus(w) \/ Showing!DoneWithWindow(w)
      PROVE  WindowInv'
  BY <1>1, PrepareWindowKeeps, FocusKeeps, DoneWithWindowKeeps
<1>2. ASSUME NEW w \in Shown, NEW t \in Renderers[w],
             Showing!PreparePalette(t, w) \/ Showing!DoRealisePalette(t, w)
      PROVE  WindowInv'
  <2>1. t \in Users
    BY WindowConstants
  <2> QED BY <1>2, <2>1, PreparePaletteKeeps, DoRealisePaletteKeeps
<1>3. ASSUME NEW w \in Shown, NEW t \in Callers[w],
             \/ Showing!put_Visible(t, w) \/ Showing!ActivateWindow(t, w)
             \/ Showing!put_BackgroundPalette(t, w)
      PROVE  WindowInv'
  <2>1. t \in Users
    BY WindowConstants
  <2> QED BY <1>3, <2>1, put_VisibleKeeps, ActivateWindowKeeps, put_BackgroundPaletteKeeps
<1>4. ASSUME NEW t \in Users, Showing!GoesOn(t) PROVE WindowInv'
  <2>1. CASE Showing!Take(t) \/ Showing!NobodyThere(t) \/ Showing!TakePosted(t)
    BY <2>1, TakeKeeps, NobodyThereKeeps, TakePostedKeeps
  <2>2. CASE \/ Showing!SelectPalette(t) \/ Showing!RealizePalette(t) \/ Showing!Broadcast(t)
             \/ Showing!RealizeMemory(t) \/ Showing!Redraw(t)
    BY <2>2, SelectPaletteKeeps, RealizePaletteKeeps, BroadcastKeeps, RealizeMemoryKeeps,
       RedrawKeeps
  <2>3. CASE \/ Showing!RemovePalette(t) \/ Showing!UnsetPalette(t) \/ Showing!MakePalette(t)
             \/ Showing!SetPaletteLock(t) \/ Showing!SetPalette(t) \/ Showing!Sent(t)
    BY <2>3, RemovePaletteKeeps, UnsetPaletteKeeps, MakePaletteKeeps, SetPaletteLockKeeps,
       SetPaletteKeeps, SentKeeps
  <2>4. CASE \/ Showing!InitialiseWindow(t) \/ Showing!TellOwner(t) \/ Showing!ClearWindow(t)
             \/ Showing!InactivateWindow(t) \/ Showing!UninitialiseWindow(t)
             \/ Showing!DestroyWindow(t)
    BY <2>4, InitialiseWindowKeeps, TellOwnerKeeps, ClearWindowKeeps, InactivateWindowKeeps,
       UninitialiseWindowKeeps, DestroyWindowKeeps
  <2> QED BY <1>4, <2>1, <2>2, <2>3, <2>4 DEF Showing!GoesOn
<1> QED BY <1>1, <1>2, <1>3, <1>4 DEF Showing!Next, Showing!Calls

LEMMA WindowHolds == WindowInv => Showing!TypeOK /\ Showing!DestroyedBetweenMessages
<1> SUFFICES ASSUME WindowInv PROVE Showing!TypeOK /\ Showing!DestroyedBetweenMessages
  OBVIOUS
<1>1. StackSound(stack) /\ stack \in [Users -> Seq(KnownCalls)]
  BY DEF WindowInv, StacksInv, StackSound
<1>2. Showing!TypeOK
  <2>1. {m_hwnd, m_hPalette, m_bActivated, window, visible, deleted} \subseteq [Shown -> BOOLEAN]
    BY DEF WindowInv, WindowTypes
  <2>2. posted \in [Shown -> 0..MaxEvents]
    <3>1. /\ posted \in [Shown -> Nat] /\ events \in Nat /\ events <= MaxEvents
          /\ \A w \in Shown : posted[w] <= events
      BY DEF WindowInv, PostedInv
    <3>2. \A w \in Shown : posted[w] \in 0..MaxEvents
      BY <3>1, WindowConstants
    <3> QED BY <3>1, <3>2
  <2>3. \A t \in Users : \A i \in DOMAIN stack[t] : stack[t][i] \in KnownCalls
    BY <1>1
  <2> QED BY <2>1, <2>2, <2>3, Zenon DEF Showing!TypeOK, KnownCalls
<1>3. Showing!DestroyedBetweenMessages
  <2>1. ASSUME m_bDoPostToDestroy, NEW t \in Users, stack[t] # << >>
        PROVE  /\ Showing!Top(t).at \in {"hdc", "memdc", "redraw", "unset"}
                     => m_hwnd[Showing!Top(t).win]
               /\ \A w \in Shown : deleted[w] => ~Showing!Inside(t, w)
    <3>1. Standing(stack, m_hwnd, window, deleted)
      BY <2>1 DEF WindowInv, StacksInv
    <3>2. /\ Len(stack[t]) \in DOMAIN stack[t] /\ Showing!Top(t) = stack[t][Len(stack[t])]
          /\ Showing!Top(t) \in KnownCalls /\ Sensible(Showing!Top(t))
      BY <1>1, <2>1, TopIs
    <3>3. Stands(t, Len(stack[t]), Showing!Top(t), m_hwnd, window)
      BY <3>1, <3>2 DEF Standing
    <3>4. ASSUME Showing!Top(t).at \in {"hdc", "memdc", "redraw", "unset"}
          PROVE  m_hwnd[Showing!Top(t).win]
      <4>1. Showing!Top(t).fn \in {"realise", "prepare"}
        BY <3>2, <3>4 DEF Sensible, KnownCalls
      <4> QED BY <3>3, <4>1 DEF Stands
    <3>5. \A w \in Shown : deleted[w] => ~Showing!Inside(t, w)
      BY <3>1 DEF Standing, Showing!Inside
    <3> QED BY <3>4, <3>5
  <2> QED BY <2>1 DEF Showing!DestroyedBetweenMessages
<1> QED BY <1>2, <1>3

-----------------------------------------------------------------------------
(* The three together: a step of one leaves the others as they are. *)

TransformsInv ==
    /\ part \in {"copying", "in place", "window"}
    /\ CopyingInv /\ InPlaceInv /\ WindowInv

LEMMA TransformsInvInit == TransformsInit => TransformsInv
BY CopyingInit, InPlaceInit, WindowInit DEF TransformsInit, TransformsInv

LEMMA TransformsInvStep == TransformsInv /\ [TransformsNext]_mcVars => TransformsInv'
<1> SUFFICES ASSUME TransformsInv, [TransformsNext]_mcVars PROVE TransformsInv'
  OBVIOUS
<1>1. CASE Copying!Next /\ UNCHANGED << part, inPlaceVars, windowVars >>
  BY <1>1, CopyingStep, InPlaceStays, WindowStays DEF TransformsInv
<1>2. CASE InPlace!Next /\ UNCHANGED << part, copyingVars, windowVars >>
  BY <1>2, CopyingStays, InPlaceStep, WindowStays DEF TransformsInv
<1>3. CASE Showing!Next /\ UNCHANGED << part, copyingVars, inPlaceVars >>
  BY <1>3, CopyingStays, InPlaceStays, WindowStep DEF TransformsInv
<1>4. CASE UNCHANGED mcVars
  BY <1>4, CopyingStays, InPlaceStays, WindowStays DEF TransformsInv, mcVars
<1> QED BY <1>1, <1>2, <1>3, <1>4 DEF TransformsNext

\* CTransformFilter and CVideoTransformFilter: a filter that was stopped or flushed transforms
\* nothing more, though Stop, a flush and Receive run on three threads, and no picture is shown
\* that was decoded without the frames before it, unless the filter gave up waiting.
\* CTransInPlaceFilter: whatever the length of the chain and whatever is disconnected and connected
\* again, both ends of a link have the same allocator, no filter writes into one that is
\* read-only, and with no reconnect to come there is one type, and no copy but the one that is
\* needed.  CBaseWindow: a window that is destroyed by a posted message goes between two messages.
THEOREM TransformsHold == TransformsSpec => []TransformsSound
<1>1. TransformsInv => TransformsSound
  BY CopyingHolds, InPlaceHolds, WindowHolds DEF TransformsInv, TransformsSound
<1> QED
  BY <1>1, TransformsInvInit, TransformsInvStep, PTL DEF TransformsSpec
==============================================================================
