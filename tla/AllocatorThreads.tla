-------------------------- MODULE AllocatorThreads --------------------------
(***************************************************************************)
(* The allocator of module MemAllocator used by several threads at once:   *)
(* a filter's streaming thread in GetBuffer, downstream threads that keep  *)
(* and release samples, and the threads that commit, decommit and          *)
(* disconnect.  Adds the reference counts: of a sample (CMediaSample), as  *)
(* the set of threads that hold a reference, and of the allocator itself.  *)
(***************************************************************************)
EXTENDS MemAllocator

CONSTANTS
    Threads,        \* all threads that use the allocator
    Streamers       \* those that call GetBuffer: streaming threads of a filter

ASSUME ThreadsAssumption == IsFiniteSet(Threads) /\ Streamers \subseteq Threads

VARIABLES
    pc,         \* where each thread is
    holders,    \* holders[s]: threads with a reference on sample s
    m_cRef,     \* references on the allocator
    owned       \* the connection still has its reference

threadVars == << pc, holders, m_cRef, owned >>
vars == << allocVars, threadVars >>

TypeOK ==
    /\ AllocTypeOK
    /\ pc \in [Threads -> {"idle", "getbuffer", "wait", "selfrelease", "dropref"}]
    /\ holders \in [Sample -> SUBSET Threads]
    /\ m_cRef \in Nat
    /\ owned \in BOOLEAN

\* CreateMemoryAllocator gives the connection the first reference.
Init ==
    /\ AllocInit
    /\ pc = [t \in Threads |-> "idle"]
    /\ holders = [s \in Sample |-> {}]
    /\ m_cRef = 1
    /\ owned = TRUE

Goto(t, label) == pc' = [pc EXCEPT ![t] = label]

-----------------------------------------------------------------------------
(* Calls made through the connection's reference. *)

CallSetProperties(t) ==
    /\ pc[t] = "idle" /\ owned
    /\ \E n \in 0 .. MaxCount : SetProperties(n)
    /\ UNCHANGED threadVars

\* The allocator takes a reference on itself when it allocates, not when it
\* cancels a pending Decommit: that reference is still there.
CommitAddsRef_Always == ~m_bCommitted       \* mutated form
CommitAddsRef == CommitsAnew

CallCommit(t) ==
    /\ pc[t] = "idle" /\ owned
    /\ \/ /\ Commit
          /\ m_cRef' = m_cRef + (IF CommitAddsRef THEN 1 ELSE 0)
       \/ /\ CommitFails
          /\ UNCHANGED m_cRef
    /\ UNCHANGED << pc, holders, owned >>

\* DoBufferProcessingLoop has released its sample before it asks for another
\* ("all paths release the sample").
EnterGetBuffer(t) ==
    /\ t \in Streamers
    /\ pc[t] = "idle" /\ owned
    /\ \A s \in Sample : t \notin holders[s]
    /\ Goto(t, "getbuffer")
    /\ UNCHANGED << allocVars, holders, m_cRef, owned >>

\* One pass of the loop in GetBuffer.
GetBuffer(t) ==
    /\ pc[t] = "getbuffer"
    /\ \/ GetRejected /\ Goto(t, "idle") /\ UNCHANGED holders
       \/ \E s \in m_lFree :
             /\ GetTakes(s)
             /\ holders' = [holders EXCEPT ![s] = {t}]
             /\ Goto(t, "idle")
       \/ GetMustWait /\ Goto(t, "wait") /\ UNCHANGED holders
    /\ UNCHANGED << m_cRef, owned >>

Wake(t) ==
    /\ pc[t] = "wait"
    /\ SemWait
    /\ Goto(t, "getbuffer")
    /\ UNCHANGED << holders, m_cRef, owned >>

CallDecommit(t) ==
    /\ pc[t] = "idle" /\ owned
    /\ Decommit
    /\ IF DecommitCompletes THEN Goto(t, "selfrelease") ELSE UNCHANGED pc
    /\ UNCHANGED << holders, m_cRef, owned >>

-----------------------------------------------------------------------------
(* Samples change hands and are released from any thread. *)

\* A holder passes the sample downstream, to a thread that adds a reference.
AddRefSample(t, u, s) ==
    /\ u \notin Streamers
    /\ pc[t] = "idle" /\ t \in holders[s] /\ u \notin holders[s]
    /\ holders' = [holders EXCEPT ![s] = @ \cup {u}]
    /\ UNCHANGED << allocVars, pc, m_cRef, owned >>

ReleaseSample(t, s) ==
    /\ pc[t] = "idle" /\ t \in holders[s]
    /\ holders' = [holders EXCEPT ![s] = @ \ {t}]
    /\ IF holders[s] = {t}
       THEN /\ ReleaseBuffer(s)
            /\ IF ReleaseCompletes(s) THEN Goto(t, "selfrelease") ELSE UNCHANGED pc
       ELSE UNCHANGED << allocVars, pc >>
    /\ UNCHANGED << m_cRef, owned >>

\* After the critical section: the reference the allocator held on itself.
SelfRelease(t) ==
    /\ pc[t] = "selfrelease"
    /\ m_cRef' = m_cRef - 1
    /\ Goto(t, "idle")
    /\ UNCHANGED << allocVars, holders, owned >>

-----------------------------------------------------------------------------
(* The connection ends: Decommit, then the connection's reference.  The    *)
(* filter disconnects only when stopped, with no thread of it in GetBuffer.*)

NobodyInGetBuffer == \A t \in Threads : pc[t] \notin {"getbuffer", "wait"}

BreakConnect(t) ==
    /\ pc[t] = "idle" /\ owned /\ NobodyInGetBuffer
    /\ \A u \in Threads : pc[u] # "dropref"
    /\ Decommit
    /\ owned' = FALSE
    /\ Goto(t, "dropref")
    /\ m_cRef' = m_cRef - (IF DecommitCompletes THEN 1 ELSE 0)
    /\ UNCHANGED holders

DropRef(t) ==
    /\ pc[t] = "dropref"
    /\ m_cRef' = m_cRef - 1
    /\ Goto(t, "idle")
    /\ UNCHANGED << allocVars, holders, owned >>

\* The last reference is gone: the destructor frees everything, and the next
\* connection gets a new allocator.
Reconnect ==
    /\ m_cRef = 0
    /\ \A t \in Threads : pc[t] = "idle"
    /\ m_bCommitted' = FALSE /\ m_bDecommitInProgress' = FALSE /\ m_bChanged' = FALSE
    /\ m_lCount' = 0 /\ m_lAllocated' = 0 /\ m_lFree' = {}
    /\ m_lWaiting' = 0 /\ m_hSem' = 0
    /\ m_cRef' = 1 /\ owned' = TRUE
    /\ UNCHANGED << pc, holders >>

ThreadStep(t) ==
    \/ GetBuffer(t) \/ Wake(t) \/ SelfRelease(t) \/ DropRef(t)

Next ==
    \/ \E t \in Threads :
          \/ CallSetProperties(t) \/ CallCommit(t) \/ EnterGetBuffer(t)
          \/ CallDecommit(t) \/ BreakConnect(t)
          \/ ThreadStep(t)
          \/ \E s \in Sample : ReleaseSample(t, s)
          \/ \E s \in Sample, u \in Threads : AddRefSample(t, u, s)
    \/ Reconnect

\* A thread inside a call goes on, and a sample somebody holds is released.
Fairness ==
    \A t \in Threads :
        /\ WF_vars(ThreadStep(t))
        /\ \A s \in Sample : WF_vars(ReleaseSample(t, s))

Spec     == Init /\ [][Next]_vars
FairSpec == Spec /\ Fairness

-----------------------------------------------------------------------------
(* Properties. *)

At(label) == {t \in Threads : pc[t] = label}

SelfReference == IF m_bCommitted \/ m_bDecommitInProgress THEN 1 ELSE 0

\* Every reference on the allocator has an owner: the connection (or the thread
\* about to give that reference up), the allocator itself from Commit to the
\* completed Decommit, and a thread that left the critical section of
\* ReleaseBuffer or Decommit and still has to call Release.
RefAccounting ==
    m_cRef = (IF owned THEN 1 ELSE 0) + Cardinality(At("dropref"))
               + SelfReference + Cardinality(At("selfrelease"))

\* The allocator is not destroyed while a buffer is out or a thread waits in it
\* (the comment over CMediaSample::Release gives this as the reason for the
\* self reference).
LiveWhileUsed ==
    m_cRef = 0 => /\ \A s \in Sample : holders[s] = {}
                  /\ \A t \in Threads : pc[t] = "idle"

\* A sample is on the free list or referenced, never both and never neither,
\* across re-allocation and cancelled decommits.
SampleConservation ==
    \A s \in Sample : s \in m_lFree <=> (s \in Allocated /\ holders[s] = {})

\* No reference is left on a sample that re-allocation has deleted.
NoDanglingSample == \A s \in Sample : holders[s] # {} => s \in Allocated

\* No wake-up is lost or invented: threads blocked on the semaphore are the
\* announced waits that were not notified plus the counts not yet consumed.
WakeupAccounting == Cardinality(At("wait")) = m_lWaiting + m_hSem

\* The references are counted and the allocator outlives its use.
AllocatorLives == RefAccounting /\ LiveWhileUsed

\* No buffer is lost, doubled or deleted under its holder, whatever commits,
\* decommits and changes of the number of buffers come while buffers are out.
NoSampleLost ==
    SampleConservation /\ NoDanglingSample /\ OutstandingIsCovered /\ AllocatedAsAsked

\* Threads wait only as long as there is something to wait for, and a pending
\* Decommit too.
NoWakeupLost == WakeupAccounting /\ WaitersHaveReason /\ PendingHasReason

\* Decommit lets every blocked GetBuffer go (unless somebody commits again),
\* which Inactive relies on before it waits for the streaming thread.
DecommitFreesWaiters ==
    \A t \in Threads :
        (pc[t] = "wait" /\ ~m_bCommitted) ~> (pc[t] # "wait" \/ m_bCommitted)
=============================================================================
