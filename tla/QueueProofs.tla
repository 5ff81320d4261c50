----------------------------- MODULE QueueProofs ----------------------------
(***************************************************************************)
(* The two queues, for every number of items, flushes, commands and times. *)
(*   COutputQueue: a sample it was given is in one place until it is       *)
(* released, what is sent is in the order in which it was queued, nothing  *)
(* is sent after a flush that was there before it, and the worker sleeps   *)
(* for a reason.                                                           *)
(*   CCmdQueue: the lists are in the order of their times, each reference  *)
(* of a command is somebody's, and a command that was executed or cancelled*)
(* is not executed again.                                                  *)
(***************************************************************************)
EXTENDS MCQueues, FiniteSetTheorems, SequenceTheorems, TLAPS

-----------------------------------------------------------------------------
(* Sequences: what inserting and removing leaves. *)

LEMMA LeastExists ==
    ASSUME NEW T, T \subseteq Nat, T # {}
    PROVE  \E x \in T : \A y \in T : x <= y
<1>1. PICK x \in T : \A y \in T : ~(<<y, x>> \in OpToRel(<, Nat))
  <2>1. \E x \in T : \A y \in T : ~(<<y, x>> \in OpToRel(<, Nat))
    BY NatLessThanWellFounded, WFMin
  <2> QED BY <2>1
<1>2. \A y \in T : ~(y < x)
  BY <1>1 DEF OpToRel
<1> QED BY <1>2

LEMMA Concatenated ==
    ASSUME NEW S, NEW s \in Seq(S), NEW t \in Seq(S)
    PROVE  /\ s \o t \in Seq(S)
           /\ Len(s \o t) = Len(s) + Len(t)
           /\ DOMAIN (s \o t) = 1..Len(s) + Len(t)
           /\ \A i \in DOMAIN s : (s \o t)[i] = s[i]
           /\ \A i \in DOMAIN t : (s \o t)[Len(s) + i] = t[i]
<1>1. /\ s \o t \in Seq(S) /\ Len(s \o t) = Len(s) + Len(t)
      /\ \A i \in 1 .. Len(s) + Len(t) : (s \o t)[i] = IF i <= Len(s) THEN s[i] ELSE t[i - Len(s)]
  BY ConcatProperties
<1>2. Len(s) \in Nat /\ Len(t) \in Nat /\ DOMAIN s = 1..Len(s) /\ DOMAIN t = 1..Len(t)
      /\ DOMAIN (s \o t) = 1..Len(s \o t)
  BY <1>1
<1>3. \A i \in DOMAIN s : (s \o t)[i] = s[i]
  BY <1>1, <1>2
<1>4. \A i \in DOMAIN t : (s \o t)[Len(s) + i] = t[i]
  <2> SUFFICES ASSUME NEW i \in 1..Len(t) PROVE (s \o t)[Len(s) + i] = t[i]
    BY <1>2
  <2>1. Len(s) + i \in 1..Len(s) + Len(t) /\ ~(Len(s) + i <= Len(s)) /\ Len(s) + i - Len(s) = i
    BY <1>2
  <2> QED BY <1>1, <2>1
<1> QED BY <1>1, <1>2, <1>3, <1>4

LEMMA PartOf ==
    ASSUME NEW S, NEW s \in Seq(S), NEW m \in Nat, NEW n \in Nat, 1 <= m, m <= n + 1, n <= Len(s)
    PROVE  /\ SubSeq(s, m, n) \in Seq(S)
           /\ Len(SubSeq(s, m, n)) = n - m + 1
           /\ DOMAIN SubSeq(s, m, n) = 1..n - m + 1
           /\ \A i \in m..n : SubSeq(s, m, n)[i - m + 1] = s[i]
<1>1. Len(s) \in Nat /\ DOMAIN s = 1..Len(s)
  OBVIOUS
<1>2. \A i \in m..n : s[i] \in S
  BY <1>1
<1>3. /\ SubSeq(s, m, n) \in Seq(S) /\ Len(SubSeq(s, m, n)) = IF m <= n THEN n - m + 1 ELSE 0
      /\ \A i \in 1..n - m + 1 : SubSeq(s, m, n)[i] = s[m + i - 1]
  BY <1>2, SubSeqProperties
<1>4. Len(SubSeq(s, m, n)) = n - m + 1
  BY <1>3
<1>5. DOMAIN SubSeq(s, m, n) = 1..n - m + 1
  BY <1>3, <1>4
<1>6. ASSUME NEW i \in m..n
      PROVE  SubSeq(s, m, n)[i - m + 1] = s[i]
  <2>1. i - m + 1 \in 1..n - m + 1 /\ m + (i - m + 1) - 1 = i
    OBVIOUS
  <2>2. SubSeq(s, m, n)[i - m + 1] = s[m + (i - m + 1) - 1]
    BY <1>3, <2>1
  <2> QED BY <2>1, <2>2
<1> QED BY <1>3, <1>4, <1>5, <1>6

LEMMA InsertionIs ==
    ASSUME NEW list, NEW j, NEW c
    PROVE  Deferred!InsertAt(list, j, c) = (SubSeq(list, 1, j - 1) \o <<c>>) \o SubSeq(list, j, Len(list))
BY DEF Deferred!InsertAt

\* r is list with c between its first k elements and the others.
WithOne(r, list, k, c) ==
    /\ DOMAIN r = 1..Len(list) + 1
    /\ r[k + 1] = c
    /\ \A i \in 1..k : r[i] = list[i]
    /\ \A i \in k + 1..Len(list) : r[i + 1] = list[i]

LEMMA Inserted ==
    ASSUME NEW S, NEW list \in Seq(S), NEW c \in S, NEW k \in 0..Len(list), NEW j, j = k + 1,
           NEW r, r = Deferred!InsertAt(list, j, c)
    PROVE  r \in Seq(S) /\ WithOne(r, list, k, c)
<1>1. Len(list) \in Nat /\ k \in Nat /\ k <= Len(list) /\ DOMAIN list = 1..Len(list)
  OBVIOUS
<1>2. PICK a : a = SubSeq(list, 1, k)
  OBVIOUS
<1>3. PICK b : b = SubSeq(list, k + 1, Len(list))
  OBVIOUS
<1>4. a \in Seq(S) /\ Len(a) = k /\ DOMAIN a = 1..k /\ \A i \in 1..k : a[i] = list[i]
  <2>1. /\ a \in Seq(S) /\ Len(a) = k - 1 + 1 /\ DOMAIN a = 1..k - 1 + 1
        /\ \A i \in 1..k : a[i - 1 + 1] = list[i]
    BY <1>1, <1>2, PartOf
  <2>2. k - 1 + 1 = k /\ \A i \in 1..k : i - 1 + 1 = i
    BY <1>1
  <2>3. ASSUME NEW i \in 1..k PROVE a[i] = list[i]
    <3>1. a[i - 1 + 1] = list[i] /\ i - 1 + 1 = i
      BY <2>1, <2>2
    <3> QED BY <3>1
  <2> QED BY <2>1, <2>2, <2>3
<1>5. /\ b \in Seq(S) /\ Len(b) = Len(list) - k /\ DOMAIN b = 1..Len(list) - k
      /\ \A i \in k + 1..Len(list) : b[i - k] = list[i]
  <2>1. /\ b \in Seq(S) /\ Len(b) = Len(list) - (k + 1) + 1 /\ DOMAIN b = 1..Len(list) - (k + 1) + 1
        /\ \A i \in k + 1..Len(list) : b[i - (k + 1) + 1] = list[i]
    <3>1. PICK m \in Nat : m = k + 1
      BY <1>1
    <3>2. 1 <= m /\ m <= Len(list) + 1 /\ b = SubSeq(list, m, Len(list))
      BY <1>1, <1>3, <3>1
    <3>3. /\ b \in Seq(S) /\ Len(b) = Len(list) - m + 1 /\ DOMAIN b = 1..Len(list) - m + 1
          /\ \A i \in m..Len(list) : b[i - m + 1] = list[i]
      BY <1>1, <3>2, PartOf
    <3> QED BY <3>1, <3>3
  <2>2. Len(list) - (k + 1) + 1 = Len(list) - k /\ \A i \in k + 1..Len(list) : i - (k + 1) + 1 = i - k
    BY <1>1
  <2>3. ASSUME NEW i \in k + 1..Len(list) PROVE b[i - k] = list[i]
    <3>1. b[i - (k + 1) + 1] = list[i] /\ i - (k + 1) + 1 = i - k
      BY <2>1, <2>2
    <3> QED BY <3>1
  <2> QED BY <2>1, <2>2, <2>3
<1>6. <<c>> \in Seq(S) /\ Len(<<c>>) = 1 /\ <<c>>[1] = c /\ DOMAIN <<c>> = {1}
  OBVIOUS
<1>7. PICK u : u = a \o <<c>>
  OBVIOUS
<1>8. /\ u \in Seq(S) /\ Len(u) = k + 1 /\ DOMAIN u = 1..k + 1
      /\ u[k + 1] = c /\ \A i \in 1..k : u[i] = list[i]
  <2>1. PICK one : one = <<c>>
    OBVIOUS
  <2>2. a \in Seq(S) /\ one \in Seq(S)
    BY <1>4, <1>6, <2>1
  <2>3. /\ a \o one \in Seq(S) /\ Len(a \o one) = Len(a) + Len(one)
        /\ DOMAIN (a \o one) = 1..Len(a) + Len(one)
        /\ \A i \in DOMAIN a : (a \o one)[i] = a[i]
        /\ \A i \in DOMAIN one : (a \o one)[Len(a) + i] = one[i]
    BY <2>2, Concatenated
  <2>4. u = a \o one /\ Len(one) = 1 /\ 1 \in DOMAIN one /\ one[1] = c
    BY <1>6, <1>7, <2>1
  <2> QED BY <1>1, <1>4, <2>3, <2>4
<1>9. r = u \o b
  <2>1. k + 1 - 1 = k
    BY <1>1
  <2>3. Deferred!InsertAt(list, j, c) = (SubSeq(list, 1, j - 1) \o <<c>>) \o SubSeq(list, j, Len(list))
    BY InsertionIs
  <2>4. j - 1 = k
    BY <2>1
  <2> QED BY <1>2, <1>3, <1>7, <2>3, <2>4
<1>10. /\ u \o b \in Seq(S) /\ DOMAIN (u \o b) = 1..Len(u) + Len(b)
       /\ \A i \in DOMAIN u : (u \o b)[i] = u[i]
       /\ \A i \in DOMAIN b : (u \o b)[Len(u) + i] = b[i]
  <2>1. u \in Seq(S) /\ b \in Seq(S)
    BY <1>5, <1>8
  <2> QED BY <2>1, Concatenated
<1>11. Len(u) + Len(b) = Len(list) + 1 /\ k + 1 \in 1..k + 1 /\ \A i \in 1..k : i \in 1..k + 1
  <2>1. Len(u) = k + 1 /\ Len(b) = Len(list) - k
    BY <1>5, <1>8
  <2> QED BY <1>1, <2>1
<1>12. ASSUME NEW i \in k + 1..Len(list)
       PROVE  r[i + 1] = list[i]
  <2>1. i - k \in 1..Len(list) - k /\ Len(u) + (i - k) = i + 1
    BY <1>1, <1>8
  <2>2. (u \o b)[Len(u) + (i - k)] = b[i - k] /\ b[i - k] = list[i]
    BY <1>5, <1>10, <2>1
  <2> QED BY <1>9, <2>1, <2>2
<1>13. DOMAIN r = 1..Len(list) + 1 /\ r[k + 1] = c /\ \A i \in 1..k : r[i] = list[i]
  BY <1>8, <1>9, <1>10, <1>11
<1> QED BY <1>9, <1>10, <1>12, <1>13 DEF WithOne

LEMMA Removed ==
    ASSUME NEW S, NEW list \in Seq(S), NEW k \in 1..Len(list), NEW r, r = Deferred!RemoveAt(list, k)
    PROVE  /\ r \in Seq(S)
           /\ DOMAIN r = 1..Len(list) - 1
           /\ \A i \in 1..k - 1 : r[i] = list[i]
           /\ \A i \in k + 1..Len(list) : r[i - 1] = list[i]
<1>1. Len(list) \in Nat /\ k \in Nat /\ 1 <= k /\ k <= Len(list) /\ DOMAIN list = 1..Len(list)
      /\ k - 1 \in Nat
  OBVIOUS
<1>2. PICK a : a = SubSeq(list, 1, k - 1)
  OBVIOUS
<1>3. PICK b : b = SubSeq(list, k + 1, Len(list))
  OBVIOUS
<1>4. a \in Seq(S) /\ Len(a) = k - 1 /\ DOMAIN a = 1..k - 1 /\ \A i \in 1..k - 1 : a[i] = list[i]
  <2>1. /\ a \in Seq(S) /\ Len(a) = (k - 1) - 1 + 1 /\ DOMAIN a = 1..(k - 1) - 1 + 1
        /\ \A i \in 1..k - 1 : a[i - 1 + 1] = list[i]
    BY <1>1, <1>2, PartOf
  <2>2. (k - 1) - 1 + 1 = k - 1 /\ \A i \in 1..k - 1 : i - 1 + 1 = i
    BY <1>1
  <2>3. ASSUME NEW i \in 1..k - 1 PROVE a[i] = list[i]
    <3>1. a[i - 1 + 1] = list[i] /\ i - 1 + 1 = i
      BY <2>1, <2>2
    <3> QED BY <3>1
  <2> QED BY <2>1, <2>2, <2>3
<1>5. /\ b \in Seq(S) /\ Len(b) = Len(list) - k /\ DOMAIN b = 1..Len(list) - k
      /\ \A i \in k + 1..Len(list) : b[i - k] = list[i]
  <2>1. /\ b \in Seq(S) /\ Len(b) = Len(list) - (k + 1) + 1 /\ DOMAIN b = 1..Len(list) - (k + 1) + 1
        /\ \A i \in k + 1..Len(list) : b[i - (k + 1) + 1] = list[i]
    <3>1. PICK m \in Nat : m = k + 1
      BY <1>1
    <3>2. 1 <= m /\ m <= Len(list) + 1 /\ b = SubSeq(list, m, Len(list))
      BY <1>1, <1>3, <3>1
    <3>3. /\ b \in Seq(S) /\ Len(b) = Len(list) - m + 1 /\ DOMAIN b = 1..Len(list) - m + 1
          /\ \A i \in m..Len(list) : b[i - m + 1] = list[i]
      BY <1>1, <3>2, PartOf
    <3> QED BY <3>1, <3>3
  <2>2. Len(list) - (k + 1) + 1 = Len(list) - k /\ \A i \in k + 1..Len(list) : i - (k + 1) + 1 = i - k
    BY <1>1
  <2>3. ASSUME NEW i \in k + 1..Len(list) PROVE b[i - k] = list[i]
    <3>1. b[i - (k + 1) + 1] = list[i] /\ i - (k + 1) + 1 = i - k
      BY <2>1, <2>2
    <3> QED BY <3>1
  <2> QED BY <2>1, <2>2, <2>3
<1>6. r = a \o b
  BY <1>2, <1>3 DEF Deferred!RemoveAt
<1>7. /\ a \o b \in Seq(S) /\ DOMAIN (a \o b) = 1..Len(a) + Len(b)
      /\ \A i \in DOMAIN a : (a \o b)[i] = a[i]
      /\ \A i \in DOMAIN b : (a \o b)[Len(a) + i] = b[i]
  <2>1. a \in Seq(S) /\ b \in Seq(S)
    BY <1>4, <1>5
  <2> QED BY <2>1, Concatenated
<1>8. Len(a) + Len(b) = Len(list) - 1
  BY <1>1, <1>4, <1>5
<1>9. ASSUME NEW i \in k + 1..Len(list)
      PROVE  r[i - 1] = list[i]
  <2>1. i - k \in 1..Len(list) - k /\ Len(a) + (i - k) = i - 1
    BY <1>1, <1>4
  <2>2. (a \o b)[Len(a) + (i - k)] = b[i - k] /\ b[i - k] = list[i]
    BY <1>5, <1>7, <2>1
  <2> QED BY <1>6, <2>1, <2>2
<1> QED BY <1>4, <1>6, <1>7, <1>8, <1>9

-----------------------------------------------------------------------------
(* Deferred commands.                                                      *)

On(list, c) == \E i \in DOMAIN list : list[i] = c

\* In the order of the times, none of them twice.
Sorted(list, time) ==
    \A i, j \in DOMAIN list : i < j => time[list[i]] <= time[list[j]] /\ list[i] # list[j]

ListsTyped ==
    /\ m_listPresentation \in Seq(Commands) /\ m_listStream \in Seq(Commands)
    /\ m_time \in [Commands -> Nat] /\ m_bStream \in [Commands -> BOOLEAN]
    /\ m_pQueue \in [Commands -> BOOLEAN] /\ m_cRef \in [Commands -> Int]
    /\ held \in [Commands -> BOOLEAN] /\ fate \in [Commands -> {"none", "cancelled", "executed"}]
    /\ newtime \in Nat /\ uncounted \in BOOLEAN /\ crossed \subseteq Commands
    /\ app.at \in {"idle", "cancel", "cancelled", "postpone", "requeue"}
    /\ IF app.at = "idle" THEN app.cmd = None ELSE app.cmd \in Commands
    /\ waiter.at \in {"idle", "wait", "got", "executed", "removed", "refused"}
    /\ IF waiter.at \in {"idle", "wait"} THEN waiter.cmd = None ELSE waiter.cmd \in Commands

Outlisted(c) == ~On(m_listPresentation, c) /\ ~On(m_listStream, c)

\* A command that was never made, or is deleted, is nowhere; the application
\* calls one that it holds, and a new time is one.
MadeInv ==
    /\ \A c \in Commands : m_time[c] = 0 => Outlisted(c) /\ waiter.cmd # c /\ ~held[c]
    /\ \A c \in Commands : app.cmd = c => held[c]
    /\ app.at = "postpone" => newtime # 0
    /\ uncounted => waiter.cmd \in Commands

\* What was taken off the lists stays off them, unless it is postponed.
OffInv ==
    /\ app.at = "cancelled" => Outlisted(app.cmd) /\ fate[app.cmd] # "none"
    /\ app.at = "requeue" => Outlisted(app.cmd) /\ fate[app.cmd] # "cancelled"
    /\ waiter.at \in {"executed", "removed"} => fate[waiter.cmd] = "executed"
    /\ waiter.at = "removed" => Outlisted(waiter.cmd) \/ waiter.cmd \in crossed
    /\ \A c \in Commands :
         /\ fate[c] = "cancelled" => Outlisted(c)
         /\ fate[c] = "executed" =>
              ~m_pQueue[c] \/ (waiter.at \in {"executed", "removed"} /\ waiter.cmd = c)

ListedInv ==
    /\ Sorted(m_listPresentation, m_time) /\ Sorted(m_listStream, m_time)
    /\ \A c \in Commands :
         /\ On(m_listPresentation, c) => ~m_bStream[c]
         /\ On(m_listStream, c) => m_bStream[c]

\* A command is disowned when it was cancelled or executed.
OwnedInv ==
    \A c \in Commands :
       /\ ~Outlisted(c) => m_pQueue[c] \/ c \in crossed
       /\ m_time[c] # 0 /\ ~m_pQueue[c] => fate[c] # "none"

CountedInv ==
    \A c \in Commands :
       m_cRef[c] = (IF held[c] THEN 1 ELSE 0) + (IF Outlisted(c) THEN 0 ELSE 1)
                   + (IF waiter.cmd = c /\ ~uncounted THEN 1 ELSE 0)

CmdInv == ListsTyped /\ MadeInv /\ OffInv /\ ListedInv /\ OwnedInv /\ CountedInv

LEMMA ListedIs ==
    /\ \A c : Deferred!OnList(c) <=> On(m_listPresentation, c)
    /\ \A c : Deferred!OnStream(c) <=> On(m_listStream, c)
    /\ \A c : Deferred!Listed(c) <=> ~Outlisted(c)
BY DEF Deferred!OnList, Deferred!OnStream, Deferred!Listed, On, Outlisted

\* Where Insert puts a command: behind those that are not later, before those that are.
LEMMA PlaceFound ==
    ASSUME NEW list \in Seq(Commands), NEW time \in [Commands -> Nat], NEW c \in Commands, Sorted(list, time),
           NEW k, k = Deferred!Before(c, list, time)
    PROVE  /\ k \in 0..Len(list)
           /\ \A i \in 1..k : time[list[i]] <= time[c]
           /\ \A i \in k + 1..Len(list) : time[c] <= time[list[i]]
<1>1. PICK T : T = {i \in DOMAIN list : time[list[i]] > time[c]} \cup {Len(list) + 1}
  OBVIOUS
<1>2. Len(list) \in Nat /\ DOMAIN list = 1..Len(list) /\ \A i \in DOMAIN list : list[i] \in Commands
  OBVIOUS
<1>3. T \subseteq Nat /\ T # {}
  BY <1>1, <1>2
<1>4. PICK m \in T : \A y \in T : m <= y
  <2>1. \E m \in T : \A y \in T : m <= y
    BY <1>3, LeastExists
  <2> QED BY <2>1
<1>5. Deferred!Min(T) = m
  <2>1. \A x, y \in T : x <= y /\ y <= x => x = y
    BY <1>3
  <2> QED BY <1>4, <2>1 DEF Deferred!Min
<1>6. k = m - 1
  BY <1>1, <1>5 DEF Deferred!Before
<1>7. m \in 1..Len(list) + 1 /\ m <= Len(list) + 1
  BY <1>1, <1>2, <1>4
<1>8. ASSUME NEW i \in 1..k PROVE time[list[i]] <= time[c]
  <2>1. i \in DOMAIN list /\ i < m
    BY <1>2, <1>6, <1>7
  <2>2. i \notin T
    BY <1>3, <1>4, <2>1
  <2>3. time[list[i]] \in Nat /\ time[c] \in Nat
    BY <1>2, <2>1
  <2> QED BY <1>1, <2>1, <2>2, <2>3
<1>9. ASSUME NEW i \in k + 1..Len(list) PROVE time[c] <= time[list[i]]
  <2>1. i \in DOMAIN list /\ m \in DOMAIN list /\ m <= i
    BY <1>2, <1>6, <1>7
  <2>2. time[list[i]] \in Nat /\ time[c] \in Nat /\ time[list[m]] \in Nat
    BY <1>2, <2>1
  <2>3. time[list[m]] > time[c]
    BY <1>1, <1>2, <1>4, <2>1
  <2>4. m < i => time[list[m]] <= time[list[i]]
    BY <2>1 DEF Sorted
  <2> QED BY <1>2, <1>7, <2>1, <2>2, <2>3, <2>4
<1> QED BY <1>2, <1>6, <1>7, <1>8, <1>9

LEMMA InsertKeeps ==
    ASSUME NEW list \in Seq(Commands), NEW time \in [Commands -> Nat], NEW c \in Commands, Sorted(list, time),
           ~On(list, c), NEW r, r = Deferred!Insert(c, list, time)
    PROVE  /\ r \in Seq(Commands) /\ Sorted(r, time)
           /\ \A d : On(r, d) <=> On(list, d) \/ d = c
<1>1. PICK k : k = Deferred!Before(c, list, time)
  OBVIOUS
<1>2. /\ k \in 0..Len(list)
      /\ \A i \in 1..k : time[list[i]] <= time[c]
      /\ \A i \in k + 1..Len(list) : time[c] <= time[list[i]]
  BY <1>1, PlaceFound
<1>3. r = Deferred!InsertAt(list, k + 1, c)
  BY <1>1 DEF Deferred!Insert
<1>4. /\ r \in Seq(Commands) /\ DOMAIN r = 1..Len(list) + 1
      /\ r[k + 1] = c
      /\ \A i \in 1..k : r[i] = list[i]
      /\ \A i \in k + 1..Len(list) : r[i + 1] = list[i]
  <2>1. k \in 0..Len(list)
    BY <1>2
  <2>2. PICK j : j = k + 1
    OBVIOUS
  <2>3. r = Deferred!InsertAt(list, j, c)
    BY <1>3, <2>2
  <2>4. r \in Seq(Commands) /\ WithOne(r, list, k, c)
    BY <2>1, <2>2, <2>3, Inserted
  <2> QED BY <2>4 DEF WithOne
<1>5. Len(list) \in Nat /\ k \in Nat /\ DOMAIN list = 1..Len(list) /\ \A i \in DOMAIN list : list[i] \in Commands /\ list[i] # c
  BY <1>2 DEF On
<1>6. \A i \in 1..Len(list) + 1 :
         \/ i \in 1..k /\ i \in DOMAIN list /\ r[i] = list[i] /\ time[list[i]] <= time[c]
         \/ i = k + 1 /\ r[i] = c
         \/ i \in k + 2..Len(list) + 1 /\ i - 1 \in DOMAIN list /\ r[i] = list[i - 1] /\ time[c] <= time[list[i - 1]]
  <2>1. ASSUME NEW i \in 1..k
        PROVE  i \in DOMAIN list /\ r[i] = list[i] /\ time[list[i]] <= time[c]
    BY <1>2, <1>4, <1>5
  <2>2. ASSUME NEW i \in 1..Len(list) + 1, i > k + 1
        PROVE  i \in k + 2..Len(list) + 1 /\ i - 1 \in DOMAIN list /\ r[i] = list[i - 1] /\ time[c] <= time[list[i - 1]]
    <3>1. PICK p \in Int : p = i - 1
      BY <1>5
    <3>2. p \in k + 1..Len(list) /\ p \in DOMAIN list /\ p + 1 = i /\ i \in k + 2..Len(list) + 1
      BY <1>5, <2>2, <3>1
    <3>3. r[p + 1] = list[p] /\ time[c] <= time[list[p]]
      BY <1>2, <1>4, <3>2
    <3> QED BY <3>1, <3>2, <3>3
  <2>3. ASSUME NEW i \in 1..Len(list) + 1
        PROVE  i \in 1..k \/ i = k + 1 \/ i > k + 1
    BY <1>5
  <2>4. r[k + 1] = c
    BY <1>4
  <2> QED BY <2>1, <2>2, <2>3, <2>4
<1>7. ASSUME NEW i \in DOMAIN r, NEW j \in DOMAIN r, i < j
      PROVE  time[r[i]] <= time[r[j]] /\ r[i] # r[j]
  <2>1. \A x \in DOMAIN list : time[list[x]] \in Nat
    BY <1>5
  <2>2. time[c] \in Nat
    OBVIOUS
  <2>3. i \in 1..Len(list) + 1 /\ j \in 1..Len(list) + 1
    BY <1>4
  <2>4. CASE i \in 1..k /\ i \in DOMAIN list /\ r[i] = list[i] /\ time[list[i]] <= time[c]
    <3>1. CASE j \in 1..k /\ j \in DOMAIN list /\ r[j] = list[j]
      BY <1>7, <2>4, <3>1 DEF Sorted
    <3>2. CASE j = k + 1 /\ r[j] = c
      BY <1>5, <2>4, <3>2
    <3>3. CASE j \in k + 2..Len(list) + 1 /\ j - 1 \in DOMAIN list /\ r[j] = list[j - 1]
      <4>1. i < j - 1
        BY <1>5, <2>4, <3>3
      <4> QED BY <2>4, <3>3, <4>1 DEF Sorted
    <3> QED BY <1>6, <2>3, <3>1, <3>2, <3>3
  <2>5. CASE i = k + 1 /\ r[i] = c
    <3>1. j \in k + 2..Len(list) + 1 /\ j - 1 \in DOMAIN list /\ r[j] = list[j - 1] /\ time[c] <= time[list[j - 1]]
      BY <1>5, <1>6, <1>7, <2>3, <2>5
    <3> QED BY <1>5, <2>5, <3>1
  <2>6. CASE i \in k + 2..Len(list) + 1 /\ i - 1 \in DOMAIN list /\ r[i] = list[i - 1]
    <3>1. j \in k + 2..Len(list) + 1 /\ j - 1 \in DOMAIN list /\ r[j] = list[j - 1]
      BY <1>5, <1>6, <1>7, <2>3, <2>6
    <3>2. i - 1 < j - 1
      BY <1>5, <1>7, <2>6, <3>1
    <3> QED BY <2>6, <3>1, <3>2 DEF Sorted
  <2> QED BY <1>6, <2>3, <2>4, <2>5, <2>6
<1>8. ASSUME NEW d PROVE On(r, d) <=> On(list, d) \/ d = c
  <2>1. On(r, d) => On(list, d) \/ d = c
    BY <1>4, <1>6 DEF On
  <2>2. ASSUME NEW i \in DOMAIN list, list[i] = d PROVE On(r, d)
    <3>1. CASE i \in 1..k
      BY <1>4, <1>5, <2>2, <3>1 DEF On
    <3>2. CASE i \in k + 1..Len(list)
      <4>1. i + 1 \in DOMAIN r /\ r[i + 1] = d
        BY <1>4, <1>5, <2>2, <3>2
      <4> QED BY <4>1 DEF On
    <3> QED BY <1>5, <3>1, <3>2
  <2>3. On(r, c)
    <3>1. k + 1 \in DOMAIN r
      BY <1>2, <1>4, <1>5
    <3> QED BY <1>4, <3>1 DEF On
  <2> QED BY <2>1, <2>2, <2>3 DEF On
<1> QED BY <1>4, <1>7, <1>8 DEF Sorted

LEMMA RemoveKeeps ==
    ASSUME NEW list \in Seq(Commands), NEW time, NEW c \in Commands, Sorted(list, time),
           NEW r, r = Deferred!RemoveFirst(list, c)
    PROVE  /\ r \in Seq(Commands) /\ Sorted(r, time)
           /\ \A d : On(r, d) <=> On(list, d) /\ d # c
<1>1. Len(list) \in Nat /\ DOMAIN list = 1..Len(list)
  OBVIOUS
<1>2. CASE ~ \E i \in 1..Len(list) : list[i] = c
  <2>1. r = list
    BY <1>2 DEF Deferred!RemoveFirst
  <2> QED BY <1>1, <1>2, <2>1 DEF On
<1>3. CASE \E i \in 1..Len(list) : list[i] = c
  <2>1. PICK T : T = {i \in 1..Len(list) : list[i] = c}
    OBVIOUS
  <2>2. T \subseteq Nat /\ T # {}
    BY <1>1, <1>3, <2>1
  <2>3. PICK k \in T : \A y \in T : k <= y
    <3>1. \E m \in T : \A y \in T : m <= y
      BY <2>2, LeastExists
    <3> QED BY <3>1
  <2>4. Deferred!Min(T) = k
    <3>1. \A x, y \in T : x <= y /\ y <= x => x = y
      BY <2>2
    <3> QED BY <2>3, <3>1 DEF Deferred!Min
  <2>5. r = Deferred!RemoveAt(list, k)
    BY <1>3, <2>1, <2>2, <2>4 DEF Deferred!RemoveFirst, Deferred!SelectInSeq
  <2>6. k \in 1..Len(list) /\ list[k] = c
    BY <2>1
  <2>7. /\ r \in Seq(Commands) /\ DOMAIN r = 1..Len(list) - 1
        /\ \A i \in 1..k - 1 : r[i] = list[i]
        /\ \A i \in k + 1..Len(list) : r[i - 1] = list[i]
    BY <2>5, <2>6, Removed
  <2>8. \A i \in DOMAIN list : list[i] = c => i = k
    BY <1>1, <2>6 DEF Sorted
  <2>9. \A i \in DOMAIN r :
           \/ i \in 1..k - 1 /\ i \in DOMAIN list /\ r[i] = list[i]
           \/ i \in k..Len(list) - 1 /\ i + 1 \in DOMAIN list /\ r[i] = list[i + 1]
    <3> SUFFICES ASSUME NEW i \in DOMAIN r, i >= k
                 PROVE  i + 1 \in DOMAIN list /\ r[i] = list[i + 1]
      BY <1>1, <2>6, <2>7
    <3>1. i + 1 \in k + 1..Len(list) /\ (i + 1) - 1 = i
      BY <1>1, <2>6, <2>7
    <3>2. r[(i + 1) - 1] = list[i + 1]
      BY <2>7, <3>1
    <3> QED BY <1>1, <2>6, <3>1, <3>2
  <2>10. ASSUME NEW i \in DOMAIN r, NEW j \in DOMAIN r, i < j
         PROVE  time[r[i]] <= time[r[j]] /\ r[i] # r[j]
    <3>1. CASE i \in 1..k - 1 /\ i \in DOMAIN list /\ r[i] = list[i]
      <4>1. CASE j \in 1..k - 1 /\ j \in DOMAIN list /\ r[j] = list[j]
        BY <2>10, <3>1, <4>1 DEF Sorted
      <4>2. CASE j \in k..Len(list) - 1 /\ j + 1 \in DOMAIN list /\ r[j] = list[j + 1]
        <5>1. i < j + 1
          BY <1>1, <2>6, <3>1, <4>2
        <5> QED BY <3>1, <4>2, <5>1 DEF Sorted
      <4> QED BY <2>9, <4>1, <4>2
    <3>2. CASE i \in k..Len(list) - 1 /\ i + 1 \in DOMAIN list /\ r[i] = list[i + 1]
      <4>1. j \in k..Len(list) - 1 /\ j + 1 \in DOMAIN list /\ r[j] = list[j + 1]
        BY <1>1, <2>6, <2>9, <2>10, <3>2
      <4>2. i + 1 < j + 1
        BY <1>1, <2>6, <2>10, <3>2, <4>1
      <4> QED BY <3>2, <4>1, <4>2 DEF Sorted
    <3> QED BY <2>9, <3>1, <3>2
  <2>11. ASSUME NEW d PROVE On(r, d) <=> On(list, d) /\ d # c
    <3>1. On(r, d) => On(list, d) /\ d # c
      <4> SUFFICES ASSUME NEW i \in DOMAIN r, r[i] = d PROVE On(list, d) /\ d # c
        BY DEF On
      <4>1. CASE i \in 1..k - 1 /\ i \in DOMAIN list /\ r[i] = list[i]
        BY <1>1, <2>6, <2>8, <4>1 DEF On
      <4>2. CASE i \in k..Len(list) - 1 /\ i + 1 \in DOMAIN list /\ r[i] = list[i + 1]
        <5>1. i + 1 # k
          BY <1>1, <2>6, <4>2
        <5> QED BY <2>8, <4>2, <5>1 DEF On
      <4> QED BY <2>9, <4>1, <4>2
    <3>2. ASSUME NEW i \in DOMAIN list, list[i] = d, d # c PROVE On(r, d)
      <4>1. CASE i \in 1..k - 1
        <5>1. i \in DOMAIN r
          BY <1>1, <2>6, <2>7, <4>1
        <5> QED BY <2>7, <3>2, <4>1, <5>1 DEF On
      <4>2. CASE i \in k + 1..Len(list)
        <5>1. i - 1 \in DOMAIN r /\ r[i - 1] = d
          BY <1>1, <2>6, <2>7, <3>2, <4>2
        <5> QED BY <5>1 DEF On
      <4> QED BY <1>1, <2>6, <3>2, <4>1, <4>2
    <3> QED BY <3>1, <3>2 DEF On
  <2> QED BY <2>7, <2>10, <2>11 DEF Sorted
<1> QED BY <1>2, <1>3

LEMMA InitCmd == QueuesInit => CmdInv
<1> SUFFICES ASSUME QueuesInit PROVE CmdInv
  OBVIOUS
<1>1. Deferred!Init
  BY DEF QueuesInit
<1>2. m_listPresentation = <<>> /\ m_listStream = <<>> /\ <<>> \in Seq(Commands) /\ DOMAIN <<>> = {}
  BY <1>1 DEF Deferred!Init
<1>3. \A c : ~On(<<>>, c)
  BY <1>2 DEF On
<1>4. \A time : Sorted(<<>>, time)
  BY <1>2 DEF Sorted
<1>5. \A c : Outlisted(c)
  BY <1>2, <1>3 DEF Outlisted
<1>6. None \notin Commands
  BY QueuesAssumption DEF Deferred!CmdQueueAssumption
<1>7. ListsTyped
  <2>1. uncounted \in BOOLEAN
    BY Zenon, <1>1 DEF Deferred!Init
  <2>2. app.at = "idle" /\ app.cmd = None /\ waiter.at = "idle" /\ waiter.cmd = None
    BY <1>1 DEF Deferred!Init, Deferred!Idle, Deferred!At
  <2> QED BY <1>1, <1>2, <2>1, <2>2 DEF Deferred!Init, ListsTyped
<1>8. MadeInv
  BY <1>1, <1>5, <1>6 DEF Deferred!Init, Deferred!Idle, Deferred!At, MadeInv
<1>9. OffInv
  BY <1>1, <1>5 DEF Deferred!Init, Deferred!Idle, Deferred!At, OffInv
<1>10. ListedInv
  BY <1>2, <1>3, <1>4 DEF ListedInv
<1>11. OwnedInv
  BY <1>1, <1>5 DEF Deferred!Init, OwnedInv
<1>12. CountedInv
  BY <1>1, <1>5, <1>6 DEF Deferred!Init, Deferred!Idle, Deferred!At, CountedInv
<1> QED BY <1>7, <1>8, <1>9, <1>10, <1>11, <1>12 DEF CmdInv

\* Where the program ends, nothing is left of it.
LEMMA EndsKeeps == ASSUME Deferred!Ends PROVE CmdInv'
<1>2. m_listPresentation' = <<>> /\ m_listStream' = <<>> /\ <<>> \in Seq(Commands) /\ DOMAIN <<>> = {}
  BY DEF Deferred!Ends
<1>3. \A c : ~On(<<>>, c)
  BY <1>2 DEF On
<1>4. \A time : Sorted(<<>>, time)
  BY <1>2 DEF Sorted
<1>5. \A c : Outlisted(c)'
  BY <1>2, <1>3 DEF Outlisted
<1>6. None \notin Commands
  BY QueuesAssumption DEF Deferred!CmdQueueAssumption
<1>7. ListsTyped'
  <2>1. uncounted' \in BOOLEAN
    BY Zenon DEF Deferred!Ends
  <2>2. app'.at = "idle" /\ app'.cmd = None /\ waiter'.at = "idle" /\ waiter'.cmd = None
    BY DEF Deferred!Ends, Deferred!Idle, Deferred!At
  <2> QED BY <1>2, <2>1, <2>2 DEF Deferred!Ends, ListsTyped
<1>8. MadeInv'
  BY <1>5, <1>6 DEF Deferred!Ends, Deferred!Idle, Deferred!At, MadeInv
<1>9. OffInv'
  BY <1>5 DEF Deferred!Ends, Deferred!Idle, Deferred!At, OffInv
<1>10. ListedInv'
  BY <1>2, <1>3, <1>4 DEF ListedInv
<1>11. OwnedInv'
  BY <1>5 DEF Deferred!Ends, OwnedInv
<1>12. CountedInv'
  BY <1>5, <1>6 DEF Deferred!Ends, Deferred!Idle, Deferred!At, CountedInv
<1> QED BY <1>7, <1>8, <1>9, <1>10, <1>11, <1>12 DEF CmdInv

CmdVars ==
    << m_listPresentation, m_listStream, m_time, m_bStream, m_pQueue, m_cRef, app, waiter, newtime,
       held, fate, uncounted, crossed >>

LEMMA CmdSame == CmdInv /\ UNCHANGED CmdVars => CmdInv'
BY DEF CmdInv, CmdVars, ListsTyped, MadeInv, OffInv, ListedInv, OwnedInv, CountedInv, Outlisted

\* A list does not depend on the time of a command that is not on it.
LEMMA SortedElse ==
    ASSUME NEW list \in Seq(Commands), NEW time, NEW other, NEW c, Sorted(list, time), ~On(list, c),
           \A d \in Commands : d # c => other[d] = time[d]
    PROVE  Sorted(list, other)
<1>1. \A i \in DOMAIN list : list[i] \in Commands /\ list[i] # c
  BY DEF On
<1> QED BY <1>1 DEF Sorted

\* One command off the lists.
LEMMA RemovalKeeps ==
    ASSUME ListsTyped, ListedInv, NEW c \in Commands,
           m_listPresentation' = Deferred!RemoveFirst(m_listPresentation, c),
           m_listStream' = Deferred!RemoveFirst(m_listStream, c),
           \A d \in Commands : d # c => m_time'[d] = m_time[d], UNCHANGED m_bStream
    PROVE  /\ m_listPresentation' \in Seq(Commands) /\ m_listStream' \in Seq(Commands)
           /\ ListedInv'
           /\ \A d : Outlisted(d)' <=> Outlisted(d) \/ d = c
<1>1. m_listPresentation \in Seq(Commands) /\ Sorted(m_listPresentation, m_time)
      /\ m_listStream \in Seq(Commands) /\ Sorted(m_listStream, m_time)
  BY DEF ListsTyped, ListedInv
<1>2. /\ m_listPresentation' \in Seq(Commands) /\ Sorted(m_listPresentation', m_time)
      /\ \A d : On(m_listPresentation', d) <=> On(m_listPresentation, d) /\ d # c
  BY <1>1, RemoveKeeps
<1>3. /\ m_listStream' \in Seq(Commands) /\ Sorted(m_listStream', m_time)
      /\ \A d : On(m_listStream', d) <=> On(m_listStream, d) /\ d # c
  BY <1>1, RemoveKeeps
<1>4. Sorted(m_listPresentation', m_time') /\ Sorted(m_listStream', m_time')
  <2>1. ~On(m_listPresentation', c) /\ ~On(m_listStream', c)
    BY <1>2, <1>3
  <2> QED BY <1>2, <1>3, <2>1, SortedElse
<1>5. ListedInv'
  BY <1>2, <1>3, <1>4 DEF ListedInv
<1> QED BY <1>2, <1>3, <1>5 DEF Outlisted

\* One command, which was on none of them, onto its list.
LEMMA InsertionKeeps ==
    ASSUME ListsTyped, ListedInv, NEW c \in Commands, Outlisted(c),
           m_time' \in [Commands -> Nat], \A d \in Commands : d # c => m_time'[d] = m_time[d],
           NEW stream \in BOOLEAN, m_bStream' \in [Commands -> BOOLEAN], m_bStream'[c] = stream,
           \A d \in Commands : d # c => m_bStream'[d] = m_bStream[d],
           IF stream
           THEN m_listStream' = Deferred!Insert(c, m_listStream, m_time') /\ UNCHANGED m_listPresentation
           ELSE m_listPresentation' = Deferred!Insert(c, m_listPresentation, m_time') /\ UNCHANGED m_listStream
    PROVE  /\ m_listPresentation' \in Seq(Commands) /\ m_listStream' \in Seq(Commands)
           /\ ListedInv'
           /\ \A d : Outlisted(d)' <=> Outlisted(d) /\ d # c
<1>1. m_listPresentation \in Seq(Commands) /\ Sorted(m_listPresentation, m_time)
      /\ m_listStream \in Seq(Commands) /\ Sorted(m_listStream, m_time)
      /\ ~On(m_listPresentation, c) /\ ~On(m_listStream, c)
  BY DEF ListsTyped, ListedInv, Outlisted
<1>2. PICK time : time = m_time'
  OBVIOUS
<1>3. time \in [Commands -> Nat] /\ \A d \in Commands : d # c => time[d] = m_time[d]
  BY <1>2
<1>4. Sorted(m_listPresentation, time) /\ Sorted(m_listStream, time)
  <2>1. ASSUME NEW list \in Seq(Commands), Sorted(list, m_time), ~On(list, c)
        PROVE  Sorted(list, time)
    <3>1. \A i \in DOMAIN list : list[i] \in Commands /\ list[i] # c
      BY <2>1 DEF On
    <3> QED BY <1>3, <2>1, <3>1 DEF Sorted
  <2> QED BY <1>1, <2>1
<1>5. CASE stream
  <2>1. m_listStream' = Deferred!Insert(c, m_listStream, time) /\ UNCHANGED m_listPresentation
    BY <1>2, <1>5
  <2>2. /\ m_listStream' \in Seq(Commands) /\ Sorted(m_listStream', time)
        /\ \A d : On(m_listStream', d) <=> On(m_listStream, d) \/ d = c
    BY SMTT(40), <1>1, <1>3, <1>4, <2>1, InsertKeeps
  <2>3. ListedInv'
    BY <1>1, <1>2, <1>4, <1>5, <2>1, <2>2 DEF ListedInv
  <2> QED BY <1>1, <2>1, <2>2, <2>3 DEF Outlisted
<1>6. CASE ~stream
  <2>1. m_listPresentation' = Deferred!Insert(c, m_listPresentation, time) /\ UNCHANGED m_listStream
    BY <1>2, <1>6
  <2>2. /\ m_listPresentation' \in Seq(Commands) /\ Sorted(m_listPresentation', time)
        /\ \A d : On(m_listPresentation', d) <=> On(m_listPresentation, d) \/ d = c
    BY SMTT(40), <1>1, <1>3, <1>4, <2>1, InsertKeeps
  <2>3. ListedInv'
    BY <1>1, <1>2, <1>4, <1>6, <2>1, <2>2 DEF ListedInv
  <2> QED BY <1>1, <2>1, <2>2, <2>3 DEF Outlisted
<1> QED BY <1>5, <1>6

LEMMA NewKeeps ==
    ASSUME CmdInv, NEW c \in Commands, NEW stream \in BOOLEAN, NEW t \in Deferred!Times(stream),
           Deferred!New(c, t, stream)
    PROVE  CmdInv'
<1>1. ListsTyped /\ MadeInv /\ OffInv /\ ListedInv /\ OwnedInv /\ CountedInv
  BY DEF CmdInv
<1>2. t \in Nat /\ t # 0
  BY DEF Deferred!Times
<1>3. /\ app.cmd = None /\ m_time[c] = 0 /\ fate[c] = "none" /\ m_time' = [m_time EXCEPT ![c] = t]
      /\ m_bStream' = [m_bStream EXCEPT ![c] = stream] /\ m_pQueue' = [m_pQueue EXCEPT ![c] = TRUE]
      /\ m_cRef' = [m_cRef EXCEPT ![c] = 2] /\ held' = [held EXCEPT ![c] = TRUE]
      /\ UNCHANGED << app, newtime, waiter, fate, uncounted, crossed >>
  BY DEF Deferred!New, Deferred!Idle, Deferred!At, Deferred!Fresh, Deferred!marks
<1>4. IF stream
      THEN m_listStream' = Deferred!Insert(c, m_listStream, m_time') /\ UNCHANGED m_listPresentation
      ELSE m_listPresentation' = Deferred!Insert(c, m_listPresentation, m_time') /\ UNCHANGED m_listStream
  BY DEF Deferred!New
<1>5. Outlisted(c) /\ waiter.cmd # c /\ app.cmd # c /\ ~held[c]
  BY <1>1, <1>3 DEF MadeInv
<1>6. /\ m_time' \in [Commands -> Nat] /\ \A d \in Commands : d # c => m_time'[d] = m_time[d]
      /\ m_bStream' \in [Commands -> BOOLEAN] /\ m_bStream'[c] = stream
      /\ \A d \in Commands : d # c => m_bStream'[d] = m_bStream[d]
  BY <1>1, <1>2, <1>3 DEF ListsTyped
<1>7. /\ m_listPresentation' \in Seq(Commands) /\ m_listStream' \in Seq(Commands)
      /\ ListedInv'
      /\ \A d : Outlisted(d)' <=> Outlisted(d) /\ d # c
  BY <1>1, <1>4, <1>5, <1>6, InsertionKeeps
<1>8. ListsTyped'
  BY <1>1, <1>3, <1>6, <1>7 DEF ListsTyped
<1>9. MadeInv'
  BY <1>1, <1>2, <1>3, <1>7 DEF MadeInv, ListsTyped
<1>10. OffInv'
  <2>1. /\ m_pQueue' \in [Commands -> BOOLEAN] /\ \A d \in Commands : d # c => m_pQueue'[d] = m_pQueue[d]
    BY <1>1, <1>3 DEF ListsTyped
  <2> QED BY <1>1, <1>3, <1>5, <1>7, <2>1 DEF OffInv, ListsTyped
<1>11. OwnedInv'
  BY <1>1, <1>3, <1>5, <1>7 DEF OwnedInv, ListsTyped
<1>12. CountedInv'
  BY SMTT(40), <1>1, <1>3, <1>5, <1>7 DEF CountedInv, ListsTyped
<1> QED BY <1>7, <1>8, <1>9, <1>10, <1>11, <1>12 DEF CmdInv

LEMMA RequeueKeeps == ASSUME CmdInv, Deferred!Requeue PROVE CmdInv'
<1>1. ListsTyped /\ MadeInv /\ OffInv /\ ListedInv /\ OwnedInv /\ CountedInv
  BY DEF CmdInv
<1>2. CASE ~m_pQueue[app.cmd] /\ Deferred!Ends
  BY <1>2, EndsKeeps
<1>3. CASE ~(~m_pQueue[app.cmd] /\ Deferred!Ends)
  <2>1. PICK c : c = app.cmd
    OBVIOUS
  <2>2. c \in Commands /\ app.at = "requeue"
    BY <1>1, <2>1 DEF Deferred!Requeue, ListsTyped
  <2>3. /\ m_pQueue[c] /\ m_cRef' = [m_cRef EXCEPT ![c] = @ + 1]
        /\ crossed' = IF waiter.at = "removed" /\ waiter.cmd = c THEN crossed \cup {c} ELSE crossed
        /\ app' = Deferred!Idle
        /\ UNCHANGED << m_time, m_bStream, m_pQueue, newtime, waiter, held, fate, uncounted >>
    BY <1>3, <2>1 DEF Deferred!Requeue
  <2>4. IF m_bStream[c]
        THEN m_listStream' = Deferred!Insert(c, m_listStream, m_time') /\ UNCHANGED m_listPresentation
        ELSE m_listPresentation' = Deferred!Insert(c, m_listPresentation, m_time') /\ UNCHANGED m_listStream
    BY <1>3, <2>1, <2>3 DEF Deferred!Requeue
  <2>5. Outlisted(c) /\ fate[c] # "cancelled" /\ held[c] /\ m_time[c] # 0
    BY <1>1, <2>1, <2>2 DEF OffInv, MadeInv
  <2>6. /\ m_time' \in [Commands -> Nat] /\ \A d \in Commands : d # c => m_time'[d] = m_time[d]
        /\ m_bStream' \in [Commands -> BOOLEAN] /\ m_bStream'[c] = m_bStream[c] /\ m_bStream[c] \in BOOLEAN
        /\ \A d \in Commands : d # c => m_bStream'[d] = m_bStream[d]
    BY <1>1, <2>2, <2>3 DEF ListsTyped
  <2>7. /\ m_listPresentation' \in Seq(Commands) /\ m_listStream' \in Seq(Commands)
        /\ ListedInv'
        /\ \A d : Outlisted(d)' <=> Outlisted(d) /\ d # c
    BY <1>1, <2>2, <2>4, <2>5, <2>6, InsertionKeeps
  <2>8. app'.at = "idle" /\ app'.cmd = None /\ None \notin Commands
    BY <2>3, QueuesAssumption DEF Deferred!Idle, Deferred!At, Deferred!CmdQueueAssumption
  <2>9. /\ crossed \subseteq crossed' /\ crossed' \subseteq Commands
        /\ waiter.at = "removed" /\ waiter.cmd = c => c \in crossed'
    BY <1>1, <2>2, <2>3 DEF ListsTyped
  <2>10. ListsTyped'
    <3>1. m_cRef' \in [Commands -> Int]
      BY <1>1, <2>2, <2>3 DEF ListsTyped
    <3> QED BY <1>1, <2>3, <2>6, <2>7, <2>8, <2>9, <3>1 DEF ListsTyped
  <2>11. MadeInv'
    BY <1>1, <2>2, <2>3, <2>5, <2>7, <2>8 DEF MadeInv
  <2>12. OffInv'
    BY <1>1, <2>2, <2>3, <2>5, <2>7, <2>8, <2>9 DEF OffInv, ListsTyped
  <2>13. OwnedInv'
    BY <1>1, <2>2, <2>3, <2>5, <2>7, <2>9 DEF OwnedInv
  <2>14. CountedInv'
    <3>1. /\ m_cRef'[c] = m_cRef[c] + 1 /\ \A d \in Commands \ {c} : m_cRef'[d] = m_cRef[d]
      BY <1>1, <2>2, <2>3 DEF ListsTyped
    <3>2. m_cRef[c] = (IF held[c] THEN 1 ELSE 0) + 0 + (IF waiter.cmd = c /\ ~uncounted THEN 1 ELSE 0)
      BY <1>1, <2>2, <2>5 DEF CountedInv
    <3>3. m_cRef'[c] = (IF held'[c] THEN 1 ELSE 0) + (IF Outlisted(c)' THEN 0 ELSE 1)
                       + (IF waiter'.cmd = c /\ ~uncounted' THEN 1 ELSE 0)
      BY <2>3, <2>7, <3>1, <3>2
    <3>4. ASSUME NEW d \in Commands \ {c}
          PROVE  m_cRef'[d] = (IF held'[d] THEN 1 ELSE 0) + (IF Outlisted(d)' THEN 0 ELSE 1)
                       + (IF waiter'.cmd = d /\ ~uncounted' THEN 1 ELSE 0)
      BY <1>1, <2>3, <2>7, <3>1 DEF CountedInv
    <3> QED BY <3>3, <3>4 DEF CountedInv
  <2> QED BY <2>7, <2>10, <2>11, <2>12, <2>13, <2>14 DEF CmdInv
<1> QED BY <1>2, <1>3

\* A command that is on a list comes off it, and the list gives back its reference.
LEMMA RemovedKeeps ==
    ASSUME CmdInv, NEW c \in Commands, ~Outlisted(c), Deferred!RemoveFromLists(c),
           \A d \in Commands : d # c => m_time'[d] = m_time[d],
           UNCHANGED << m_bStream, held, uncounted >>, waiter'.cmd = waiter.cmd
    PROVE  /\ m_listPresentation' \in Seq(Commands) /\ m_listStream' \in Seq(Commands)
           /\ m_cRef' \in [Commands -> Int]
           /\ ListedInv' /\ CountedInv'
           /\ \A d : Outlisted(d)' <=> Outlisted(d) \/ d = c
<1>1. ListsTyped /\ ListedInv /\ CountedInv
  BY DEF CmdInv
<1>2. /\ m_listPresentation' = Deferred!RemoveFirst(m_listPresentation, c)
      /\ m_listStream' = Deferred!RemoveFirst(m_listStream, c)
      /\ m_cRef' = [m_cRef EXCEPT ![c] = @ - 1]
  BY DEF Deferred!RemoveFromLists
<1>3. /\ m_listPresentation' \in Seq(Commands) /\ m_listStream' \in Seq(Commands)
      /\ ListedInv'
      /\ \A d : Outlisted(d)' <=> Outlisted(d) \/ d = c
  BY <1>1, <1>2, RemovalKeeps
<1>4. /\ m_cRef' \in [Commands -> Int] /\ m_cRef'[c] = m_cRef[c] - 1
      /\ \A d \in Commands \ {c} : m_cRef'[d] = m_cRef[d]
  BY <1>1, <1>2 DEF ListsTyped
<1>5. m_cRef[c] = (IF held[c] THEN 1 ELSE 0) + 1 + (IF waiter.cmd = c /\ ~uncounted THEN 1 ELSE 0)
  BY <1>1 DEF CountedInv
<1>6. m_cRef'[c] = (IF held'[c] THEN 1 ELSE 0) + (IF Outlisted(c)' THEN 0 ELSE 1)
                   + (IF waiter'.cmd = c /\ ~uncounted' THEN 1 ELSE 0)
  BY <1>3, <1>4, <1>5
<1>7. ASSUME NEW d \in Commands \ {c}
      PROVE  m_cRef'[d] = (IF held'[d] THEN 1 ELSE 0) + (IF Outlisted(d)' THEN 0 ELSE 1)
                   + (IF waiter'.cmd = d /\ ~uncounted' THEN 1 ELSE 0)
  BY <1>1, <1>3, <1>4 DEF CountedInv
<1> QED BY <1>3, <1>4, <1>6, <1>7 DEF CountedInv

\* What stays true while the lists and the references do.
LEMMA ListsStay ==
    ASSUME CmdInv, UNCHANGED << m_listPresentation, m_listStream, m_time, m_bStream, m_cRef, held, uncounted >>,
           waiter'.cmd = waiter.cmd
    PROVE  /\ \A d : Outlisted(d)' <=> Outlisted(d)
           /\ ListedInv' /\ CountedInv'
BY DEF CmdInv, Outlisted, ListedInv, CountedInv

\* The last reference deletes the command: then it is on no list, and nobody has it.
LEMMA ReleasedCommandKeeps ==
    ASSUME CmdInv, NEW c \in Commands, Deferred!Released(c), UNCHANGED << m_listPresentation, m_listStream >>,
           waiter'.cmd \in Commands => waiter'.cmd = waiter.cmd, app' = app, newtime' = newtime,
           held' \in [Commands -> BOOLEAN], uncounted' = uncounted, uncounted => waiter'.cmd = waiter.cmd,
           \A d \in Commands : d # c => held'[d] = held[d] /\ (waiter'.cmd = d <=> waiter.cmd = d),
           (IF held[c] THEN 1 ELSE 0) + (IF waiter.cmd = c /\ ~uncounted THEN 1 ELSE 0)
             = 1 + (IF held'[c] THEN 1 ELSE 0) + (IF waiter'.cmd = c /\ ~uncounted THEN 1 ELSE 0),
           app.cmd = c => held'[c], m_cRef[c] = 1 => waiter'.cmd # c
    PROVE  /\ m_time' \in [Commands -> Nat] /\ m_bStream' \in [Commands -> BOOLEAN]
           /\ m_cRef' \in [Commands -> Int]
           /\ \A d : Outlisted(d)' <=> Outlisted(d)
           /\ \A d \in Commands : m_time'[d] \in {0, m_time[d]}
           /\ MadeInv' /\ ListedInv' /\ CountedInv'
<1>1. ListsTyped /\ MadeInv /\ ListedInv /\ CountedInv
  BY DEF CmdInv
<1>2. \A d : Outlisted(d)' <=> Outlisted(d)
  BY DEF Outlisted
<1>3. m_cRef' = [m_cRef EXCEPT ![c] = @ - 1]
  BY DEF Deferred!Released
<1>4. /\ m_cRef' \in [Commands -> Int] /\ m_cRef'[c] = m_cRef[c] - 1
      /\ \A d \in Commands \ {c} : m_cRef'[d] = m_cRef[d]
  BY <1>1, <1>3 DEF ListsTyped
<1>5. m_cRef[c] = (IF held[c] THEN 1 ELSE 0) + (IF Outlisted(c) THEN 0 ELSE 1)
                  + (IF waiter.cmd = c /\ ~uncounted THEN 1 ELSE 0)
  BY <1>1 DEF CountedInv
<1>6. CountedInv'
  <2>1. m_cRef'[c] = (IF held'[c] THEN 1 ELSE 0) + (IF Outlisted(c)' THEN 0 ELSE 1)
                     + (IF waiter'.cmd = c /\ ~uncounted' THEN 1 ELSE 0)
    BY <1>2, <1>4, <1>5
  <2>2. ASSUME NEW d \in Commands \ {c}
        PROVE  m_cRef'[d] = (IF held'[d] THEN 1 ELSE 0) + (IF Outlisted(d)' THEN 0 ELSE 1)
                     + (IF waiter'.cmd = d /\ ~uncounted' THEN 1 ELSE 0)
    BY <1>1, <1>2, <1>4 DEF CountedInv
  <2> QED BY <2>1, <2>2 DEF CountedInv
<1>7. CASE m_cRef[c] = 1
  <2>1. m_time' = [m_time EXCEPT ![c] = 0] /\ m_bStream' = [m_bStream EXCEPT ![c] = FALSE]
    BY <1>7 DEF Deferred!Released
  <2>2. Outlisted(c) /\ ~held'[c]
    BY <1>5, <1>7
  <2>3. /\ m_time' \in [Commands -> Nat] /\ m_bStream' \in [Commands -> BOOLEAN] /\ m_time'[c] = 0
        /\ \A d \in Commands : d # c => m_time'[d] = m_time[d] /\ m_bStream'[d] = m_bStream[d]
    BY <1>1, <2>1 DEF ListsTyped
  <2>4. MadeInv'
    BY <1>1, <1>2, <1>7, <2>2, <2>3 DEF MadeInv
  <2>5. ListedInv'
    <3>1. m_listPresentation \in Seq(Commands) /\ m_listStream \in Seq(Commands)
          /\ Sorted(m_listPresentation, m_time) /\ Sorted(m_listStream, m_time)
          /\ ~On(m_listPresentation, c) /\ ~On(m_listStream, c)
      BY <1>1, <2>2 DEF ListsTyped, ListedInv, Outlisted
    <3>2. Sorted(m_listPresentation, m_time') /\ Sorted(m_listStream, m_time')
      <4>1. ASSUME NEW list \in Seq(Commands), Sorted(list, m_time), ~On(list, c)
            PROVE  Sorted(list, m_time')
        <5>1. \A i \in DOMAIN list : list[i] \in Commands /\ list[i] # c
          BY <4>1 DEF On
        <5> QED BY <2>3, <4>1, <5>1 DEF Sorted
      <4> QED BY <3>1, <4>1
    <3> QED BY <1>1, <2>3, <3>1, <3>2 DEF ListedInv
  <2> QED BY <1>2, <1>4, <1>6, <2>3, <2>4, <2>5
<1>8. CASE m_cRef[c] # 1
  <2>1. UNCHANGED << m_time, m_bStream >>
    BY <1>8 DEF Deferred!Released
  <2>2. m_time[c] # 0
    BY <1>1 DEF MadeInv
  <2>3. MadeInv'
    BY <1>1, <1>2, <2>1, <2>2 DEF MadeInv
  <2>4. ListedInv'
    BY <1>1, <2>1 DEF ListedInv
  <2> QED BY <1>1, <1>2, <1>4, <1>6, <2>1, <2>3, <2>4 DEF ListsTyped
<1> QED BY <1>7, <1>8

LEMMA ReleaseKeeps == ASSUME CmdInv, NEW c \in Commands, Deferred!Release(c) PROVE CmdInv'
<1>1. ListsTyped /\ MadeInv /\ OffInv /\ OwnedInv /\ CountedInv /\ None \notin Commands
  BY QueuesAssumption DEF CmdInv, Deferred!CmdQueueAssumption
<1>2. CASE m_cRef[c] = 1 /\ waiter.cmd = c
  BY <1>2, EndsKeeps DEF Deferred!Release
<1>3. CASE ~(m_cRef[c] = 1 /\ waiter.cmd = c)
  <2>1. /\ Deferred!Released(c) /\ held' = [held EXCEPT ![c] = FALSE] /\ held[c] /\ app.cmd = None
        /\ UNCHANGED << m_listPresentation, m_listStream, m_pQueue, app, newtime, waiter, fate, uncounted, crossed >>
    BY <1>3 DEF Deferred!Release, Deferred!lists, Deferred!marks, Deferred!Idle, Deferred!At
  <2>2. held' \in [Commands -> BOOLEAN] /\ ~held'[c] /\ \A d \in Commands : d # c => held'[d] = held[d]
    BY <1>1, <2>1 DEF ListsTyped
  <2>3. /\ (IF held[c] THEN 1 ELSE 0) + (IF waiter.cmd = c /\ ~uncounted THEN 1 ELSE 0)
             = 1 + (IF held'[c] THEN 1 ELSE 0) + (IF waiter'.cmd = c /\ ~uncounted THEN 1 ELSE 0)
        /\ app.cmd # c
        /\ m_cRef[c] = 1 => waiter'.cmd # c
        /\ waiter'.cmd = waiter.cmd
    BY <1>1, <1>3, <2>1, <2>2
  <2>4. /\ m_time' \in [Commands -> Nat] /\ m_bStream' \in [Commands -> BOOLEAN]
        /\ m_cRef' \in [Commands -> Int]
        /\ \A d : Outlisted(d)' <=> Outlisted(d)
        /\ \A d \in Commands : m_time'[d] \in {0, m_time[d]}
        /\ MadeInv' /\ ListedInv' /\ CountedInv'
    BY <2>1, <2>2, <2>3, ReleasedCommandKeeps
  <2>5. ListsTyped'
    BY <1>1, <2>1, <2>2, <2>4 DEF ListsTyped
  <2>6. OffInv' /\ OwnedInv'
    BY <1>1, <2>1, <2>4 DEF OffInv, OwnedInv
  <2> QED BY <2>4, <2>5, <2>6 DEF CmdInv
<1> QED BY <1>2, <1>3

LEMMA CancelKeeps ==
    ASSUME CmdInv, Deferred!CancelRemove \/ Deferred!CancelDone \/ \E c \in Commands : Deferred!Cancel(c)
    PROVE  CmdInv'
<1>1. ListsTyped /\ MadeInv /\ OffInv /\ ListedInv /\ OwnedInv /\ CountedInv /\ None \notin Commands
  BY QueuesAssumption DEF CmdInv, Deferred!CmdQueueAssumption
<1>2. CASE Deferred!CancelRemove /\ Deferred!Listed(app.cmd) /\ ~Deferred!Ends
  <2>1. PICK c : c = app.cmd
    OBVIOUS
  <2>2. c \in Commands /\ ~Outlisted(c)
    BY <1>1, <1>2, <2>1, ListedIs DEF Deferred!CancelRemove, ListsTyped
  <2>3. /\ Deferred!RemoveFromLists(c)
        /\ fate' = [fate EXCEPT ![c] = IF @ = "none" THEN "cancelled" ELSE @]
        /\ app' = Deferred!At("cancelled", c)
        /\ UNCHANGED << m_time, m_bStream, m_pQueue, newtime, waiter, held, uncounted, crossed >>
    BY <1>2, <2>1 DEF Deferred!CancelRemove, Deferred!marks
  <2>4. /\ m_listPresentation' \in Seq(Commands) /\ m_listStream' \in Seq(Commands)
        /\ m_cRef' \in [Commands -> Int]
        /\ ListedInv' /\ CountedInv'
        /\ \A d : Outlisted(d)' <=> Outlisted(d) \/ d = c
    BY <2>2, <2>3, RemovedKeeps
  <2>5. app'.at = "cancelled" /\ app'.cmd = c
    BY <2>3 DEF Deferred!At
  <2>6. /\ fate' \in [Commands -> {"none", "cancelled", "executed"}] /\ fate'[c] # "none"
        /\ fate[c] # "none" => fate'[c] = fate[c]
        /\ fate[c] = "none" => fate'[c] = "cancelled"
        /\ \A d \in Commands : d # c => fate'[d] = fate[d]
    BY <1>1, <2>2, <2>3 DEF ListsTyped
  <2>7. ListsTyped'
    BY <1>1, <2>2, <2>3, <2>4, <2>5, <2>6 DEF ListsTyped
  <2>8. MadeInv'
    BY <1>1, <2>1, <2>2, <2>3, <2>4, <2>5 DEF MadeInv
  <2>9. OffInv'
    <3>1. waiter.at \in {"executed", "removed"} => waiter.cmd \in Commands /\ fate[waiter.cmd] = "executed"
      BY <1>1 DEF OffInv, ListsTyped
    <3>2. waiter.at \in {"executed", "removed"} => fate'[waiter.cmd] = "executed"
      BY <2>6, <3>1
    <3>3. ASSUME NEW d \in Commands
          PROVE  /\ fate'[d] = "cancelled" => Outlisted(d)'
                 /\ fate'[d] = "executed" =>
                      ~m_pQueue[d] \/ (waiter.at \in {"executed", "removed"} /\ waiter.cmd = d)
      BY <1>1, <2>4, <2>6 DEF OffInv
    <3> QED BY <1>1, <2>2, <2>3, <2>4, <2>5, <2>6, <3>2, <3>3 DEF OffInv
  <2>10. OwnedInv'
    BY <1>1, <2>2, <2>3, <2>4, <2>6 DEF OwnedInv
  <2> QED BY <2>4, <2>7, <2>8, <2>9, <2>10 DEF CmdInv
<1>3. CASE Deferred!CancelRemove /\ ~Deferred!Listed(app.cmd) /\ ~Deferred!Ends
  <2>1. /\ app' = Deferred!Idle
        /\ UNCHANGED << m_listPresentation, m_listStream, m_cRef, fate, m_time, m_bStream, m_pQueue, newtime,
                        waiter, held, uncounted, crossed >>
    BY <1>3 DEF Deferred!CancelRemove, Deferred!lists, Deferred!cmds, Deferred!marks
  <2>2. app'.at = "idle" /\ app'.cmd = None
    BY <2>1 DEF Deferred!Idle, Deferred!At
  <2>3. (\A d : Outlisted(d)' <=> Outlisted(d)) /\ ListedInv' /\ CountedInv'
    BY <2>1, ListsStay
  <2>4. ListsTyped'
    BY <1>1, <2>1, <2>2 DEF ListsTyped
  <2>5. MadeInv' /\ OffInv' /\ OwnedInv'
    BY <1>1, <2>1, <2>2, <2>3 DEF MadeInv, OffInv, OwnedInv
  <2> QED BY <2>3, <2>4, <2>5 DEF CmdInv
<1>4. CASE Deferred!CancelDone
  <2>1. PICK c : c = app.cmd
    OBVIOUS
  <2>2. c \in Commands /\ Outlisted(c) /\ fate[c] # "none"
    BY <1>1, <1>4, <2>1 DEF Deferred!CancelDone, ListsTyped, OffInv
  <2>3. /\ m_pQueue' = [m_pQueue EXCEPT ![c] = FALSE] /\ app' = Deferred!Idle
        /\ UNCHANGED << m_listPresentation, m_listStream, m_cRef, fate, m_time, m_bStream, newtime,
                        waiter, held, uncounted, crossed >>
    BY <1>4, <2>1 DEF Deferred!CancelDone, Deferred!lists, Deferred!marks
  <2>4. app'.at = "idle" /\ app'.cmd = None
    BY <2>3 DEF Deferred!Idle, Deferred!At
  <2>5. /\ m_pQueue' \in [Commands -> BOOLEAN] /\ ~m_pQueue'[c]
        /\ \A d \in Commands : d # c => m_pQueue'[d] = m_pQueue[d]
    BY <1>1, <2>2, <2>3 DEF ListsTyped
  <2>6. (\A d : Outlisted(d)' <=> Outlisted(d)) /\ ListedInv' /\ CountedInv'
    BY <2>3, ListsStay
  <2>7. ListsTyped'
    BY <1>1, <2>3, <2>4, <2>5 DEF ListsTyped
  <2>8. MadeInv' /\ OffInv' /\ OwnedInv'
    BY <1>1, <2>2, <2>3, <2>4, <2>5, <2>6 DEF MadeInv, OffInv, OwnedInv
  <2> QED BY <2>6, <2>7, <2>8 DEF CmdInv
<1>5. ASSUME NEW c \in Commands, Deferred!Cancel(c) PROVE CmdInv'
  <2>1. /\ held[c] /\ app' = Deferred!At("cancel", c)
        /\ UNCHANGED << m_listPresentation, m_listStream, m_cRef, fate, m_time, m_bStream, m_pQueue, newtime,
                        held, waiter, uncounted, crossed >>
    BY <1>5 DEF Deferred!Cancel, Deferred!lists, Deferred!cmds, Deferred!marks
  <2>2. app'.at = "cancel" /\ app'.cmd = c
    BY <2>1 DEF Deferred!At
  <2>3. (\A d : Outlisted(d)' <=> Outlisted(d)) /\ ListedInv' /\ CountedInv'
    BY <2>1, ListsStay
  <2>4. ListsTyped'
    BY <1>1, <2>1, <2>2 DEF ListsTyped
  <2>5. MadeInv' /\ OffInv' /\ OwnedInv'
    BY <1>1, <2>1, <2>2, <2>3 DEF MadeInv, OffInv, OwnedInv
  <2> QED BY <2>3, <2>4, <2>5 DEF CmdInv
<1> QED BY <1>2, <1>3, <1>4, <1>5, EndsKeeps

LEMMA PostponeKeeps ==
    ASSUME CmdInv,
           Deferred!PostponeRemove
             \/ \E c \in Commands : \E t \in Deferred!Times(m_bStream[c]) : Deferred!Postpone(c, t)
    PROVE  CmdInv'
<1>1. ListsTyped /\ MadeInv /\ OffInv /\ ListedInv /\ OwnedInv /\ CountedInv /\ None \notin Commands
  BY QueuesAssumption DEF CmdInv, Deferred!CmdQueueAssumption
<1>2. CASE Deferred!PostponeRemove /\ Deferred!Listed(app.cmd) /\ ~Deferred!Ends
  <2>1. PICK c : c = app.cmd
    OBVIOUS
  <2>2. c \in Commands /\ ~Outlisted(c) /\ newtime \in Nat /\ newtime # 0 /\ held[c]
    BY <1>1, <1>2, <2>1, ListedIs DEF Deferred!PostponeRemove, ListsTyped, MadeInv
  <2>3. /\ Deferred!RemoveFromLists(c)
        /\ m_time' = [m_time EXCEPT ![c] = newtime]
        /\ app' = Deferred!At("requeue", c) /\ newtime' = 0
        /\ UNCHANGED << fate, m_bStream, m_pQueue, waiter, held, uncounted, crossed >>
    BY <1>2, <2>1 DEF Deferred!PostponeRemove, Deferred!marks
  <2>4. /\ m_time' \in [Commands -> Nat] /\ m_time'[c] # 0
        /\ \A d \in Commands : d # c => m_time'[d] = m_time[d]
    BY <1>1, <2>2, <2>3 DEF ListsTyped
  <2>5. /\ m_listPresentation' \in Seq(Commands) /\ m_listStream' \in Seq(Commands)
        /\ m_cRef' \in [Commands -> Int]
        /\ ListedInv' /\ CountedInv'
        /\ \A d : Outlisted(d)' <=> Outlisted(d) \/ d = c
    BY <2>2, <2>3, <2>4, RemovedKeeps
  <2>6. app'.at = "requeue" /\ app'.cmd = c
    BY <2>3 DEF Deferred!At
  <2>7. ListsTyped'
    BY <1>1, <2>2, <2>3, <2>4, <2>5, <2>6 DEF ListsTyped
  <2>8. MadeInv'
    BY <1>1, <2>1, <2>2, <2>3, <2>4, <2>5, <2>6 DEF MadeInv
  <2>9. OffInv'
    BY <1>1, <2>2, <2>3, <2>5, <2>6 DEF OffInv
  <2>10. OwnedInv'
    <3>1. m_time[c] # 0
      BY <1>1, <2>2 DEF MadeInv
    <3> QED BY <1>1, <2>2, <2>3, <2>4, <2>5, <3>1 DEF OwnedInv
  <2> QED BY <2>5, <2>7, <2>8, <2>9, <2>10 DEF CmdInv
<1>3. CASE Deferred!PostponeRemove /\ ~Deferred!Listed(app.cmd) /\ ~Deferred!Ends
  <2>1. /\ app' = Deferred!Idle /\ newtime' = 0
        /\ UNCHANGED << m_listPresentation, m_listStream, m_cRef, fate, m_time, m_bStream, m_pQueue,
                        waiter, held, uncounted, crossed >>
    BY <1>3 DEF Deferred!PostponeRemove, Deferred!lists, Deferred!cmds, Deferred!marks
  <2>2. app'.at = "idle" /\ app'.cmd = None
    BY <2>1 DEF Deferred!Idle, Deferred!At
  <2>3. (\A d : Outlisted(d)' <=> Outlisted(d)) /\ ListedInv' /\ CountedInv'
    BY <2>1, ListsStay
  <2>4. ListsTyped'
    BY <1>1, <2>1, <2>2 DEF ListsTyped
  <2>5. MadeInv' /\ OffInv' /\ OwnedInv'
    BY <1>1, <2>1, <2>2, <2>3 DEF MadeInv, OffInv, OwnedInv
  <2> QED BY <2>3, <2>4, <2>5 DEF CmdInv
<1>4. ASSUME NEW c \in Commands, NEW t \in Deferred!Times(m_bStream[c]), Deferred!Postpone(c, t), ~Deferred!Ends
      PROVE  CmdInv'
  <2>1. /\ held[c] /\ app' = Deferred!At("postpone", c) /\ newtime' = t /\ t \in Nat /\ t # 0
        /\ UNCHANGED << m_listPresentation, m_listStream, m_cRef, fate, m_time, m_bStream, m_pQueue,
                        held, waiter, uncounted, crossed >>
    BY <1>4 DEF Deferred!Postpone, Deferred!lists, Deferred!cmds, Deferred!marks, Deferred!Times
  <2>2. app'.at = "postpone" /\ app'.cmd = c
    BY <2>1 DEF Deferred!At
  <2>3. (\A d : Outlisted(d)' <=> Outlisted(d)) /\ ListedInv' /\ CountedInv'
    BY <2>1, ListsStay
  <2>4. ListsTyped'
    BY <1>1, <2>1, <2>2 DEF ListsTyped
  <2>5. MadeInv' /\ OffInv' /\ OwnedInv'
    BY <1>1, <2>1, <2>2, <2>3 DEF MadeInv, OffInv, OwnedInv
  <2> QED BY <2>3, <2>4, <2>5 DEF CmdInv
<1> QED BY <1>2, <1>3, <1>4, EndsKeeps

LEMMA GetsKeeps ==
    ASSUME CmdInv, NEW c, ~Outlisted(c), Deferred!Gets(c) \/ Deferred!GetsUncounted(c),
           waiter.at \in {"idle", "wait"}
    PROVE  CmdInv'
<1>1. ListsTyped /\ MadeInv /\ OffInv /\ ListedInv /\ OwnedInv /\ CountedInv /\ None \notin Commands
  BY QueuesAssumption DEF CmdInv, Deferred!CmdQueueAssumption
<1>2. c \in Commands
  <2>1. On(m_listPresentation, c) \/ On(m_listStream, c)
    BY DEF Outlisted
  <2> QED BY <1>1, <2>1 DEF ListsTyped, On
<1>3. waiter.cmd = None /\ ~uncounted
  BY <1>1 DEF ListsTyped, MadeInv
<1>4. /\ waiter' = Deferred!At("got", c)
      /\ UNCHANGED << m_listPresentation, m_listStream, m_time, m_bStream, m_pQueue, app, newtime, held, fate, crossed >>
  BY DEF Deferred!Gets, Deferred!GetsUncounted, Deferred!lists, Deferred!cmds, Deferred!calls, Deferred!marks
<1>5. waiter'.at = "got" /\ waiter'.cmd = c
  BY <1>4 DEF Deferred!At
<1>6. \A d : Outlisted(d)' <=> Outlisted(d)
  BY <1>4 DEF Outlisted
<1>7. \/ ~uncounted' /\ m_cRef' = [m_cRef EXCEPT ![c] = @ + 1]
      \/ uncounted' = TRUE /\ m_cRef' = m_cRef
  BY <1>3 DEF Deferred!Gets, Deferred!GetsUncounted, Deferred!marks, Deferred!cmds
<1>8. ListsTyped'
  <2>1. uncounted' \in BOOLEAN
    BY <1>1 DEF Deferred!Gets, Deferred!GetsUncounted, Deferred!marks, ListsTyped
  <2> QED BY <1>1, <1>2, <1>4, <1>5, <1>7, <2>1 DEF ListsTyped
<1>9. MadeInv'
  BY <1>1, <1>2, <1>4, <1>5, <1>6 DEF MadeInv
<1>10. OffInv' /\ OwnedInv'
  BY <1>1, <1>2, <1>4, <1>5, <1>6 DEF OffInv, OwnedInv, ListsTyped
<1>11. ListedInv'
  BY <1>1, <1>4 DEF ListedInv
<1>12. CountedInv'
  <2>1. m_cRef[c] = (IF held[c] THEN 1 ELSE 0) + (IF Outlisted(c) THEN 0 ELSE 1) + 0
    BY <1>1, <1>2, <1>3 DEF CountedInv
  <2>2. m_cRef'[c] = m_cRef[c] + (IF uncounted' THEN 0 ELSE 1)
        /\ \A d \in Commands \ {c} : m_cRef'[d] = m_cRef[d]
    BY <1>1, <1>2, <1>7 DEF ListsTyped
  <2>3. m_cRef'[c] = (IF held'[c] THEN 1 ELSE 0) + (IF Outlisted(c)' THEN 0 ELSE 1)
                     + (IF waiter'.cmd = c /\ ~uncounted' THEN 1 ELSE 0)
    BY <1>4, <1>5, <1>6, <2>1, <2>2
  <2>4. ASSUME NEW d \in Commands \ {c}
        PROVE  m_cRef'[d] = (IF held'[d] THEN 1 ELSE 0) + (IF Outlisted(d)' THEN 0 ELSE 1)
                     + (IF waiter'.cmd = d /\ ~uncounted' THEN 1 ELSE 0)
    BY <1>1, <1>3, <1>4, <1>5, <1>6, <2>2 DEF CountedInv
  <2> QED BY <2>3, <2>4 DEF CountedInv
<1> QED BY <1>8, <1>9, <1>10, <1>11, <1>12 DEF CmdInv

\* What the filter's thread is given is on a list.
LEMMA GivenIsListed ==
    ASSUME CmdInv, Deferred!GetDueCommand \/ \E t \in Deferred!Times(TRUE) : Deferred!GetCommandDueFor(t)
    PROVE  /\ waiter.at \in {"idle", "wait"}
           /\ \E c : ~Outlisted(c) /\ (Deferred!Gets(c) \/ Deferred!GetsUncounted(c))
<1>1. /\ \A i \in DOMAIN m_listPresentation : ~Outlisted(m_listPresentation[i])
      /\ m_listPresentation # <<>> => ~Outlisted(Head(m_listPresentation))
      /\ m_listStream # <<>> => ~Outlisted(Head(m_listStream))
  <2>1. m_listPresentation \in Seq(Commands) /\ m_listStream \in Seq(Commands)
    BY DEF CmdInv, ListsTyped
  <2>2. /\ m_listPresentation # <<>> => Head(m_listPresentation) = m_listPresentation[1] /\ 1 \in DOMAIN m_listPresentation
        /\ m_listStream # <<>> => Head(m_listStream) = m_listStream[1] /\ 1 \in DOMAIN m_listStream
    BY <2>1
  <2> QED BY <2>2 DEF Outlisted, On
<1>2. CASE Deferred!GetDueCommand
  <2>1. PICK c \in Deferred!Candidate : Deferred!Gets(c)
    BY <1>2 DEF Deferred!GetDueCommand
  <2>2. ~Outlisted(c)
    BY <1>1, <2>1 DEF Deferred!Candidate
  <2> QED BY <1>2, <2>1, <2>2 DEF Deferred!GetDueCommand
<1>3. ASSUME NEW t \in Deferred!Times(TRUE), Deferred!GetCommandDueFor(t)
      PROVE  /\ waiter.at \in {"idle", "wait"}
             /\ \E c : ~Outlisted(c) /\ (Deferred!Gets(c) \/ Deferred!GetsUncounted(c))
  <2>1. CASE \E i \in DOMAIN m_listPresentation \cap {1} : Deferred!Gets(m_listPresentation[i])
    BY <1>1, <1>3, <2>1 DEF Deferred!GetCommandDueFor
  <2>2. CASE m_listStream # <<>> /\ Deferred!Gets(Head(m_listStream))
    BY <1>1, <1>3, <2>2 DEF Deferred!GetCommandDueFor
  <2>3. CASE m_listPresentation # <<>> /\ Deferred!GetsUncounted(Head(m_listPresentation))
    BY <1>1, <1>3, <2>3 DEF Deferred!GetCommandDueFor
  <2> QED BY <1>3, <2>1, <2>2, <2>3 DEF Deferred!GetCommandDueFor
<1> QED BY <1>2, <1>3

LEMMA WaiterKeeps ==
    ASSUME CmdInv, Deferred!WaiterStep \/ \E t \in Deferred!Times(TRUE) : Deferred!GetCommandDueFor(t)
    PROVE  CmdInv'
<1>1. ListsTyped /\ MadeInv /\ OffInv /\ ListedInv /\ OwnedInv /\ CountedInv /\ None \notin Commands
  BY QueuesAssumption DEF CmdInv, Deferred!CmdQueueAssumption
<1>2. CASE Deferred!GetDueCommand \/ \E t \in Deferred!Times(TRUE) : Deferred!GetCommandDueFor(t)
  BY <1>2, GivenIsListed, GetsKeeps
<1>3. CASE Deferred!WaitForDue \/ Deferred!Timeout
  <2>1. /\ waiter.cmd = None /\ waiter' \in {Deferred!At("wait", None), Deferred!Idle}
        /\ UNCHANGED << m_listPresentation, m_listStream, m_time, m_bStream, m_pQueue, m_cRef, app, newtime, held,
                        fate, uncounted, crossed >>
    BY <1>1, <1>3 DEF ListsTyped, Deferred!WaitForDue, Deferred!Timeout, Deferred!lists, Deferred!cmds,
       Deferred!calls, Deferred!marks
  <2>2. waiter'.cmd = None /\ waiter'.at \in {"idle", "wait"}
    BY <2>1 DEF Deferred!At, Deferred!Idle
  <2>3. (\A d : Outlisted(d)' <=> Outlisted(d)) /\ ListedInv' /\ CountedInv'
    BY <2>1, <2>2, ListsStay
  <2>4. ListsTyped'
    BY <1>1, <2>1, <2>2 DEF ListsTyped
  <2>5. MadeInv' /\ OffInv' /\ OwnedInv'
    <3>1. waiter.at \notin {"executed", "removed"}
      BY <1>1, <2>1 DEF ListsTyped
    <3> QED BY <1>1, <2>1, <2>2, <2>3, <3>1 DEF MadeInv, OffInv, OwnedInv
  <2> QED BY <2>3, <2>4, <2>5 DEF CmdInv
<1>4. CASE Deferred!Invoke
  <2>1. PICK c : c = waiter.cmd
    OBVIOUS
  <2>2. c \in Commands /\ waiter.at = "got"
    BY <1>1, <1>4, <2>1 DEF ListsTyped, Deferred!Invoke
  <2>3. /\ waiter'.cmd = c
        /\ UNCHANGED << m_listPresentation, m_listStream, m_time, m_bStream, m_pQueue, m_cRef, app, newtime, held,
                        uncounted, crossed >>
    BY <1>4, <2>1 DEF Deferred!Invoke, Deferred!lists, Deferred!cmds, Deferred!calls, Deferred!marks, Deferred!At
  <2>4. (\A d : Outlisted(d)' <=> Outlisted(d)) /\ ListedInv' /\ CountedInv'
    BY <2>1, <2>3, ListsStay
  <2>5. CASE waiter' = Deferred!At("executed", c)
    <3>1. m_pQueue[c] /\ fate' = [fate EXCEPT ![c] = IF @ = "executed" THEN "twice" ELSE "executed"]
      BY <1>4, <2>1, <2>5 DEF Deferred!Invoke, Deferred!At
    <3>2. fate[c] # "executed" /\ waiter'.at = "executed"
      BY <1>1, <2>2, <2>5, <3>1 DEF OffInv, Deferred!At
    <3>3. /\ fate' \in [Commands -> {"none", "cancelled", "executed"}] /\ fate'[c] = "executed"
          /\ \A d \in Commands : d # c => fate'[d] = fate[d]
      BY <1>1, <2>2, <3>1, <3>2 DEF ListsTyped
    <3>4. ListsTyped'
      BY <1>1, <2>2, <2>3, <3>2, <3>3 DEF ListsTyped
    <3>5. MadeInv' /\ OwnedInv'
      BY <1>1, <2>1, <2>2, <2>3, <2>4, <3>3 DEF MadeInv, OwnedInv
    <3>6. OffInv'
      <4>1. app.at \in {"cancelled", "requeue"} => app.cmd \in Commands
        BY <1>1 DEF ListsTyped
      <4> QED BY <1>1, <2>1, <2>2, <2>3, <2>4, <3>2, <3>3, <4>1 DEF OffInv
    <3> QED BY <2>4, <3>4, <3>5, <3>6 DEF CmdInv
  <2>6. CASE waiter' = Deferred!At("refused", c) /\ UNCHANGED fate
    <3>1. waiter'.at = "refused"
      BY <2>6 DEF Deferred!At
    <3>2. ListsTyped'
      BY <1>1, <2>2, <2>3, <2>6, <3>1 DEF ListsTyped
    <3>3. MadeInv' /\ OwnedInv' /\ OffInv'
      BY <1>1, <2>1, <2>2, <2>3, <2>4, <2>6, <3>1 DEF MadeInv, OwnedInv, OffInv
    <3> QED BY <2>4, <3>2, <3>3 DEF CmdInv
  <2> QED BY <1>4, <2>1, <2>5, <2>6 DEF Deferred!Invoke
<1>5. CASE Deferred!InvokeRemove /\ ~Deferred!Ends
  <2>1. PICK c : c = waiter.cmd
    OBVIOUS
  <2>2. c \in Commands /\ waiter.at = "executed" /\ m_pQueue[c]
    BY <1>1, <1>5, <2>1 DEF ListsTyped, Deferred!InvokeRemove
  <2>3. /\ waiter' = Deferred!At("removed", c)
        /\ UNCHANGED << m_time, m_bStream, m_pQueue, app, newtime, held, fate, uncounted, crossed >>
    BY <1>5, <2>1 DEF Deferred!InvokeRemove, Deferred!calls, Deferred!marks
  <2>4. waiter'.at = "removed" /\ waiter'.cmd = c
    BY <2>3 DEF Deferred!At
  <2>5. /\ m_listPresentation' \in Seq(Commands) /\ m_listStream' \in Seq(Commands)
        /\ m_cRef' \in [Commands -> Int]
        /\ ListedInv' /\ CountedInv'
        /\ \A d : Outlisted(d)' <=> Outlisted(d) \/ d = c
    <3>1. CASE Outlisted(c)
      <4>1. UNCHANGED << m_listPresentation, m_listStream, m_cRef >>
        BY <1>5, <2>1, <3>1, ListedIs DEF Deferred!InvokeRemove, Deferred!lists
      <4>2. (\A d : Outlisted(d)' <=> Outlisted(d)) /\ ListedInv' /\ CountedInv'
        BY <2>1, <2>3, <2>4, <4>1, ListsStay
      <4> QED BY <1>1, <3>1, <4>1, <4>2 DEF ListsTyped
    <3>2. CASE ~Outlisted(c)
      <4>1. Deferred!RemoveFromLists(c)
        BY <1>5, <2>1, <3>2, ListedIs DEF Deferred!InvokeRemove
      <4> QED BY <2>1, <2>2, <2>3, <2>4, <3>2, <4>1, RemovedKeeps
    <3> QED BY <3>1, <3>2
  <2>6. ListsTyped'
    BY <1>1, <2>2, <2>3, <2>4, <2>5 DEF ListsTyped
  <2>7. MadeInv' /\ OwnedInv'
    BY <1>1, <2>1, <2>2, <2>3, <2>4, <2>5 DEF MadeInv, OwnedInv
  <2>8. OffInv'
    BY <1>1, <2>1, <2>2, <2>3, <2>4, <2>5 DEF OffInv
  <2> QED BY <2>5, <2>6, <2>7, <2>8 DEF CmdInv
<1>6. CASE Deferred!InvokeDone /\ ~Deferred!Ends
  <2>1. PICK c : c = waiter.cmd
    OBVIOUS
  <2>2. c \in Commands /\ waiter.at \in {"removed", "refused"} /\ ~uncounted
    BY <1>1, <1>6, <2>1 DEF ListsTyped, Deferred!InvokeDone
  <2>3. /\ Deferred!Released(c) /\ waiter' = Deferred!Idle
        /\ m_pQueue' = [m_pQueue EXCEPT ![c] = @ /\ waiter.at = "refused"]
        /\ UNCHANGED << m_listPresentation, m_listStream, app, newtime, held, fate, uncounted, crossed >>
    BY <1>6, <2>1, <2>2 DEF Deferred!InvokeDone, Deferred!lists, Deferred!calls, Deferred!marks
  <2>4. waiter'.at = "idle" /\ waiter'.cmd = None
    BY <2>3 DEF Deferred!Idle, Deferred!At
  <2>5. /\ held' \in [Commands -> BOOLEAN]
        /\ app.cmd = c => held'[c]
        /\ (IF held[c] THEN 1 ELSE 0) + (IF waiter.cmd = c /\ ~uncounted THEN 1 ELSE 0)
             = 1 + (IF held'[c] THEN 1 ELSE 0) + (IF waiter'.cmd = c /\ ~uncounted THEN 1 ELSE 0)
        /\ \A d \in Commands : d # c => held'[d] = held[d] /\ (waiter'.cmd = d <=> waiter.cmd = d)
        /\ waiter'.cmd # c /\ waiter'.cmd \notin Commands
    BY <1>1, <2>1, <2>2, <2>3, <2>4 DEF ListsTyped, MadeInv
  <2>6. /\ m_time' \in [Commands -> Nat] /\ m_bStream' \in [Commands -> BOOLEAN]
        /\ m_cRef' \in [Commands -> Int]
        /\ \A d : Outlisted(d)' <=> Outlisted(d)
        /\ \A d \in Commands : m_time'[d] \in {0, m_time[d]}
        /\ MadeInv' /\ ListedInv' /\ CountedInv'
    BY <2>2, <2>3, <2>5, ReleasedCommandKeeps
  <2>7. /\ m_pQueue' \in [Commands -> BOOLEAN]
        /\ m_pQueue'[c] => m_pQueue[c] /\ waiter.at = "refused"
        /\ waiter.at = "refused" => m_pQueue'[c] = m_pQueue[c]
        /\ \A d \in Commands : d # c => m_pQueue'[d] = m_pQueue[d]
    <3>1. m_pQueue \in [Commands -> BOOLEAN] /\ (m_pQueue[c] /\ waiter.at = "refused") \in BOOLEAN
      BY <1>1 DEF ListsTyped
    <3> QED BY <2>2, <2>3, <3>1
  <2>8. ListsTyped'
    BY <1>1, <2>3, <2>4, <2>6, <2>7 DEF ListsTyped
  <2>9. OffInv'
    BY <1>1, <2>1, <2>2, <2>3, <2>4, <2>6, <2>7 DEF OffInv
  <2>10. OwnedInv'
    <3>1. waiter.at = "removed" => fate[c] = "executed" /\ (Outlisted(c) \/ c \in crossed)
      BY <1>1, <2>1 DEF OffInv
    <3> QED BY <1>1, <2>2, <2>3, <2>6, <2>7, <3>1 DEF OwnedInv
  <2> QED BY <2>6, <2>8, <2>9, <2>10 DEF CmdInv
<1> QED BY <1>2, <1>3, <1>4, <1>5, <1>6, EndsKeeps DEF Deferred!WaiterStep

LEMMA CmdStep == CmdInv /\ [QueuesNext]_queueVars => CmdInv'
<1> SUFFICES ASSUME CmdInv, [QueuesNext]_queueVars PROVE CmdInv'
  OBVIOUS
<1>1. CASE UNCHANGED commandVars
  BY <1>1, CmdSame DEF commandVars, CmdVars
<1>2. CASE Deferred!Next
  <2>1. CASE Deferred!WaiterStep
    BY <2>1, WaiterKeeps
  <2>2. CASE Deferred!AppStep
    BY <2>2, NewKeeps, RequeueKeeps, ReleaseKeeps, CancelKeeps, PostponeKeeps DEF Deferred!AppStep
  <2>3. CASE Deferred!FilterStep
    <3>1. ASSUME NEW running \in BOOLEAN, Deferred!RunChanges(running) PROVE UNCHANGED CmdVars
      BY <3>1 DEF Deferred!RunChanges, CmdVars, Deferred!lists, Deferred!cmds, Deferred!calls, Deferred!marks
    <3>2. ASSUME NEW clock \in 0..LastTime, Deferred!SetSyncSource(clock) PROVE UNCHANGED CmdVars
      BY <3>2 DEF Deferred!SetSyncSource, CmdVars, Deferred!lists, Deferred!cmds, Deferred!calls, Deferred!marks
    <3>3. ASSUME Deferred!Tick PROVE UNCHANGED CmdVars
      BY <3>3 DEF Deferred!Tick, CmdVars, Deferred!lists, Deferred!cmds, Deferred!calls, Deferred!marks
    <3> QED BY <2>3, <3>1, <3>2, <3>3, CmdSame, WaiterKeeps DEF Deferred!FilterStep
  <2> QED BY <1>2, <2>1, <2>2, <2>3 DEF Deferred!Next
<1> QED BY <1>1, <1>2 DEF QueuesNext, queueVars

LEMMA CmdSafe == CmdInv => Deferred!CommandsSound
<1> SUFFICES ASSUME CmdInv PROVE Deferred!CommandsSound
  OBVIOUS
<1>1. ListedInv /\ OwnedInv /\ CountedInv
  BY DEF CmdInv
<1>2. \A list \in {m_listPresentation, m_listStream} :
         \A i, j \in DOMAIN list : i < j => m_time[list[i]] <= m_time[list[j]] /\ list[i] # list[j]
  BY <1>1 DEF ListedInv, Sorted
<1>3. ASSUME NEW c \in Commands
      PROVE  /\ Deferred!OnList(c) => ~m_bStream[c]
             /\ Deferred!OnStream(c) => m_bStream[c]
             /\ Deferred!Listed(c) => m_pQueue[c] \/ c \in crossed
             /\ m_time[c] # 0 /\ ~m_pQueue[c] => fate[c] # "none"
             /\ m_cRef[c] = (IF held[c] THEN 1 ELSE 0) + (IF Deferred!Listed(c) THEN 1 ELSE 0)
                            + (IF waiter.cmd = c /\ ~uncounted THEN 1 ELSE 0)
  <2>1. m_cRef[c] = (IF held[c] THEN 1 ELSE 0) + (IF Outlisted(c) THEN 0 ELSE 1)
                    + (IF waiter.cmd = c /\ ~uncounted THEN 1 ELSE 0)
    BY <1>1 DEF CountedInv
  <2>2. Deferred!Listed(c) <=> ~Outlisted(c)
    BY ListedIs
  <2>3. m_cRef[c] = (IF held[c] THEN 1 ELSE 0) + (IF Deferred!Listed(c) THEN 1 ELSE 0)
                    + (IF waiter.cmd = c /\ ~uncounted THEN 1 ELSE 0)
    BY <2>1, <2>2
  <2>4. /\ Deferred!OnList(c) => ~m_bStream[c]
        /\ Deferred!OnStream(c) => m_bStream[c]
    BY <1>1, ListedIs DEF ListedInv
  <2>5. /\ Deferred!Listed(c) => m_pQueue[c] \/ c \in crossed
        /\ m_time[c] # 0 /\ ~m_pQueue[c] => fate[c] # "none"
    BY <1>1, <2>2 DEF OwnedInv
  <2> QED BY <2>3, <2>4, <2>5
<1> QED BY <1>2, <1>3 DEF Deferred!CommandsSound

\* The head of a list is the first that is due of it.
LEMMA HeadFirst ==
    ASSUME NEW list \in Seq(Commands), NEW time \in [Commands -> Nat], Sorted(list, time), NEW d, On(list, d)
    PROVE  list # <<>> /\ Head(list) = list[1] /\ Head(list) \in Commands /\ d \in Commands /\ time[Head(list)] <= time[d]
<1>1. PICK i \in DOMAIN list : list[i] = d
  BY DEF On
<1>2. i \in 1..Len(list) /\ Len(list) \in Nat /\ \A j \in 1..Len(list) : list[j] \in Commands
  BY <1>1
<1>3. list # <<>> /\ Head(list) = list[1] /\ 1 \in DOMAIN list /\ list[1] \in Commands
  BY <1>2
<1>4. i = 1 \/ 1 < i
  BY <1>2
<1>5. 1 < i => time[list[1]] <= time[list[i]]
  BY <1>1, <1>3 DEF Sorted
<1>6. time[d] \in Nat
  BY <1>1, <1>2
<1> QED BY <1>1, <1>2, <1>3, <1>4, <1>5, <1>6

\* Only the filter's own thread moves it, as long as the program goes on.
LEMMA OnlyTheFilter ==
    ASSUME Deferred!Next, ~ UNCHANGED waiter, ~Deferred!Ends
    PROVE  Deferred!WaiterStep \/ \E t \in Deferred!Times(TRUE) : Deferred!GetCommandDueFor(t)
<1>1. ASSUME Deferred!AppStep PROVE FALSE
  BY <1>1 DEF Deferred!AppStep, Deferred!New, Deferred!Release, Deferred!Cancel, Deferred!Postpone,
     Deferred!CancelRemove, Deferred!CancelDone, Deferred!PostponeRemove, Deferred!Requeue
<1>2. ASSUME Deferred!FilterStep PROVE \E t \in Deferred!Times(TRUE) : Deferred!GetCommandDueFor(t)
  BY <1>2 DEF Deferred!FilterStep, Deferred!RunChanges, Deferred!SetSyncSource, Deferred!Tick
<1> QED BY <1>1, <1>2 DEF Deferred!Next

LEMMA CmdOrder ==
    ASSUME CmdInv, [QueuesNext]_queueVars, CmdInv'
    PROVE  Deferred!TakesInOrder
<1>1. ListsTyped /\ MadeInv /\ OffInv /\ ListedInv /\ None \notin Commands /\ Offset \in Nat
  BY QueuesAssumption DEF CmdInv, Deferred!CmdQueueAssumption
<1>2. ASSUME NEW c \in Commands PROVE fate'[c] # "twice"
  <2>1. fate' \in [Commands -> {"none", "cancelled", "executed"}]
    BY DEF CmdInv, ListsTyped
  <2> QED BY <2>1
<1>3. waiter'.cmd \in Commands => waiter'.cmd = waiter.cmd \/ ~Outlisted(waiter'.cmd)
  <2>1. CASE UNCHANGED waiter \/ Deferred!Ends
    BY <1>1, <2>1 DEF Deferred!Ends, Deferred!Idle, Deferred!At
  <2>2. CASE Deferred!Next /\ ~ UNCHANGED waiter /\ ~Deferred!Ends
    <3>1. CASE Deferred!GetDueCommand \/ \E t \in Deferred!Times(TRUE) : Deferred!GetCommandDueFor(t)
      <4>1. PICK c : ~Outlisted(c) /\ (Deferred!Gets(c) \/ Deferred!GetsUncounted(c))
        BY <3>1, GivenIsListed
      <4> QED BY <4>1 DEF Deferred!Gets, Deferred!GetsUncounted, Deferred!At
    <3>2. CASE Deferred!WaitForDue \/ Deferred!Timeout \/ Deferred!InvokeDone
      BY <1>1, <2>2, <3>2 DEF Deferred!WaitForDue, Deferred!Timeout, Deferred!InvokeDone, Deferred!At, Deferred!Idle
    <3>3. CASE Deferred!Invoke \/ Deferred!InvokeRemove
      BY <2>2, <3>3 DEF Deferred!Invoke, Deferred!InvokeRemove, Deferred!At
    <3> QED BY <2>2, <3>1, <3>2, <3>3, OnlyTheFilter DEF Deferred!WaiterStep
  <2> QED BY <2>1, <2>2 DEF QueuesNext, queueVars, commandVars
<1>4. ASSUME NEW c \in Commands, fate[c] = "cancelled", waiter.cmd # c PROVE waiter'.cmd # c
  BY <1>1, <1>3, <1>4 DEF OffInv
<1>5. ASSUME waiter'.at = "got", waiter.at = "wait", NEW d \in Deferred!Outstanding, Deferred!Due(d)
      PROVE  Deferred!PresentationTime(waiter'.cmd, m_time) <= Deferred!PresentationTime(d, m_time)
  <2>1. Deferred!GetDueCommand
    <3>1. Deferred!Next /\ ~ UNCHANGED waiter /\ ~Deferred!Ends
      BY <1>5 DEF QueuesNext, queueVars, commandVars, Deferred!Ends, Deferred!Idle, Deferred!At
    <3>2. Deferred!WaiterStep \/ \E t \in Deferred!Times(TRUE) : Deferred!GetCommandDueFor(t)
      BY <3>1, OnlyTheFilter
    <3> QED
      BY <1>5, <3>1, <3>2 DEF Deferred!WaiterStep, Deferred!WaitForDue, Deferred!Invoke, Deferred!InvokeRemove,
         Deferred!InvokeDone, Deferred!Timeout, Deferred!GetCommandDueFor, Deferred!At, Deferred!Idle
  <2>2. PICK c \in Deferred!Candidate : waiter'.cmd = c
    BY <2>1 DEF Deferred!GetDueCommand, Deferred!Gets, Deferred!At
  <2>3. d \in Commands /\ (On(m_listPresentation, d) \/ On(m_listStream, d))
    BY <1>5, ListedIs DEF Deferred!Outstanding, Outlisted
  <2>4. /\ m_listPresentation \in Seq(Commands) /\ m_listStream \in Seq(Commands) /\ m_time \in [Commands -> Nat]
        /\ Sorted(m_listPresentation, m_time) /\ Sorted(m_listStream, m_time)
    BY <1>1 DEF ListsTyped, ListedInv
  <2>5. ASSUME NEW e \in Commands, On(m_listPresentation, e)
        PROVE  Deferred!PresentationTime(e, m_time) = m_time[e] /\ m_time[e] \in Nat
    BY <1>1, <2>4, <2>5 DEF ListedInv, Deferred!PresentationTime
  <2>6. ASSUME NEW e \in Commands, On(m_listStream, e)
        PROVE  Deferred!PresentationTime(e, m_time) = m_time[e] + Offset /\ m_time[e] \in Nat
    BY <1>1, <2>4, <2>6 DEF ListedInv, Deferred!PresentationTime
  <2>7. m_listPresentation # <<>> =>
           /\ Head(m_listPresentation) = m_listPresentation[1] /\ Head(m_listPresentation) \in Commands
           /\ On(m_listPresentation, Head(m_listPresentation))
    BY <2>4 DEF On
  <2>8. m_listStream # <<>> =>
           /\ Head(m_listStream) = m_listStream[1] /\ Head(m_listStream) \in Commands
           /\ On(m_listStream, Head(m_listStream))
    BY <2>4 DEF On
  <2>9. On(m_listPresentation, d) => m_listPresentation # <<>> /\ m_time[Head(m_listPresentation)] <= m_time[d]
    BY <2>4, HeadFirst
  <2>10. On(m_listStream, d) => m_bRunning /\ m_listStream # <<>> /\ m_time[Head(m_listStream)] <= m_time[d]
    <3>1. On(m_listStream, d) => m_listStream # <<>> /\ m_time[Head(m_listStream)] <= m_time[d]
      BY <2>4, HeadFirst
    <3>2. On(m_listStream, d) => m_bRunning
      BY <1>1, <1>5, <2>3 DEF ListedInv, Deferred!Due, Deferred!CheckTime
    <3> QED BY <3>1, <3>2
  <2>11. CASE /\ m_bRunning /\ m_listStream # <<>>
              /\ (m_listPresentation = <<>>
                  \/ Deferred!PresentationTime(Head(m_listStream), m_time) < m_time[Head(m_listPresentation)])
    <3>1. c = Head(m_listStream)
      BY <2>2, <2>11 DEF Deferred!Candidate
    <3>2. Deferred!PresentationTime(c, m_time) = m_time[c] + Offset /\ m_time[c] \in Nat
      BY <2>6, <2>8, <2>11, <3>1
    <3>3. CASE On(m_listStream, d)
      BY <1>1, <2>2, <2>3, <2>6, <2>10, <3>1, <3>2, <3>3
    <3>4. CASE On(m_listPresentation, d)
      BY <1>1, <2>2, <2>3, <2>4, <2>5, <2>7, <2>9, <2>11, <3>1, <3>2, <3>4
    <3> QED BY <2>3, <3>3, <3>4
  <2>12. CASE ~(/\ m_bRunning /\ m_listStream # <<>>
                /\ (m_listPresentation = <<>>
                  \/ Deferred!PresentationTime(Head(m_listStream), m_time) < m_time[Head(m_listPresentation)]))
    <3>1. m_listPresentation # <<>> /\ c = Head(m_listPresentation)
      BY <2>2, <2>4, <2>7, <2>12 DEF Deferred!Candidate
    <3>2. Deferred!PresentationTime(c, m_time) = m_time[c] /\ m_time[c] \in Nat
      BY <2>5, <2>7, <3>1
    <3>3. CASE On(m_listPresentation, d)
      BY <1>1, <2>2, <2>3, <2>5, <2>9, <3>1, <3>2, <3>3
    <3>4. CASE On(m_listStream, d)
      <4>1. ~(Deferred!PresentationTime(Head(m_listStream), m_time) < m_time[Head(m_listPresentation)])
        BY <2>10, <2>12, <3>1, <3>4
      <4>2. Deferred!PresentationTime(Head(m_listStream), m_time) = m_time[Head(m_listStream)] + Offset
            /\ m_time[Head(m_listStream)] \in Nat
        BY <2>6, <2>8, <2>10, <3>4
      <4>3. Deferred!PresentationTime(d, m_time) = m_time[d] + Offset /\ m_time[d] \in Nat
        BY <2>3, <2>6, <3>4
      <4> QED BY <1>1, <2>2, <2>10, <3>1, <3>2, <3>4, <4>1, <4>2, <4>3
    <3> QED BY <2>3, <3>3, <3>4
  <2> QED BY <2>11, <2>12
<1> QED BY <1>2, <1>4, <1>5 DEF Deferred!TakesInOrder

-----------------------------------------------------------------------------
(* The output queue: its things, and sequences of them.                    *)

Things == [kind : {"sample", "eos", "send", "segment", "packet", "reset", "none"}, n : Nat, flushes : Nat]

In(s) == {s[i] : i \in DOMAIN s}

\* What is numbered by the order in which it was queued; the packet has its
\* segment's number.
Real(x) == x.kind \notin {"packet", "reset", "none"}

\* x may be before y: the numbers rise, and there is one reset at most.
Precedes(x, y) ==
    /\ Real(x) /\ Real(y) => x.n < y.n
    /\ ~(x.kind = "reset" /\ y.kind = "reset")

Rising(s) == \A i, j \in DOMAIN s : i < j => Precedes(s[i], s[j])

Below(X, Y) == \A x \in X, y \in Y : Precedes(x, y)

\* Behind each segment is the packet with its parameters.
Paired(s) ==
    \A i \in DOMAIN s : s[i].kind = "segment" => i + 1 \in DOMAIN s /\ s[i + 1].kind = "packet"

SampleNumbers(X) == {x.n : x \in {y \in X : y.kind = "sample"}}

LEMMA NumbersAre == \A s : Samples!Numbers(s) = SampleNumbers(In(s))
BY DEF Samples!Numbers, SampleNumbers, In

LEMMA NumbersUnion == \A X, Y : SampleNumbers(X \cup Y) = SampleNumbers(X) \cup SampleNumbers(Y)
BY DEF SampleNumbers

LEMMA NothingIn ==
    /\ <<>> \in Seq(Things) /\ In(<<>>) = {} /\ Rising(<<>>) /\ Paired(<<>>)
    /\ SampleNumbers({}) = {} /\ \A X : Below({}, X) /\ Below(X, {})
<1>1. <<>> \in Seq(Things) /\ DOMAIN <<>> = {}
  OBVIOUS
<1> QED BY <1>1 DEF In, Rising, Paired, SampleNumbers, Below

LEMMA InThings == \A s \in Seq(Things) : In(s) \subseteq Things
BY DEF In

LEMMA OneIn ==
    ASSUME NEW x \in Things
    PROVE  <<x>> \in Seq(Things) /\ Len(<<x>>) = 1 /\ In(<<x>>) = {x} /\ Rising(<<x>>)
           /\ (x.kind # "segment" => Paired(<<x>>))
<1>1. <<x>> \in Seq(Things) /\ DOMAIN <<x>> = {1} /\ <<x>>[1] = x /\ Len(<<x>>) = 1
  OBVIOUS
<1> QED BY <1>1 DEF In, Rising, Paired

LEMMA JoinedIn ==
    ASSUME NEW s \in Seq(Things), NEW t \in Seq(Things)
    PROVE  /\ s \o t \in Seq(Things) /\ Len(s \o t) = Len(s) + Len(t)
           /\ In(s \o t) = In(s) \cup In(t)
           /\ Rising(s) /\ Rising(t) /\ Below(In(s), In(t)) => Rising(s \o t)
           /\ Paired(s) /\ Paired(t) => Paired(s \o t)
<1>1. /\ s \o t \in Seq(Things)
      /\ Len(s \o t) = Len(s) + Len(t)
      /\ DOMAIN (s \o t) = 1..Len(s) + Len(t)
      /\ \A i \in DOMAIN s : (s \o t)[i] = s[i]
      /\ \A i \in DOMAIN t : (s \o t)[Len(s) + i] = t[i]
  BY Concatenated
<1>2. PICK r : r = s \o t
  OBVIOUS
<1>3. Len(s) \in Nat /\ Len(t) \in Nat /\ DOMAIN s = 1..Len(s) /\ DOMAIN t = 1..Len(t)
  OBVIOUS
<1>4. \A i \in DOMAIN r :
         \/ i \in DOMAIN s /\ r[i] = s[i]
         \/ i > Len(s) /\ i - Len(s) \in DOMAIN t /\ r[i] = t[i - Len(s)]
  <2> SUFFICES ASSUME NEW i \in DOMAIN r, i \notin DOMAIN s
               PROVE  i > Len(s) /\ i - Len(s) \in DOMAIN t /\ r[i] = t[i - Len(s)]
    BY <1>1, <1>2
  <2>1. i > Len(s) /\ i - Len(s) \in DOMAIN t /\ Len(s) + (i - Len(s)) = i
    BY <1>1, <1>2, <1>3
  <2> QED BY <1>1, <1>2, <2>1
<1>5. ASSUME NEW i \in DOMAIN t PROVE Len(s) + i \in DOMAIN r /\ r[Len(s) + i] = t[i]
  BY <1>1, <1>2, <1>3
<1>6. ASSUME NEW i \in DOMAIN s PROVE i \in DOMAIN r /\ r[i] = s[i]
  BY <1>1, <1>2, <1>3
<1>7. In(r) = In(s) \cup In(t)
  <2>1. In(r) \subseteq In(s) \cup In(t)
    BY <1>4 DEF In
  <2>2. In(s) \subseteq In(r)
    BY <1>6 DEF In
  <2>3. In(t) \subseteq In(r)
    BY <1>5 DEF In
  <2> QED BY <2>1, <2>2, <2>3
<1>8. ASSUME Rising(s), Rising(t), Below(In(s), In(t)) PROVE Rising(r)
  <2> SUFFICES ASSUME NEW i \in DOMAIN r, NEW j \in DOMAIN r, i < j PROVE Precedes(r[i], r[j])
    BY DEF Rising
  <2>1. CASE i \in DOMAIN s /\ r[i] = s[i] /\ j \in DOMAIN s /\ r[j] = s[j]
    BY <1>8, <2>1 DEF Rising
  <2>2. CASE i \in DOMAIN s /\ r[i] = s[i] /\ j - Len(s) \in DOMAIN t /\ r[j] = t[j - Len(s)]
    BY <1>8, <2>2 DEF Below, In
  <2>3. CASE i > Len(s) /\ i - Len(s) \in DOMAIN t /\ r[i] = t[i - Len(s)]
    <3>1. j > Len(s) /\ j - Len(s) \in DOMAIN t /\ r[j] = t[j - Len(s)] /\ i - Len(s) < j - Len(s)
      BY <1>1, <1>2, <1>3, <1>4, <2>3
    <3> QED BY <1>8, <2>3, <3>1 DEF Rising
  <2> QED BY <1>4, <2>1, <2>2, <2>3
<1>9. ASSUME Paired(s), Paired(t) PROVE Paired(r)
  <2> SUFFICES ASSUME NEW i \in DOMAIN r, r[i].kind = "segment"
               PROVE  i + 1 \in DOMAIN r /\ r[i + 1].kind = "packet"
    BY DEF Paired
  <2>1. CASE i \in DOMAIN s /\ r[i] = s[i]
    <3>1. i + 1 \in DOMAIN s /\ s[i + 1].kind = "packet"
      BY <1>9, <2>1 DEF Paired
    <3> QED BY <1>6, <3>1
  <2>2. CASE i > Len(s) /\ i - Len(s) \in DOMAIN t /\ r[i] = t[i - Len(s)]
    <3>1. (i - Len(s)) + 1 \in DOMAIN t /\ t[(i - Len(s)) + 1].kind = "packet"
      BY <1>9, <2>2 DEF Paired
    <3>2. Len(s) + ((i - Len(s)) + 1) \in DOMAIN r /\ r[Len(s) + ((i - Len(s)) + 1)] = t[(i - Len(s)) + 1]
      BY <1>5, <3>1
    <3>3. Len(s) + ((i - Len(s)) + 1) = i + 1
      BY <1>1, <1>2, <1>3
    <3> QED BY <3>1, <3>2, <3>3
  <2> QED BY <1>4, <2>1, <2>2
<1> QED BY <1>1, <1>2, <1>7, <1>8, <1>9

LEMMA AppendedIn ==
    ASSUME NEW s \in Seq(Things), NEW x \in Things
    PROVE  /\ Append(s, x) \in Seq(Things) /\ Len(Append(s, x)) = Len(s) + 1
           /\ In(Append(s, x)) = In(s) \cup {x}
           /\ Rising(s) /\ Below(In(s), {x}) => Rising(Append(s, x))
<1>1. PICK t : t = <<x>>
  OBVIOUS
<1>2. t \in Seq(Things) /\ Len(t) = 1 /\ In(t) = {x} /\ Rising(t)
  BY <1>1, OneIn
<1>3. Append(s, x) = s \o t
  BY <1>1
<1>4. /\ s \o t \in Seq(Things) /\ Len(s \o t) = Len(s) + Len(t)
      /\ In(s \o t) = In(s) \cup In(t)
      /\ Rising(s) /\ Rising(t) /\ Below(In(s), In(t)) => Rising(s \o t)
  BY <1>2, JoinedIn
<1> QED BY <1>2, <1>3, <1>4

LEMMA FirstOf ==
    ASSUME NEW s \in Seq(Things), s # <<>>
    PROVE  /\ Head(s) \in Things /\ Tail(s) \in Seq(Things) /\ Len(Tail(s)) + 1 = Len(s)
           /\ In(s) = {Head(s)} \cup In(Tail(s))
           /\ Rising(s) => Rising(Tail(s)) /\ Below({Head(s)}, In(Tail(s)))
           /\ Paired(s) => /\ Paired(Tail(s))
                           /\ Head(s).kind = "segment" => Tail(s) # <<>> /\ Head(Tail(s)).kind = "packet"
<1>1. /\ Len(s) \in Nat /\ DOMAIN s = 1..Len(s) /\ 1 \in DOMAIN s /\ Head(s) = s[1] /\ s[1] \in Things
      /\ Tail(s) \in Seq(Things) /\ Len(Tail(s)) = Len(s) - 1
      /\ \A i \in 1..Len(s) - 1 : Tail(s)[i] = s[i + 1]
  BY HeadTailProperties
<1>2. PICK r : r = Tail(s)
  OBVIOUS
<1>3. DOMAIN r = 1..Len(s) - 1 /\ \A i \in DOMAIN r : i + 1 \in DOMAIN s /\ i < i + 1 /\ 1 < i + 1 /\ r[i] = s[i + 1]
  BY <1>1, <1>2
<1>4. ASSUME NEW i \in DOMAIN s, i # 1 PROVE i - 1 \in DOMAIN r /\ r[i - 1] = s[i]
  <2>1. i - 1 \in DOMAIN r /\ (i - 1) + 1 = i
    BY <1>1, <1>3, <1>4
  <2> QED BY <1>3, <2>1
<1>5. In(s) = {s[1]} \cup In(r)
  <2>1. In(s) \subseteq {s[1]} \cup In(r)
    BY <1>4 DEF In
  <2>2. {s[1]} \cup In(r) \subseteq In(s)
    BY <1>1, <1>3 DEF In
  <2> QED BY <2>1, <2>2
<1>6. ASSUME Rising(s) PROVE Rising(r) /\ Below({s[1]}, In(r))
  <2>1. Rising(r)
    <3> SUFFICES ASSUME NEW i \in DOMAIN r, NEW j \in DOMAIN r, i < j PROVE Precedes(r[i], r[j])
      BY DEF Rising
    <3>1. i + 1 < j + 1
      BY <1>3
    <3> QED BY <1>3, <1>6, <3>1 DEF Rising
  <2>2. ASSUME NEW i \in DOMAIN r PROVE Precedes(s[1], r[i])
    BY <1>1, <1>3, <1>6 DEF Rising
  <2> QED BY <2>1, <2>2 DEF Below, In
<1>7. ASSUME Paired(s) PROVE Paired(r) /\ (s[1].kind = "segment" => r # <<>> /\ Head(r).kind = "packet")
  <2>1. Paired(r)
    <3> SUFFICES ASSUME NEW i \in DOMAIN r, r[i].kind = "segment" PROVE i + 1 \in DOMAIN r /\ r[i + 1].kind = "packet"
      BY DEF Paired
    <3>1. (i + 1) + 1 \in DOMAIN s /\ s[(i + 1) + 1].kind = "packet"
      BY <1>3, <1>7 DEF Paired
    <3>2. i + 1 \in DOMAIN r
      BY <1>1, <1>3, <3>1
    <3> QED BY <1>3, <3>1, <3>2
  <2>2. ASSUME s[1].kind = "segment" PROVE r # <<>> /\ Head(r).kind = "packet"
    <3>1. 1 + 1 \in DOMAIN s /\ s[1 + 1].kind = "packet"
      BY <1>1, <1>7, <2>2 DEF Paired
    <3>2. 1 \in DOMAIN r
      BY <1>1, <1>3, <3>1
    <3>3. r[1].kind = "packet"
      BY <1>3, <3>1, <3>2
    <3>4. r \in Seq(Things) /\ r # <<>>
      <4>1. DOMAIN <<>> = {} /\ r \in Seq(Things)
        BY <1>1, <1>2
      <4> QED BY <3>2, <4>1
    <3>5. Head(r) = r[1]
      BY <3>4, HeadTailProperties
    <3> QED BY <3>3, <3>4, <3>5
  <2> QED BY <2>1, <2>2
<1> QED BY <1>1, <1>2, <1>5, <1>6, <1>7

\* The samples of a call: as many as there are numbers.
LEMMA CallOf ==
    ASSUME NEW from \in Nat, NEW k \in Nat, NEW s, s = Samples!Samples(from, k), flushes \in Nat
    PROVE  /\ s \in Seq(Things) /\ Len(s) = k /\ Rising(s) /\ Paired(s)
           /\ \A x \in In(s) : x.kind = "sample" /\ x.n \in from + 1..from + k /\ x.flushes = flushes
           /\ SampleNumbers(In(s)) = from + 1..from + k
<1>1. s = [i \in 1..k |-> [kind |-> "sample", n |-> from + i, flushes |-> flushes]]
  BY DEF Samples!Samples, Samples!Item
<1>2. DOMAIN s = 1..k /\ \A i \in 1..k : s[i] = [kind |-> "sample", n |-> from + i, flushes |-> flushes]
  BY <1>1
<1>3. \A i \in 1..k : s[i] \in Things /\ s[i].kind = "sample" /\ s[i].n = from + i /\ s[i].flushes = flushes
                      /\ s[i].n \in from + 1..from + k
  BY <1>2 DEF Things
<1>4. s \in Seq(Things) /\ Len(s) = k
  <2>1. s \in [1..k -> Things]
    BY <1>1, <1>3
  <2>2. s \in Seq(Things)
    BY <2>1, SeqDef
  <2> QED BY <1>2, <2>2
<1>5. Rising(s)
  BY <1>2, <1>3 DEF Rising, Precedes
<1>6. Paired(s)
  BY <1>2, <1>3 DEF Paired
<1>7. SampleNumbers(In(s)) = from + 1..from + k
  <2>1. SampleNumbers(In(s)) \subseteq from + 1..from + k
    BY <1>2, <1>3 DEF SampleNumbers, In
  <2>2. ASSUME NEW m \in from + 1..from + k PROVE m \in SampleNumbers(In(s))
    <3>1. m - from \in 1..k /\ from + (m - from) = m
      OBVIOUS
    <3>2. s[m - from].n = m /\ s[m - from].kind = "sample"
      BY <1>3, <3>1
    <3> QED BY <1>2, <3>1, <3>2 DEF SampleNumbers, In
  <2> QED BY <2>1, <2>2
<1> QED BY <1>2, <1>3, <1>4, <1>5, <1>6, <1>7 DEF In
-----------------------------------------------------------------------------
(* The invariant of the output queue.                                      *)

\* What the worker has taken and not yet acted on.
Hand == IF pSample.kind \in {"eos", "segment", "send", "reset"} THEN {pSample} ELSE {}

OutTyped ==
    /\ cfg \in Samples!Configurations
    /\ m_List \in Seq(Things) /\ m_ppSamples \in Seq(Things) /\ sending \in Seq(Things)
    /\ pSample \in Things /\ sent \in Seq(Things)
    /\ m_hr \in {"S_OK", "S_FALSE"}
    /\ m_bFlushing \in BOOLEAN /\ m_bFlushed \in BOOLEAN /\ m_evFlushComplete \in BOOLEAN
    /\ locked \in BOOLEAN /\ m_bTerminate \in BOOLEAN
    /\ m_lWaiting \in Nat /\ m_hSem \in Nat
    /\ wpc \in {"top", "wait", "send", "receiving", "special", "resetdone", "gone"}
    /\ upc \in {"idle", "segment"}
    /\ cpc \in {"idle", "flushed", "endwait", "endclear", "endpass", "endhr", "resetwait", "joining", "gone"}
    /\ items \in Nat /\ flushes \in Nat

KindsInv ==
    /\ \A x \in In(m_List) : x.kind # "none"
    /\ \A x \in In(m_ppSamples) : x.kind = "sample"
    /\ \A x \in In(sending) : x.kind = "sample"
    /\ pSample.kind # "packet"
    /\ Paired(m_List)

\* The worker's batch, what it took, the batch under way and the list, in that
\* order: things rise through all of them.
OrderInv ==
    /\ Rising(m_List) /\ Rising(m_ppSamples) /\ Rising(sending)
    /\ Below(In(sending), Hand) /\ Below(In(sending), In(m_ppSamples)) /\ Below(In(sending), In(m_List))
    /\ Below(Hand, In(m_ppSamples)) /\ Below(Hand, In(m_List)) /\ Below(In(m_ppSamples), In(m_List))

\* Nothing is numbered higher than what was counted, and what a flush discards
\* is of the time since the last one.
Counted(X) ==
    \A x \in X : /\ Real(x) => x.n \in 1..items
                 /\ x.kind \in {"sample", "eos"} => x.flushes = flushes

NumbersInv == Counted(In(m_List)) /\ Counted(In(m_ppSamples)) /\ Counted(In(sending)) /\ Counted(Hand)

LastNumber == IF sent = <<>> THEN 0 ELSE sent[Len(sent)].n

After(X) == \A x \in X : Real(x) => LastNumber < x.n

LastInv ==
    /\ LastNumber \in 0..items
    /\ After(Hand) /\ After(In(m_List))
    /\ wpc # "receiving" => After(In(sending))
    /\ wpc = "receiving" => sending # <<>> /\ sent = sending
    /\ cfg.queued \/ m_hr = "S_OK" => After(In(m_ppSamples))
    /\ ~cfg.queued /\ m_hr = "S_FALSE" => m_ppSamples = <<>> \/ cpc \in {"flushed", "endwait"}

AccountInv ==
    live = SampleNumbers(In(m_List)) \cup SampleNumbers(In(m_ppSamples)) \cup SampleNumbers(In(sending))

DirectInv ==
    ~cfg.queued =>
        /\ m_List = <<>> /\ sending = <<>> /\ pSample.kind = "none" /\ wpc = "gone"
        /\ m_lWaiting = 0 /\ m_hSem = 0 /\ ~m_evFlushComplete

PlacesInv ==
    /\ wpc \notin {"send", "receiving"} => sending = <<>>
    /\ wpc \notin {"send", "receiving", "special"} => pSample.kind = "none"
    /\ Len(m_ppSamples) < cfg.batch
    /\ locked => wpc = "top"
    /\ wpc = "gone" /\ cfg.queued => m_bTerminate
    /\ m_bTerminate <=> cpc \in {"joining", "gone"}
    /\ cpc = "gone" => wpc = "gone"
    /\ m_bTerminate /\ wpc = "gone" => m_List = <<>> /\ m_ppSamples = <<>>

CallsInv ==
    /\ cpc \in {"flushed", "endwait", "endclear"} => m_bFlushing
    /\ m_bFlushing => cpc \in {"flushed", "endwait", "endclear", "joining", "gone"}
    /\ cpc \in {"flushed", "endwait", "endclear", "endpass", "endhr"} => m_hr = "S_FALSE"
    /\ cpc \in {"endwait", "endclear", "endpass", "endhr", "joining", "gone"} => upc = "idle"
    /\ cfg.resets /\ cpc = "flushed" => upc = "idle"
    /\ cfg.queued /\ m_bTerminate => m_hr = "S_FALSE"

\* A worker that waits with no wake-up on the way.
Asleep == wpc = "wait" /\ m_hSem = 0

WaitingInv ==
    /\ m_lWaiting + m_hSem = IF wpc = "wait" THEN 1 ELSE 0
    /\ Asleep =>
          /\ ~m_bTerminate
          /\ \A x \in In(m_List) : x.kind = "sample"
          /\ Len(m_ppSamples) + Len(m_List) < IF cfg.exact THEN cfg.batch ELSE 1
          /\ cpc = "endwait" => m_evFlushComplete
          /\ cpc = "flushed" => m_evFlushComplete \/ (cfg.opt /\ m_bFlushed)

\* Nothing is left that a flush would discard.
Clean ==
    /\ \A x \in In(m_List) : x.kind \notin {"sample", "eos"}
    /\ m_ppSamples = <<>> /\ sending = <<>> /\ pSample.kind # "eos"

CleanInv ==
    /\ m_bFlushed => Clean
    /\ cpc \in {"flushed", "endwait"} /\ m_evFlushComplete => Clean
    /\ cpc \in {"endclear", "endpass", "endhr"} => Clean

\* A reset is on the list, or the worker has it.
ResetListed == \E x \in In(m_List) : x.kind = "reset"

ResetTaken == pSample.kind = "reset" \/ wpc = "resetdone"

ResetsInv ==
    /\ wpc = "resetdone" => ~ResetListed
    /\ ResetTaken \/ ResetListed => cpc = "resetwait" /\ ~m_evFlushComplete
    /\ cfg.resets => (m_evFlushComplete => cpc \in {"flushed", "endwait", "resetwait", "joining", "gone"})
    /\ cfg.resets /\ cfg.queued /\ ((m_evFlushComplete /\ cpc \in {"flushed", "endwait"}) \/ cpc = "endclear")
           => Asleep
    /\ cpc = "resetwait" => cfg.resets

OutInv ==
    /\ OutTyped /\ KindsInv /\ OrderInv /\ NumbersInv /\ LastInv /\ AccountInv
    /\ DirectInv /\ PlacesInv /\ CallsInv /\ WaitingInv /\ CleanInv /\ ResetsInv


LEMMA InitOut == QueuesInit => OutInv
<1> SUFFICES ASSUME QueuesInit PROVE OutInv
  OBVIOUS
<1>1. /\ cfg \in Samples!Configurations
      /\ m_List = <<>> /\ m_ppSamples = <<>> /\ m_hr = "S_OK"
      /\ m_bFlushing = FALSE /\ m_bFlushed = TRUE
      /\ m_lWaiting = 0 /\ m_hSem = 0 /\ m_evFlushComplete = FALSE /\ locked = FALSE
      /\ wpc = (IF cfg.queued THEN "top" ELSE "gone") /\ sending = <<>>
      /\ pSample = [kind |-> "none", n |-> 0, flushes |-> 0]
      /\ upc = "idle" /\ cpc = "idle" /\ m_bTerminate = FALSE
      /\ items = 0 /\ flushes = 0 /\ live = {} /\ sent = <<>>
  BY DEF QueuesInit, Samples!Init, Samples!Ok, Samples!NoItem
<1>2. cfg.queued \in BOOLEAN /\ cfg.exact \in BOOLEAN /\ cfg.batch \in 1..2
  BY <1>1 DEF Samples!Configurations
<1>3. OutTyped
  BY <1>1, <1>2, NothingIn DEF OutTyped, Things
<1>4. In(m_List) = {} /\ In(m_ppSamples) = {} /\ In(sending) = {} /\ Hand = {}
  BY <1>1, NothingIn DEF Hand
<1>5. KindsInv /\ OrderInv
  BY <1>1, <1>4, NothingIn DEF KindsInv, OrderInv
<1>6. NumbersInv /\ LastInv
  BY <1>1, <1>4 DEF NumbersInv, Counted, LastInv, LastNumber, After
<1>7. AccountInv
  BY <1>1, <1>4, NothingIn DEF AccountInv
<1>8. DirectInv /\ PlacesInv /\ CallsInv
  BY <1>1, <1>2, NothingIn DEF DirectInv, PlacesInv, CallsInv
<1>9. WaitingInv /\ CleanInv /\ ResetsInv
  BY <1>1, <1>4 DEF WaitingInv, Asleep, CleanInv, Clean, ResetsInv, ResetListed, ResetTaken
<1> QED BY <1>3, <1>5, <1>6, <1>7, <1>8, <1>9 DEF OutInv

OutVars ==
    << cfg, m_List, m_ppSamples, m_hr, m_bFlushing, m_bFlushed, m_lWaiting, m_hSem,
       m_evFlushComplete, locked, wpc, sending, pSample, upc, cpc, m_bTerminate,
       items, live, sent, flushes >>

LEMMA OutSame == OutInv /\ UNCHANGED OutVars => OutInv'
<1> SUFFICES ASSUME OutInv, UNCHANGED OutVars PROVE OutInv'
  OBVIOUS
<1> USE DEF OutVars
<1>1. OutTyped' /\ KindsInv' /\ AccountInv' /\ DirectInv' /\ PlacesInv' /\ CallsInv'
  BY DEF OutInv, OutTyped, KindsInv, AccountInv, DirectInv, PlacesInv, CallsInv
<1>2. OrderInv' /\ NumbersInv'
  BY DEF OutInv, OrderInv, NumbersInv, Counted, Hand
<1>3. LastInv'
  BY DEF OutInv, LastInv, LastNumber, After, Hand
<1>4. WaitingInv' /\ CleanInv' /\ ResetsInv'
  BY DEF OutInv, WaitingInv, Asleep, CleanInv, Clean, ResetsInv, ResetListed, ResetTaken
<1> QED BY <1>1, <1>2, <1>3, <1>4 DEF OutInv

\* What is queued, taken and sent stays in order when nothing of it changes.
ItemsInv == KindsInv /\ OrderInv /\ NumbersInv /\ LastInv /\ AccountInv

LEMMA ItemsKept ==
    ASSUME OutInv, UNCHANGED << cfg, m_List, m_ppSamples, sending, pSample, items, live, sent >>,
           flushes' = flushes \/ Clean,
           (wpc' = "receiving") <=> (wpc = "receiving"),
           cfg.queued \/ m_hr' = "S_OK" => After(In(m_ppSamples)),
           ~cfg.queued /\ m_hr' = "S_FALSE" => m_ppSamples = <<>> \/ cpc' \in {"flushed", "endwait"}
    PROVE  ItemsInv'
<1>1. KindsInv' /\ AccountInv'
  BY DEF OutInv, KindsInv, AccountInv
<1>2. OrderInv'
  BY DEF OutInv, OrderInv, Hand
<1>3. NumbersInv'
  <2>1. CASE flushes' = flushes
    BY <2>1 DEF OutInv, NumbersInv, Counted, Hand
  <2>2. CASE Clean
    <3>1. In(m_ppSamples) = {} /\ In(sending) = {}
      BY <2>2, NothingIn DEF Clean
    <3> QED BY <2>2, <3>1 DEF OutInv, NumbersInv, Counted, Hand, Clean
  <2> QED BY <2>1, <2>2
<1>4. LastInv'
  BY DEF OutInv, LastInv, LastNumber, After, Hand
<1> QED BY <1>1, <1>2, <1>3, <1>4 DEF ItemsInv

LEMMA Notifying ==
    ASSUME OutInv, Samples!NotifyThread, wpc' = wpc
    PROVE  /\ m_lWaiting' \in Nat /\ m_hSem' \in Nat
           /\ m_lWaiting' + m_hSem' = (IF wpc' = "wait" THEN 1 ELSE 0)
           /\ ~Asleep'
<1>1. m_lWaiting \in Nat /\ m_hSem \in Nat /\ m_lWaiting + m_hSem = IF wpc = "wait" THEN 1 ELSE 0
  BY DEF OutInv, OutTyped, WaitingInv
<1>2. \A x, y \in Nat : 0 \in Nat /\ y + x \in Nat /\ 0 + (y + x) = x + y /\ (x + y = 1 => y + x # 0)
  OBVIOUS
<1>3. m_hSem' = m_hSem + m_lWaiting /\ m_lWaiting' = 0
  BY DEF Samples!NotifyThread
<1>4. m_lWaiting' \in Nat /\ m_hSem' \in Nat /\ m_lWaiting' + m_hSem' = m_lWaiting + m_hSem
      /\ (m_lWaiting + m_hSem = 1 => m_hSem' # 0)
  BY <1>1, <1>2, <1>3
<1> QED BY <1>1, <1>4 DEF Asleep

LEMMA WakeKeeps == ASSUME OutInv, Samples!Wake PROVE OutInv'
<1> USE DEF Samples!Wake, Samples!queue, Samples!flush, Samples!ctl
<1>1. ItemsInv'
  <2>1. cfg.queued \/ m_hr' = "S_OK" => After(In(m_ppSamples))
    BY DEF OutInv, LastInv
  <2>2. ~cfg.queued /\ m_hr' = "S_FALSE" => m_ppSamples = <<>> \/ cpc' \in {"flushed", "endwait"}
    BY DEF OutInv, LastInv
  <2> QED BY <2>1, <2>2, ItemsKept
<1>2. OutTyped'
  BY DEF OutInv, OutTyped
<1>3. DirectInv' /\ PlacesInv' /\ CallsInv'
  BY DEF OutInv, OutTyped, DirectInv, PlacesInv, CallsInv, WaitingInv
<1>4. WaitingInv' /\ CleanInv'
  BY DEF OutInv, OutTyped, WaitingInv, Asleep, CleanInv, Clean
<1>5. ResetsInv'
  BY DEF OutInv, OutTyped, WaitingInv, Asleep, ResetsInv, ResetListed, ResetTaken
<1> QED BY <1>1, <1>2, <1>3, <1>4, <1>5 DEF OutInv, ItemsInv

LEMMA ResetDoneKeeps == ASSUME OutInv, Samples!ResetDone PROVE OutInv'
<1> USE DEF Samples!ResetDone, Samples!queue, Samples!worker, Samples!flush, Samples!ctl, Samples!wake,
        Samples!Ok, Samples!Bad
<1>1. ItemsInv'
  <2>1. cfg.queued \/ m_hr' = "S_OK" => After(In(m_ppSamples))
    BY DEF OutInv, LastInv
  <2>2. ~cfg.queued /\ m_hr' = "S_FALSE" => m_ppSamples = <<>> \/ cpc' \in {"flushed", "endwait"}
    BY DEF OutInv, LastInv
  <2> QED BY <2>1, <2>2, ItemsKept
<1>2. OutTyped'
  BY DEF OutInv, OutTyped
<1>3. DirectInv' /\ PlacesInv' /\ CallsInv'
  BY DEF OutInv, OutTyped, DirectInv, PlacesInv, CallsInv, WaitingInv
<1>4. WaitingInv' /\ CleanInv'
  BY DEF OutInv, OutTyped, WaitingInv, Asleep, CleanInv, Clean, ResetsInv, ResetTaken
<1>5. ResetsInv'
  BY DEF OutInv, OutTyped, WaitingInv, Asleep, ResetsInv, ResetListed, ResetTaken, PlacesInv
<1> QED BY <1>1, <1>2, <1>3, <1>4, <1>5 DEF OutInv, ItemsInv

LEMMA NewSegmentKeeps == ASSUME OutInv, Samples!NewSegment PROVE OutInv'
<1> USE DEF Samples!NewSegment, Samples!queue, Samples!worker, Samples!flush, Samples!ctl, Samples!wake,
        Samples!Ok, Samples!Bad, Samples!MayCall
<1>1. ItemsInv'
  <2>1. cfg.queued \/ m_hr' = "S_OK" => After(In(m_ppSamples))
    BY DEF OutInv, LastInv
  <2>2. ~cfg.queued /\ m_hr' = "S_FALSE" => m_ppSamples = <<>> \/ cpc' \in {"flushed", "endwait"}
    BY DEF OutInv, LastInv
  <2> QED BY <2>1, <2>2, ItemsKept
<1>2. OutTyped'
  BY DEF OutInv, OutTyped
<1>3. DirectInv' /\ PlacesInv' /\ CallsInv'
  BY DEF OutInv, OutTyped, DirectInv, PlacesInv, CallsInv, WaitingInv
<1>4. WaitingInv' /\ CleanInv'
  BY DEF OutInv, OutTyped, WaitingInv, Asleep, CleanInv, Clean
<1>5. ResetsInv'
  BY DEF OutInv, OutTyped, WaitingInv, Asleep, ResetsInv, ResetListed, ResetTaken
<1> QED BY <1>1, <1>2, <1>3, <1>4, <1>5 DEF OutInv, ItemsInv

LEMMA BeginFlushKeeps == ASSUME OutInv, Samples!BeginFlush PROVE OutInv'
<1> USE DEF Samples!BeginFlush, Samples!queue, Samples!worker, Samples!flush, Samples!ctl, Samples!wake,
        Samples!Ok, Samples!Bad
<1>1. ItemsInv'
  <2>1. cfg.queued \/ m_hr' = "S_OK" => After(In(m_ppSamples))
    BY DEF OutInv, LastInv
  <2>2. ~cfg.queued /\ m_hr' = "S_FALSE" => m_ppSamples = <<>> \/ cpc' \in {"flushed", "endwait"}
    BY DEF OutInv, LastInv
  <2> QED BY <2>1, <2>2, ItemsKept
<1>2. /\ wpc' = wpc
      /\ \/ cfg.queued /\ ~m_evFlushComplete' /\ Samples!NotifyThread
         \/ ((cfg.opt /\ m_bFlushed) \/ ~cfg.queued) /\ UNCHANGED << m_evFlushComplete, m_lWaiting, m_hSem >>
  <2>1. CASE cfg.queued /\ ~(m_bFlushed /\ cfg.opt)
    BY <2>1
  <2>2. CASE ~(cfg.queued /\ ~(m_bFlushed /\ cfg.opt))
    BY <2>2 DEF OutInv, OutTyped, Samples!Configurations
  <2> QED BY <2>1, <2>2
<1>3. cfg.queued \in BOOLEAN /\ cfg.opt \in BOOLEAN
  BY DEF OutInv, OutTyped, Samples!Configurations
<1>4. OutTyped'
  <2>1. m_lWaiting' \in Nat /\ m_hSem' \in Nat /\ m_evFlushComplete' \in BOOLEAN
    BY <1>2, Notifying DEF OutInv, OutTyped
  <2> QED BY <2>1 DEF OutInv, OutTyped
<1>5. DirectInv' /\ PlacesInv' /\ CallsInv'
  BY <1>2, <1>3 DEF OutInv, OutTyped, DirectInv, PlacesInv, CallsInv
<1>6. WaitingInv' /\ CleanInv'
  <2>1. CleanInv'
    BY <1>2, <1>3 DEF OutInv, CleanInv, DirectInv, Clean
  <2>2. CASE Samples!NotifyThread
    BY <1>2, <2>1, <2>2, Notifying DEF WaitingInv
  <2>3. CASE ((cfg.opt /\ m_bFlushed) \/ ~cfg.queued) /\ UNCHANGED << m_evFlushComplete, m_lWaiting, m_hSem >>
    <3>1. Asleep' <=> Asleep
      BY <2>3 DEF Asleep
    <3>2. ~cfg.queued => ~Asleep
      BY DEF OutInv, DirectInv, Asleep
    <3> QED BY <2>1, <2>3, <3>1, <3>2 DEF OutInv, WaitingInv
  <2> QED BY <1>2, <2>1, <2>2, <2>3
<1>7. ResetsInv'
  BY <1>2, <1>3 DEF OutInv, OutTyped, WaitingInv, Asleep, ResetsInv, ResetListed, ResetTaken
<1> QED BY <1>1, <1>4, <1>5, <1>6, <1>7 DEF OutInv, ItemsInv

LEMMA EndClearKeeps == ASSUME OutInv, Samples!EndClear PROVE OutInv'
<1> USE DEF Samples!EndClear, Samples!queue, Samples!worker, Samples!flush, Samples!ctl, Samples!wake,
        Samples!Ok, Samples!Bad
<1>1. ItemsInv'
  <2>1. cfg.queued \/ m_hr' = "S_OK" => After(In(m_ppSamples))
    BY DEF OutInv, LastInv
  <2>2. ~cfg.queued /\ m_hr' = "S_FALSE" => m_ppSamples = <<>> \/ cpc' \in {"flushed", "endwait"}
    BY DEF OutInv, LastInv
  <2> QED BY <2>1, <2>2, ItemsKept
<1>2. OutTyped'
  BY DEF OutInv, OutTyped
<1>3. DirectInv' /\ PlacesInv' /\ CallsInv'
  BY DEF OutInv, OutTyped, DirectInv, PlacesInv, CallsInv, WaitingInv
<1>4. WaitingInv' /\ CleanInv'
  BY DEF OutInv, OutTyped, WaitingInv, Asleep, CleanInv, Clean, ResetsInv, CallsInv
<1>5. ResetsInv'
  BY DEF OutInv, OutTyped, WaitingInv, Asleep, ResetsInv, ResetListed, ResetTaken
<1> QED BY <1>1, <1>2, <1>3, <1>4, <1>5 DEF OutInv, ItemsInv

LEMMA EndHrKeeps == ASSUME OutInv, Samples!EndHr PROVE OutInv'
<1> USE DEF Samples!EndHr, Samples!queue, Samples!worker, Samples!flush, Samples!ctl, Samples!wake,
        Samples!Ok, Samples!Bad
<1>1. ItemsInv'
  <2>1. cfg.queued \/ m_hr' = "S_OK" => After(In(m_ppSamples))
    BY NothingIn DEF OutInv, LastInv, CleanInv, Clean, After
  <2>2. ~cfg.queued /\ m_hr' = "S_FALSE" => m_ppSamples = <<>> \/ cpc' \in {"flushed", "endwait"}
    BY NothingIn DEF OutInv, LastInv, CleanInv, Clean, After
  <2> QED BY <2>1, <2>2, ItemsKept
<1>2. OutTyped'
  BY DEF OutInv, OutTyped
<1>3. DirectInv' /\ PlacesInv' /\ CallsInv'
  BY DEF OutInv, OutTyped, DirectInv, PlacesInv, CallsInv, WaitingInv
<1>4. WaitingInv' /\ CleanInv'
  BY DEF OutInv, OutTyped, WaitingInv, Asleep, CleanInv, Clean
<1>5. ResetsInv'
  BY DEF OutInv, OutTyped, WaitingInv, Asleep, ResetsInv, ResetListed, ResetTaken
<1> QED BY <1>1, <1>2, <1>3, <1>4, <1>5 DEF OutInv, ItemsInv

LEMMA ResetReturnsKeeps == ASSUME OutInv, Samples!ResetReturns PROVE OutInv'
<1> USE DEF Samples!ResetReturns, Samples!queue, Samples!worker, Samples!flush, Samples!ctl, Samples!wake,
        Samples!Ok, Samples!Bad
<1>1. ItemsInv'
  <2>1. cfg.queued \/ m_hr' = "S_OK" => After(In(m_ppSamples))
    BY DEF OutInv, LastInv
  <2>2. ~cfg.queued /\ m_hr' = "S_FALSE" => m_ppSamples = <<>> \/ cpc' \in {"flushed", "endwait"}
    BY DEF OutInv, LastInv
  <2> QED BY <2>1, <2>2, ItemsKept
<1>2. OutTyped'
  BY DEF OutInv, OutTyped
<1>3. DirectInv' /\ PlacesInv' /\ CallsInv'
  BY DEF OutInv, OutTyped, DirectInv, PlacesInv, CallsInv, WaitingInv
<1>4. WaitingInv' /\ CleanInv'
  BY DEF OutInv, OutTyped, WaitingInv, Asleep, CleanInv, Clean
<1>5. ResetsInv'
  BY DEF OutInv, OutTyped, WaitingInv, Asleep, ResetsInv, ResetListed, ResetTaken, CallsInv
<1> QED BY <1>1, <1>2, <1>3, <1>4, <1>5 DEF OutInv, ItemsInv

LEMMA JoinedKeeps == ASSUME OutInv, Samples!Joined PROVE OutInv'
<1> USE DEF Samples!Joined, Samples!queue, Samples!worker, Samples!flush, Samples!ctl, Samples!wake,
        Samples!Ok, Samples!Bad
<1>1. ItemsInv'
  <2>1. cfg.queued \/ m_hr' = "S_OK" => After(In(m_ppSamples))
    BY DEF OutInv, LastInv
  <2>2. ~cfg.queued /\ m_hr' = "S_FALSE" => m_ppSamples = <<>> \/ cpc' \in {"flushed", "endwait"}
    BY DEF OutInv, LastInv
  <2> QED BY <2>1, <2>2, ItemsKept
<1>2. OutTyped'
  BY DEF OutInv, OutTyped
<1>3. DirectInv' /\ PlacesInv' /\ CallsInv'
  BY DEF OutInv, OutTyped, DirectInv, PlacesInv, CallsInv, WaitingInv
<1>4. WaitingInv' /\ CleanInv'
  BY DEF OutInv, OutTyped, WaitingInv, Asleep, CleanInv, Clean
<1>5. ResetsInv'
  BY DEF OutInv, OutTyped, WaitingInv, Asleep, ResetsInv, ResetListed, ResetTaken
<1> QED BY <1>1, <1>2, <1>3, <1>4, <1>5 DEF OutInv, ItemsInv

\* A flush or the destructor releases what is on the list and in the batch.
LEMMA Freeing ==
    ASSUME OutInv, Samples!FreeSamples, sending = <<>>, (wpc' = "receiving") <=> (wpc = "receiving"),
           UNCHANGED << cfg, sending, pSample, items, sent, flushes >>
    PROVE  ItemsInv' /\ m_List' = <<>> /\ m_ppSamples' = <<>>
<1>1. /\ m_List' = <<>> /\ m_ppSamples' = <<>>
      /\ live' = live \ (SampleNumbers(In(m_List)) \cup SampleNumbers(In(m_ppSamples)))
  BY NumbersAre DEF Samples!FreeSamples
<1>2. In(m_List)' = {} /\ In(m_ppSamples)' = {} /\ In(sending)' = {} /\ In(sending) = {} /\ Hand' = Hand
  BY <1>1, NothingIn DEF Hand
<1>3. KindsInv'
  BY <1>1, <1>2, NothingIn DEF OutInv, KindsInv
<1>4. OrderInv'
  BY <1>1, <1>2, NothingIn DEF OutInv, OrderInv
<1>5. NumbersInv'
  <2>1. Counted(Hand)'
    BY <1>2 DEF OutInv, NumbersInv, Counted
  <2> QED BY <1>2, <2>1 DEF NumbersInv, Counted
<1>6. LastInv'
  <2>1. LastNumber' = LastNumber /\ items' = items
    BY DEF LastNumber
  <2>2. After(Hand)'
    BY <1>2, <2>1 DEF OutInv, LastInv, After
  <2>3. wpc' # "receiving"
    BY DEF OutInv, LastInv
  <2> QED BY <1>1, <1>2, <2>1, <2>2, <2>3 DEF OutInv, LastInv, After
<1>7. AccountInv'
  BY <1>1, <1>2, NothingIn DEF OutInv, AccountInv
<1> QED BY <1>1, <1>3, <1>4, <1>5, <1>6, <1>7 DEF ItemsInv

LEMMA EndFlushKeeps == ASSUME OutInv, Samples!EndFlush PROVE OutInv'
<1> USE DEF Samples!EndFlush, Samples!queue, Samples!worker, Samples!flush, Samples!ctl, Samples!wake,
        Samples!Ok, Samples!Bad
<1>1. cfg.queued \in BOOLEAN /\ cfg.opt \in BOOLEAN /\ cfg.resets \in BOOLEAN /\ (cfg.resets => ~cfg.opt)
  BY DEF OutInv, OutTyped, Samples!Configurations
<1>2. \/ /\ cfg.queued /\ cfg.opt /\ m_bFlushed /\ cpc' = "idle"
         /\ m_bFlushing' = FALSE /\ m_hr' = "S_OK" /\ flushes' = flushes + 1
      \/ /\ ~(cfg.queued /\ cfg.opt /\ m_bFlushed) /\ cpc' = "endwait"
         /\ UNCHANGED << m_bFlushing, m_hr, flushes >>
  OBVIOUS
<1>3. ItemsInv'
  <2>1. flushes' = flushes \/ Clean
    BY <1>2 DEF OutInv, CleanInv
  <2>2. cfg.queued \/ m_hr' = "S_OK" => After(In(m_ppSamples))
    BY <1>2 DEF OutInv, LastInv
  <2>3. ~cfg.queued /\ m_hr' = "S_FALSE" => m_ppSamples = <<>> \/ cpc' \in {"flushed", "endwait"}
    BY <1>2 DEF OutInv, LastInv
  <2> QED BY <2>1, <2>2, <2>3, ItemsKept
<1>4. OutTyped'
  <2>1. flushes \in Nat /\ flushes + 1 \in Nat /\ m_bFlushing \in BOOLEAN /\ m_hr \in {"S_OK", "S_FALSE"}
    BY DEF OutInv, OutTyped
  <2>2. flushes' \in Nat /\ m_bFlushing' \in BOOLEAN /\ m_hr' \in {"S_OK", "S_FALSE"} /\ cpc' \in {"idle", "endwait"}
    BY <1>2, <2>1
  <2> QED BY <2>2 DEF OutInv, OutTyped
<1>5. DirectInv' /\ PlacesInv' /\ CallsInv'
  BY <1>1, <1>2 DEF OutInv, OutTyped, DirectInv, PlacesInv, CallsInv
<1>6. WaitingInv' /\ CleanInv'
  BY <1>1, <1>2 DEF OutInv, OutTyped, WaitingInv, Asleep, DirectInv, CleanInv, Clean
<1>7. ResetsInv'
  BY <1>1, <1>2 DEF OutInv, OutTyped, WaitingInv, Asleep, ResetsInv, ResetListed, ResetTaken
<1> QED BY <1>3, <1>4, <1>5, <1>6, <1>7 DEF OutInv, ItemsInv

LEMMA EndPassKeeps == ASSUME OutInv, Samples!EndPass PROVE OutInv'
<1> USE DEF Samples!EndPass, Samples!queue, Samples!worker, Samples!flush, Samples!ctl, Samples!wake,
        Samples!Ok, Samples!Bad
<1>1. ItemsInv'
  <2>1. Clean
    BY DEF OutInv, CleanInv
  <2>2. cfg.queued \/ m_hr' = "S_OK" => After(In(m_ppSamples))
    BY DEF OutInv, LastInv
  <2>3. ~cfg.queued /\ m_hr' = "S_FALSE" => m_ppSamples = <<>> \/ cpc' \in {"flushed", "endwait"}
    BY <2>1 DEF Clean
  <2> QED BY <2>1, <2>2, <2>3, ItemsKept
<1>2. OutTyped'
  BY DEF OutInv, OutTyped
<1>3. DirectInv' /\ PlacesInv' /\ CallsInv'
  BY DEF OutInv, OutTyped, DirectInv, PlacesInv, CallsInv
<1>4. WaitingInv' /\ CleanInv'
  BY DEF OutInv, OutTyped, WaitingInv, Asleep, CleanInv, Clean
<1>5. ResetsInv'
  BY DEF OutInv, OutTyped, WaitingInv, Asleep, ResetsInv, ResetListed, ResetTaken
<1> QED BY <1>1, <1>2, <1>3, <1>4, <1>5 DEF OutInv, ItemsInv

LEMMA SynchronisedKeeps == ASSUME OutInv, Samples!Synchronised PROVE OutInv'
<1> USE DEF Samples!Synchronised, Samples!queue, Samples!worker, Samples!flush, Samples!ctl, Samples!wake,
        Samples!Ok, Samples!Bad, Samples!EndFlushWait
<1>1. cfg.queued \in BOOLEAN /\ cfg.batch \in 1..2
  BY DEF OutInv, OutTyped, Samples!Configurations
<1>2. ItemsInv' /\ Clean' /\ m_List' \in Seq(Things) /\ m_ppSamples' \in Seq(Things)
      /\ (cfg.queued => UNCHANGED << m_List, m_ppSamples >>)
      /\ (~cfg.queued => m_List' = <<>> /\ m_ppSamples' = <<>>)
  <2>1. CASE cfg.queued
    <3>1. Clean
      BY <2>1 DEF OutInv, CleanInv
    <3>2. ItemsInv'
      <4>1. cfg.queued \/ m_hr' = "S_OK" => After(In(m_ppSamples))
        BY DEF OutInv, LastInv
      <4> QED BY <2>1, <4>1, ItemsKept
    <3> QED BY <2>1, <3>1, <3>2 DEF Clean, OutInv, OutTyped
  <2>2. CASE ~cfg.queued
    <3>1. sending = <<>> /\ pSample.kind = "none"
      BY <2>2 DEF OutInv, DirectInv
    <3>2. ItemsInv' /\ m_List' = <<>> /\ m_ppSamples' = <<>>
      BY <2>2, <3>1, Freeing
    <3> QED BY <2>2, <3>1, <3>2, NothingIn DEF Clean
  <2> QED BY <1>1, <2>1, <2>2
<1>3. OutTyped'
  <2>1. m_lWaiting' = m_lWaiting /\ m_hSem' = m_hSem
    OBVIOUS
  <2> QED BY <1>2, <2>1 DEF OutInv, OutTyped
<1>4. DirectInv' /\ PlacesInv' /\ CallsInv'
  <2>1. m_ppSamples' = m_ppSamples \/ (m_ppSamples' = <<>> /\ Len(m_ppSamples') = 0)
    BY <1>1, <1>2, NothingIn
  <2> QED BY <1>1, <1>2, <2>1 DEF OutInv, OutTyped, DirectInv, PlacesInv, CallsInv
<1>5. WaitingInv' /\ CleanInv'
  <2>1. ~cfg.queued => ~Asleep /\ ~Asleep'
    BY DEF OutInv, DirectInv, Asleep
  <2>2. Asleep' <=> Asleep
    BY DEF Asleep
  <2> QED BY <1>1, <1>2, <2>1, <2>2 DEF OutInv, WaitingInv, CleanInv
<1>6. ResetsInv'
  <2>1. ~ResetListed /\ ~ResetTaken
    BY DEF OutInv, ResetsInv
  <2>2. ~ResetListed' /\ ~ResetTaken'
    BY <1>1, <1>2, <2>1, NothingIn DEF ResetListed, ResetTaken
  <2> QED BY <1>1, <2>1, <2>2 DEF OutInv, ResetsInv, Asleep
<1> QED BY <1>2, <1>3, <1>4, <1>5, <1>6 DEF OutInv, ItemsInv

LEMMA DestroyKeeps == ASSUME OutInv, Samples!Destroy PROVE OutInv'
<1> USE DEF Samples!Destroy, Samples!queue, Samples!worker, Samples!flush, Samples!ctl, Samples!wake,
        Samples!Ok, Samples!Bad
<1>1. cfg.queued \in BOOLEAN /\ cfg.batch \in 1..2
  BY DEF OutInv, OutTyped, Samples!Configurations
<1>2. CASE cfg.queued
  <2>1. m_hr' = "S_FALSE" /\ Samples!NotifyThread /\ UNCHANGED << m_List, m_ppSamples, live >>
    BY <1>2
  <2>2. /\ m_lWaiting' \in Nat /\ m_hSem' \in Nat
        /\ m_lWaiting' + m_hSem' = (IF wpc' = "wait" THEN 1 ELSE 0)
        /\ ~Asleep'
    BY <2>1, Notifying
  <2>3. ItemsInv'
    <3>1. cfg.queued \/ m_hr' = "S_OK" => After(In(m_ppSamples))
      BY <1>2 DEF OutInv, LastInv
    <3> QED BY <1>2, <2>1, <3>1, ItemsKept
  <2>4. OutTyped'
    BY <2>1, <2>2 DEF OutInv, OutTyped
  <2>5. DirectInv' /\ PlacesInv' /\ CallsInv'
    BY <1>2, <2>1 DEF OutInv, OutTyped, DirectInv, PlacesInv, CallsInv
  <2>6. WaitingInv' /\ CleanInv'
    BY <2>1, <2>2 DEF OutInv, OutTyped, WaitingInv, CleanInv, Clean
  <2>7. ResetsInv'
    BY <2>1 DEF OutInv, OutTyped, ResetsInv, ResetListed, ResetTaken
  <2> QED BY <2>3, <2>4, <2>5, <2>6, <2>7 DEF OutInv, ItemsInv
<1>3. CASE ~cfg.queued
  <2>1. Samples!FreeSamples /\ UNCHANGED << m_hr, m_lWaiting, m_hSem >>
    BY <1>3
  <2>2. sending = <<>> /\ pSample.kind = "none" /\ wpc = "gone"
    BY <1>3 DEF OutInv, DirectInv
  <2>3. ItemsInv' /\ m_List' = <<>> /\ m_ppSamples' = <<>>
    BY <2>1, <2>2, Freeing
  <2>4. OutTyped'
    BY <2>1, <2>3, NothingIn DEF OutInv, OutTyped
  <2>5. DirectInv' /\ PlacesInv' /\ CallsInv'
    BY <1>1, <1>3, <2>1, <2>2, <2>3, NothingIn DEF OutInv, OutTyped, DirectInv, PlacesInv, CallsInv
  <2>6. WaitingInv'
    BY <2>1, <2>2 DEF OutInv, OutTyped, WaitingInv, Asleep
  <2>7. CleanInv'
    BY <2>2, <2>3, NothingIn DEF CleanInv, Clean
  <2>8. ResetsInv'
    BY <1>3, <2>2, <2>3, NothingIn DEF OutInv, ResetsInv, ResetListed, ResetTaken
  <2> QED BY <2>3, <2>4, <2>5, <2>6, <2>7, <2>8 DEF OutInv, ItemsInv
<1> QED BY <1>1, <1>2, <1>3

LEMMA TerminatedKeeps == ASSUME OutInv, Samples!Terminated PROVE OutInv'
<1> USE DEF Samples!Terminated, Samples!queue, Samples!flush, Samples!ctl, Samples!wake
<1>1. cfg.queued \in BOOLEAN /\ cfg.batch \in 1..2
  BY DEF OutInv, OutTyped, Samples!Configurations
<1>2. sending = <<>> /\ pSample.kind = "none" /\ cfg.queued /\ cpc \in {"joining", "gone"}
  BY <1>1 DEF OutInv, PlacesInv, DirectInv
<1>3. ItemsInv' /\ m_List' = <<>> /\ m_ppSamples' = <<>>
  BY <1>2, Freeing
<1>4. OutTyped'
  BY <1>3, NothingIn DEF OutInv, OutTyped
<1>5. DirectInv' /\ PlacesInv' /\ CallsInv'
  BY <1>1, <1>2, <1>3, NothingIn DEF OutInv, OutTyped, DirectInv, PlacesInv, CallsInv
<1>6. WaitingInv'
  BY DEF OutInv, OutTyped, WaitingInv, Asleep
<1>7. CleanInv'
  BY <1>2, <1>3, NothingIn DEF CleanInv, Clean
<1>8. ResetsInv'
  BY <1>2, <1>3, NothingIn DEF OutInv, ResetsInv, ResetListed, ResetTaken, Asleep
<1> QED BY <1>3, <1>4, <1>5, <1>6, <1>7, <1>8 DEF OutInv, ItemsInv

LEMMA FlushedKeeps == ASSUME OutInv, Samples!Flushed PROVE OutInv'
<1> USE DEF Samples!Flushed, Samples!queue, Samples!flush, Samples!ctl
<1>1. cfg.queued \in BOOLEAN /\ cfg.exact \in BOOLEAN /\ cfg.batch \in 1..2
      /\ (cfg.exact => cfg.batch > 1)
  BY DEF OutInv, OutTyped, Samples!Configurations
<1>2. sending = <<>> /\ pSample.kind = "none" /\ cfg.queued /\ cpc \in {"flushed", "endwait", "endclear"}
  BY <1>1 DEF OutInv, PlacesInv, DirectInv, CallsInv
<1>3. ItemsInv' /\ m_List' = <<>> /\ m_ppSamples' = <<>>
  BY <1>2, Freeing
<1>4. m_lWaiting' \in Nat /\ m_hSem' = m_hSem /\ m_lWaiting' + m_hSem' = 1 /\ Asleep'
  <2>1. m_lWaiting \in Nat /\ m_hSem \in Nat /\ m_lWaiting + m_hSem = 0
    BY DEF OutInv, OutTyped, WaitingInv
  <2>2. m_lWaiting = 0 /\ m_hSem = 0
    BY <2>1
  <2>3. m_lWaiting' = 1 /\ m_hSem' = 0 /\ 1 + 0 = 1
    BY <2>2
  <2> QED BY <2>2, <2>3 DEF Asleep
<1>5. OutTyped'
  BY <1>3, <1>4, NothingIn DEF OutInv, OutTyped
<1>6. DirectInv' /\ PlacesInv' /\ CallsInv'
  BY <1>1, <1>2, <1>3, NothingIn DEF OutInv, OutTyped, DirectInv, PlacesInv, CallsInv
<1>7. WaitingInv'
  BY <1>1, <1>2, <1>3, <1>4, NothingIn DEF WaitingInv
<1>8. CleanInv'
  BY <1>2, <1>3, NothingIn DEF CleanInv, Clean
<1>9. ResetsInv'
  <2>1. cfg.resets => cpc # "endclear"
    BY <1>2 DEF OutInv, ResetsInv, Asleep
  <2>2. ~ResetListed' /\ ~ResetTaken'
    BY <1>2, <1>3, NothingIn DEF ResetListed, ResetTaken
  <2> QED BY <1>2, <1>4, <2>1, <2>2 DEF OutInv, ResetsInv
<1> QED BY <1>3, <1>5, <1>6, <1>7, <1>8, <1>9 DEF OutInv, ItemsInv

\* The batch is released, and what is left keeps its numbers.
LEMMA Releasing ==
    ASSUME OutInv, sending' = <<>>, live' = live \ Samples!Numbers(sending),
           wpc \in {"send", "receiving"}, wpc' = "special", cfg.queued,
           UNCHANGED << cfg, m_List, m_ppSamples, pSample, items, sent, flushes >>
    PROVE  ItemsInv'
<1>1. In(sending)' = {} /\ Hand' = Hand
  BY NothingIn DEF Hand
<1>2. KindsInv'
  BY <1>1 DEF OutInv, KindsInv
<1>3. OrderInv' /\ NumbersInv'
  BY <1>1, NothingIn DEF OutInv, OrderInv, NumbersInv, Counted
<1>4. LastInv'
  <2>1. LastNumber' = LastNumber
    BY DEF LastNumber
  <2> QED BY <1>1, <2>1 DEF OutInv, LastInv, After
<1>5. AccountInv'
  <2>1. live' = live \ SampleNumbers(In(sending))
    BY NumbersAre
  <2>2. ASSUME NEW x \in In(m_List) \cup In(m_ppSamples), x.kind = "sample"
        PROVE  x.n \notin SampleNumbers(In(sending))
    <3>1. ASSUME NEW y \in In(sending), y.kind = "sample" PROVE y.n < x.n
      BY <2>2, <3>1 DEF OutInv, OrderInv, Below, Precedes, Real
    <3>2. ASSUME NEW y \in In(sending), y.kind = "sample" PROVE y.n # x.n
      <4>1. y.n \in Nat /\ x.n \in Nat
        BY InThings DEF OutInv, OutTyped, Things
      <4> QED BY <3>1, <3>2, <4>1
    <3> QED BY <3>2 DEF SampleNumbers
  <2>3. /\ SampleNumbers(In(m_List)) \cap SampleNumbers(In(sending)) = {}
        /\ SampleNumbers(In(m_ppSamples)) \cap SampleNumbers(In(sending)) = {}
    BY <2>2 DEF SampleNumbers
  <2>4. live' = SampleNumbers(In(m_List)) \cup SampleNumbers(In(m_ppSamples))
    BY <2>1, <2>3 DEF OutInv, AccountInv
  <2> QED BY <1>1, <2>4, NothingIn DEF AccountInv
<1> QED BY <1>2, <1>3, <1>4, <1>5 DEF ItemsInv

LEMMA ReleasedKeeps ==
    ASSUME OutInv, sending' = <<>>, live' = live \ Samples!Numbers(sending),
           wpc \in {"send", "receiving"}, wpc' = "special", cfg.queued,
           m_hr' \in {m_hr, Samples!StickyResult("S_FALSE")},
           UNCHANGED << cfg, m_List, m_ppSamples, m_bFlushing, m_bFlushed, m_lWaiting, m_hSem,
                        m_evFlushComplete, locked, pSample, upc, cpc, m_bTerminate, items, sent, flushes >>
    PROVE  OutInv'
<1>1. ItemsInv'
  BY Releasing
<1>2. m_hr' \in {"S_OK", "S_FALSE"} /\ (m_hr = "S_FALSE" => m_hr' = "S_FALSE")
  BY DEF OutInv, OutTyped, Samples!StickyResult, Samples!Ok
<1>3. OutTyped'
  BY <1>2, NothingIn DEF OutInv, OutTyped
<1>4. DirectInv' /\ PlacesInv' /\ CallsInv'
  BY <1>2 DEF OutInv, OutTyped, DirectInv, PlacesInv, CallsInv
<1>5. WaitingInv' /\ CleanInv'
  BY DEF OutInv, OutTyped, WaitingInv, Asleep, CleanInv, Clean
<1>6. ResetsInv'
  BY DEF OutInv, ResetsInv, ResetListed, ResetTaken, Asleep
<1> QED BY <1>1, <1>3, <1>4, <1>5, <1>6 DEF OutInv, ItemsInv

LEMMA SendKeeps == ASSUME OutInv, Samples!Send PROVE OutInv'
<1> USE DEF Samples!Send, Samples!queue, Samples!flush, Samples!ctl, Samples!wake
<1>1. cfg.queued \in BOOLEAN
  BY DEF OutInv, OutTyped, Samples!Configurations
<1>2. cfg.queued
  BY <1>1 DEF OutInv, DirectInv
<1>3. CASE sending # <<>> /\ m_hr = "S_OK"
  <2> USE <1>3 DEF Samples!Ok
  <2>1. wpc' = "receiving" /\ sent' = sending /\ sending' = sending /\ live' = live
    OBVIOUS
  <2>2. KindsInv' /\ OrderInv' /\ NumbersInv' /\ AccountInv' /\ OutTyped'
    BY <2>1 DEF OutInv, OutTyped, KindsInv, OrderInv, NumbersInv, Counted, Hand, AccountInv
  <2>3. LastInv'
    <3>1. /\ Len(sending) \in DOMAIN sending /\ sending[Len(sending)] \in In(sending)
          /\ sending[Len(sending)] \in Things /\ sending[Len(sending)].kind = "sample"
      <4>1. Len(sending) \in DOMAIN sending
        BY DEF OutInv, OutTyped
      <4> QED BY <4>1 DEF OutInv, OutTyped, KindsInv, In
    <3>2. PICK x \in In(sending) : x = sending[Len(sending)]
      BY <3>1
    <3>3. LastNumber' = x.n /\ Real(x) /\ x.n \in 0..items
      BY <2>1, <3>1, <3>2 DEF LastNumber, Real, OutInv, NumbersInv, Counted
    <3>4. After(Hand)' /\ After(In(m_List))' /\ After(In(m_ppSamples))'
      BY <3>2, <3>3 DEF OutInv, OrderInv, Below, Precedes, After, Hand
    <3> QED BY <1>2, <2>1, <3>3, <3>4 DEF LastInv
  <2>4. DirectInv' /\ PlacesInv' /\ CallsInv'
    BY <1>2, <2>1 DEF OutInv, OutTyped, DirectInv, PlacesInv, CallsInv
  <2>5. WaitingInv' /\ CleanInv'
    BY <2>1 DEF OutInv, OutTyped, WaitingInv, Asleep, CleanInv, Clean
  <2>6. ResetsInv'
    BY <2>1 DEF OutInv, ResetsInv, ResetListed, ResetTaken, Asleep
  <2> QED BY <2>2, <2>3, <2>4, <2>5, <2>6 DEF OutInv
<1>4. CASE ~(sending # <<>> /\ m_hr = "S_OK")
  <2>1. wpc' = "special" /\ sending' = <<>> /\ live' = live \ Samples!Numbers(sending) /\ sent' = sent
    BY <1>4 DEF Samples!Ok
  <2> QED BY <1>2, <2>1, ReleasedKeeps
<1> QED BY <1>3, <1>4

LEMMA ReceivedKeeps == ASSUME OutInv, Samples!Received PROVE OutInv'
<1> USE DEF Samples!Received, Samples!queue, Samples!flush, Samples!ctl, Samples!wake
<1>1. cfg.queued
  BY DEF OutInv, OutTyped, DirectInv, Samples!Configurations
<1>2. m_hr' \in {m_hr, Samples!StickyResult("S_FALSE")}
  BY DEF Samples!StickyResult, Samples!Ok, Samples!Bad
<1> QED BY <1>1, <1>2, ReleasedKeeps

LEMMA SpecialKeeps == ASSUME OutInv, Samples!Special PROVE OutInv'
<1> USE DEF Samples!Special, Samples!queue, Samples!flush, Samples!ctl, Samples!wake
<1>1. cfg.queued /\ sending = <<>> /\ In(sending) = {} /\ In(sending)' = {}
  BY NothingIn DEF OutInv, OutTyped, DirectInv, PlacesInv, Samples!Configurations
<1>2. pSample' \in Things /\ pSample'.kind = "none" /\ Hand' = {} /\ pSample \in Things
  BY DEF Samples!NoItem, Things, Hand, OutInv, OutTyped
<1>3. \/ sent' = sent
      \/ pSample.kind \in {"eos", "segment"} /\ sent' = <<pSample>>
  OBVIOUS
<1>4. m_hr' = m_hr \/ (m_hr' = "S_OK" /\ pSample.kind = "reset")
  BY DEF Samples!Ok
<1>5. \/ wpc' = "top" /\ pSample.kind # "reset"
      \/ wpc' = "resetdone" /\ pSample.kind = "reset"
  OBVIOUS
<1>6. KindsInv' /\ AccountInv'
  BY <1>2 DEF OutInv, KindsInv, AccountInv
<1>7. OrderInv' /\ NumbersInv'
  BY <1>1, <1>2, NothingIn DEF OutInv, OrderInv, NumbersInv, Counted
<1>8. LastInv'
  <2>1. CASE sent' = sent
    <3>1. LastNumber' = LastNumber
      BY <2>1 DEF LastNumber
    <3> QED BY <1>1, <1>2, <1>5, <3>1 DEF OutInv, LastInv, After
  <2>2. CASE pSample.kind \in {"eos", "segment"} /\ sent' = <<pSample>>
    <3>1. Hand = {pSample} /\ Real(pSample)
      BY <2>2 DEF Hand, Real
    <3>2. LastNumber' = pSample.n
      BY <2>2 DEF LastNumber
    <3>3. LastNumber' \in 0..items'
      BY <3>1, <3>2 DEF OutInv, NumbersInv, Counted
    <3>4. After(In(m_List))' /\ After(In(m_ppSamples))'
      BY <3>1, <3>2 DEF OutInv, OrderInv, Below, Precedes, After
    <3> QED BY <1>1, <1>2, <1>5, <3>3, <3>4 DEF LastInv, After
  <2> QED BY <1>3, <2>1, <2>2
<1>9. OutTyped'
  <2>1. <<pSample>> \in Seq(Things)
    BY <1>2, OneIn
  <2>2. sent' \in Seq(Things)
    BY <1>3, <2>1 DEF OutInv, OutTyped
  <2> QED BY <1>2, <1>4, <1>5, <2>2 DEF OutInv, OutTyped
<1>10. DirectInv' /\ PlacesInv' /\ CallsInv'
  <2>1. pSample.kind = "reset" => cpc = "resetwait"
    BY DEF OutInv, ResetsInv, ResetTaken
  <2> QED BY <1>1, <1>2, <1>4, <1>5, <2>1 DEF OutInv, OutTyped, DirectInv, PlacesInv, CallsInv
<1>11. WaitingInv' /\ CleanInv'
  BY <1>1, <1>2, <1>5 DEF OutInv, OutTyped, WaitingInv, Asleep, CleanInv, Clean
<1>12. ResetsInv'
  <2>1. pSample.kind = "reset" => ~ResetListed
    BY DEF OutInv, OrderInv, Below, Precedes, Hand, ResetListed
  <2>2. ResetListed' <=> ResetListed
    BY DEF ResetListed
  <2>3. ResetTaken' => ResetTaken /\ wpc' = "resetdone" /\ pSample.kind = "reset"
    BY <1>2, <1>5 DEF ResetTaken
  <2> QED BY <1>5, <2>1, <2>2, <2>3 DEF OutInv, ResetsInv, Asleep
<1> QED BY <1>6, <1>7, <1>8, <1>9, <1>10, <1>11, <1>12 DEF OutInv

\* What the streaming thread or Reset puts at the end of the list.
Fresh(s) ==
    /\ s \in Seq(Things) /\ Rising(s) /\ Paired(s)
    /\ \A x \in In(s) : /\ x.kind # "none"
                        /\ Real(x) => x.n \in items + 1..items'
                        /\ x.kind \in {"sample", "eos"} => x.flushes = flushes

LEMMA Queueing ==
    ASSUME OutInv, NEW s, Fresh(s), m_List' = m_List \o s, items' \in Nat, items <= items',
           live' = live \cup SampleNumbers(In(s)), cfg.queued,
           (\E x \in In(s) : x.kind = "reset") => ~ResetListed /\ ~ResetTaken,
           UNCHANGED << cfg, m_ppSamples, sending, pSample, sent, flushes, wpc >>
    PROVE  /\ ItemsInv' /\ m_List' \in Seq(Things) /\ Len(m_List') = Len(m_List) + Len(s)
           /\ In(m_List)' = In(m_List) \cup In(s)
<1>1. s \in Seq(Things) /\ m_List \in Seq(Things) /\ items \in Nat
  BY DEF Fresh, OutInv, OutTyped
<1>2. /\ m_List \o s \in Seq(Things) /\ Len(m_List \o s) = Len(m_List) + Len(s)
      /\ In(m_List \o s) = In(m_List) \cup In(s)
      /\ Rising(m_List) /\ Rising(s) /\ Below(In(m_List), In(s)) => Rising(m_List \o s)
      /\ Paired(m_List) /\ Paired(s) => Paired(m_List \o s)
  BY <1>1, JoinedIn
<1>3. ASSUME NEW X, X \subseteq Things, Counted(X), \A x \in X : x.kind = "reset" => ResetListed \/ ResetTaken
      PROVE  Below(X, In(s))
  <2> SUFFICES ASSUME NEW x \in X, NEW y \in In(s) PROVE Precedes(x, y)
    BY DEF Below
  <2>1. ASSUME Real(x), Real(y) PROVE x.n < y.n
    <3>1. x.n \in 1..items /\ y.n \in items + 1..items'
      BY <1>3, <2>1 DEF Counted, Fresh
    <3> QED BY <1>1, <3>1
  <2>2. ~(x.kind = "reset" /\ y.kind = "reset")
    BY <1>3
  <2> QED BY <2>1, <2>2 DEF Precedes
<1>4. /\ In(m_List) \subseteq Things /\ In(m_ppSamples) \subseteq Things
      /\ In(sending) \subseteq Things /\ Hand \subseteq Things
  BY InThings DEF OutInv, OutTyped, Hand
<1>5. Below(In(m_List), In(s))
  BY <1>3, <1>4 DEF OutInv, NumbersInv, ResetListed
<1>6. Below(In(m_ppSamples), In(s))
  BY <1>3, <1>4 DEF OutInv, NumbersInv, KindsInv
<1>7. Below(In(sending), In(s))
  BY <1>3, <1>4 DEF OutInv, NumbersInv, KindsInv
<1>8. Below(Hand, In(s))
  BY <1>3, <1>4 DEF OutInv, NumbersInv, Hand, ResetTaken
<1>9. Hand' = Hand /\ In(m_List)' = In(m_List) \cup In(s) /\ LastNumber' = LastNumber
      /\ In(m_ppSamples)' = In(m_ppSamples) /\ In(sending)' = In(sending)
  BY <1>2 DEF Hand, LastNumber
<1>10. KindsInv'
  BY <1>2, <1>9 DEF OutInv, KindsInv, Fresh
<1>11. OrderInv'
  <2>1. \A X, Y, Z : Below(X, Y) /\ Below(X, Z) => Below(X, Y \cup Z)
    BY DEF Below
  <2>2. Rising(m_List)'
    BY <1>2, <1>5 DEF OutInv, OrderInv, Fresh
  <2>3. Below(In(sending), In(m_List))' /\ Below(Hand, In(m_List))' /\ Below(In(m_ppSamples), In(m_List))'
    BY <1>6, <1>7, <1>8, <1>9, <2>1 DEF OutInv, OrderInv
  <2> QED BY <1>9, <2>2, <2>3 DEF OutInv, OrderInv
<1>12. NumbersInv'
  <2>1. \A i \in 1..items : i \in 1..items'
    BY <1>1
  <2>2. \A i \in items + 1..items' : i \in 1..items'
    BY <1>1
  <2>3. Counted(In(m_List))'
    BY <1>9, <2>1, <2>2 DEF OutInv, NumbersInv, Counted, Fresh
  <2> QED BY <1>9, <2>1, <2>3 DEF OutInv, NumbersInv, Counted
<1>13. LastInv'
  <2>1. LastNumber \in 0..items /\ (\A i \in 0..items : i \in 0..items') /\ \A i \in items + 1..items' : items < i
    BY <1>1 DEF OutInv, LastInv
  <2>2. \A i \in items + 1..items' : LastNumber < i
    BY <1>1, <2>1
  <2>3. After(In(m_List))'
    BY <1>9, <2>2 DEF OutInv, LastInv, After, Fresh
  <2> QED BY <1>9, <2>1, <2>3 DEF OutInv, LastInv, After
<1>14. AccountInv'
  BY <1>9, NumbersUnion DEF OutInv, AccountInv
<1> QED BY <1>2, <1>9, <1>10, <1>11, <1>12, <1>13, <1>14 DEF ItemsInv

\* A call of the streaming thread that queues s: the worker is told, unless
\* samples wait for an exact batch to be full.
LEMMA QueuedKeeps ==
    ASSUME OutInv, NEW s, Fresh(s), m_List' = m_List \o s, items' \in Nat, items <= items',
           live' = live \cup SampleNumbers(In(s)), cfg.queued, ~locked,
           \A x \in In(s) : x.kind # "reset" /\ (x.kind \in {"sample", "eos"} => ~m_bFlushed' /\ m_hr = "S_OK"),
           m_bFlushed' \in BOOLEAN, m_bFlushed' => m_bFlushed,
           \/ Samples!NotifyThread
           \/ /\ UNCHANGED << m_lWaiting, m_hSem >>
              /\ \A x \in In(s) : x.kind = "sample"
              /\ cfg.exact /\ Len(m_ppSamples) + Len(m_List') < cfg.batch /\ ~m_bFlushed' /\ m_hr = "S_OK",
           upc = "idle" => cpc \in {"idle", "flushed", "resetwait"},
           cfg.resets /\ upc = "idle" => cpc # "flushed", upc' = "idle",
           UNCHANGED << cfg, m_ppSamples, m_hr, m_bFlushing, m_evFlushComplete, locked, wpc, sending, pSample,
                        cpc, m_bTerminate, sent, flushes >>
    PROVE  OutInv'
<1>1. /\ ItemsInv' /\ m_List' \in Seq(Things) /\ Len(m_List') = Len(m_List) + Len(s)
      /\ In(m_List)' = In(m_List) \cup In(s)
  BY Queueing
<1>2. cpc \in {"idle", "flushed", "resetwait"} /\ (cfg.resets => cpc # "flushed")
  BY DEF OutInv, OutTyped, CallsInv
<1>3. m_lWaiting' \in Nat /\ m_hSem' \in Nat /\ m_lWaiting' + m_hSem' = (IF wpc' = "wait" THEN 1 ELSE 0)
  <2>1. CASE Samples!NotifyThread
    BY <2>1, Notifying
  <2>2. CASE UNCHANGED << m_lWaiting, m_hSem >>
    BY <2>2 DEF OutInv, OutTyped, WaitingInv
  <2> QED BY <2>1, <2>2
<1>4. OutTyped'
  BY <1>1, <1>3 DEF OutInv, OutTyped
<1>5. DirectInv' /\ CallsInv'
  BY <1>2 DEF OutInv, OutTyped, DirectInv, CallsInv
<1>6. PlacesInv'
  BY <1>2 DEF OutInv, OutTyped, PlacesInv
<1>7. CleanInv'
  <2>1. CASE m_hr = "S_OK"
    <3>1. cpc \notin {"flushed", "endwait", "endclear", "endpass", "endhr"}
      BY <2>1 DEF OutInv, CallsInv
    <3>2. ASSUME m_bFlushed', \A x \in In(s) : x.kind \notin {"sample", "eos"} PROVE Clean'
      BY <1>1, <3>2 DEF OutInv, CleanInv, Clean
    <3> QED BY <3>1, <3>2 DEF CleanInv
  <2>2. CASE m_hr # "S_OK"
    <3>1. \A x \in In(s) : x.kind \notin {"sample", "eos"}
      BY <2>2
    <3>2. Clean => Clean'
      BY <1>1, <3>1 DEF Clean
    <3> QED BY <3>2 DEF OutInv, CleanInv
  <2> QED BY <2>1, <2>2
<1>8. WaitingInv'
  <2>1. CASE Samples!NotifyThread
    BY <1>3, <2>1, Notifying DEF WaitingInv
  <2>2. CASE /\ UNCHANGED << m_lWaiting, m_hSem >>
             /\ \A x \in In(s) : x.kind = "sample"
             /\ cfg.exact /\ Len(m_ppSamples) + Len(m_List') < cfg.batch /\ m_hr = "S_OK"
    <3>1. Asleep' <=> Asleep
      BY <2>2 DEF Asleep
    <3>2. cpc \notin {"flushed", "endwait"}
      BY <2>2 DEF OutInv, CallsInv
    <3> QED BY <1>1, <1>3, <2>2, <3>1, <3>2 DEF OutInv, WaitingInv
  <2> QED BY <2>1, <2>2
<1>9. ResetsInv'
  <2>1. ResetListed' <=> ResetListed
    BY <1>1 DEF ResetListed
  <2> QED BY <1>2, <2>1 DEF OutInv, ResetsInv, ResetTaken
<1> QED BY <1>1, <1>4, <1>5, <1>6, <1>7, <1>8, <1>9 DEF OutInv, ItemsInv

LEMMA ReceiveMultipleKeeps == ASSUME OutInv, Samples!ReceiveMultiple PROVE OutInv'
<1> USE DEF Samples!ReceiveMultiple, Samples!ctl, Samples!worker, Samples!wake
<1>1. PICK k \in 1..MaxMultiple :
         /\ items' = items + k
         /\ IF m_hr # "S_OK"
            THEN UNCHANGED << m_List, m_bFlushed, m_lWaiting, m_hSem, live >>
            ELSE /\ m_bFlushed' = FALSE
                 /\ m_List' = m_List \o Samples!Samples(items, k)
                 /\ live' = live \cup (items + 1)..(items + k)
                 /\ IF Samples!Notified(m_List') THEN Samples!NotifyThread
                                                 ELSE UNCHANGED << m_lWaiting, m_hSem >>
  BY DEF Samples!QueueSamples, Samples!Ok
<1>2. k \in Nat /\ items \in Nat /\ items' \in Nat /\ items <= items'
  <2>1. items \in Nat
    BY DEF OutInv, OutTyped
  <2>2. k \in Nat
    OBVIOUS
  <2> QED BY <1>1, <2>1, <2>2
<1>3. /\ cfg.queued /\ ~locked /\ upc = "idle" /\ upc' = "idle" /\ cpc \in {"idle", "flushed", "resetwait"}
      /\ (cfg.resets => cpc # "flushed")
      /\ UNCHANGED << cfg, m_ppSamples, m_hr, m_bFlushing, m_evFlushComplete, locked, wpc, sending, pSample,
                      upc, cpc, m_bTerminate, sent, flushes >>
  BY DEF Samples!MayCall
<1>4. CASE m_hr # "S_OK"
  <2>1. UNCHANGED << m_List, m_bFlushed, m_lWaiting, m_hSem, live >>
    BY <1>1, <1>4
  <2>2. NumbersInv' /\ LastNumber' = LastNumber /\ LastNumber' \in 0..items'
    <3>1. \A i \in Int : (i \in 1..items => i \in 1..items') /\ (i \in 0..items => i \in 0..items')
      BY <1>2
    <3>2. NumbersInv'
      BY <1>3, <2>1, <3>1 DEF OutInv, NumbersInv, Counted, Hand
    <3> QED BY <1>3, <3>1, <3>2 DEF OutInv, LastInv, LastNumber
  <2>3. OutTyped' /\ KindsInv' /\ AccountInv' /\ DirectInv' /\ PlacesInv' /\ CallsInv'
    BY <1>2, <1>3, <2>1 DEF OutInv, OutTyped, KindsInv, AccountInv, DirectInv, PlacesInv, CallsInv
  <2>4. OrderInv' /\ LastInv'
    BY <1>3, <2>1, <2>2 DEF OutInv, OrderInv, LastInv, After, Hand
  <2>5. WaitingInv' /\ CleanInv' /\ ResetsInv'
    BY <1>3, <2>1 DEF OutInv, WaitingInv, Asleep, CleanInv, Clean, ResetsInv, ResetListed, ResetTaken
  <2> QED BY <2>2, <2>3, <2>4, <2>5 DEF OutInv
<1>5. CASE m_hr = "S_OK"
  <2>1. PICK s : s = Samples!Samples(items, k)
    OBVIOUS
  <2>2. /\ s \in Seq(Things) /\ Rising(s) /\ Paired(s)
        /\ \A x \in In(s) : x.kind = "sample" /\ x.n \in items + 1..items + k /\ x.flushes = flushes
        /\ SampleNumbers(In(s)) = items + 1..items + k
    <3>1. flushes \in Nat
      BY DEF OutInv, OutTyped
    <3> QED BY <1>2, <2>1, <3>1, CallOf
  <2>3. Fresh(s)
    BY <1>1, <2>2 DEF Fresh
  <2>4. /\ m_List' = m_List \o s /\ live' = live \cup SampleNumbers(In(s)) /\ m_bFlushed' = FALSE
        /\ IF Samples!Notified(m_List') THEN Samples!NotifyThread
                                        ELSE UNCHANGED << m_lWaiting, m_hSem >>
    BY <1>1, <1>5, <2>1, <2>2
  <2>5. ~Samples!Notified(m_List') => cfg.exact /\ Len(m_ppSamples) + Len(m_List') < cfg.batch
    <3>1. cfg.batch \in Int /\ Len(m_ppSamples) \in Int /\ cfg.exact \in BOOLEAN
      BY DEF OutInv, OutTyped, Samples!Configurations
    <3>2. Len(m_List') \in Int
      <4>1. m_List \in Seq(Things)
        BY DEF OutInv, OutTyped
      <4>2. m_List' \in Seq(Things)
        BY <2>2, <2>4, <4>1, JoinedIn
      <4> QED BY <4>2
    <3> QED BY <3>1, <3>2 DEF Samples!Notified
  <2>6. \/ Samples!NotifyThread
        \/ /\ UNCHANGED << m_lWaiting, m_hSem >>
           /\ \A x \in In(s) : x.kind = "sample"
           /\ cfg.exact /\ Len(m_ppSamples) + Len(m_List') < cfg.batch /\ ~m_bFlushed' /\ m_hr = "S_OK"
    BY <1>5, <2>2, <2>4, <2>5
  <2>7. \A x \in In(s) : x.kind # "reset" /\ (x.kind \in {"sample", "eos"} => ~m_bFlushed' /\ m_hr = "S_OK")
    BY <1>5, <2>2, <2>4
  <2> HIDE DEF Samples!ReceiveMultiple
  <2> QED BY <1>2, <1>3, <2>3, <2>4, <2>6, <2>7, QueuedKeeps
<1> QED BY <1>4, <1>5

\* An item alone, or a segment with its packet.
LEMMA OneFresh ==
    ASSUME OutInv, NEW kind \in {"eos", "send"}, items' = items + 1
    PROVE  /\ Fresh(<<Samples!Item(kind, items + 1)>>)
           /\ \A x \in In(<<Samples!Item(kind, items + 1)>>) : x.kind = kind
           /\ SampleNumbers(In(<<Samples!Item(kind, items + 1)>>)) = {}
<1>1. PICK x : x = Samples!Item(kind, items + 1)
  OBVIOUS
<1>2. items \in Nat /\ flushes \in Nat /\ items + 1 \in Nat /\ items + 1 \in items + 1..items + 1
  BY DEF OutInv, OutTyped
<1>3. x \in Things /\ x.kind = kind /\ x.n = items + 1 /\ x.flushes = flushes
  BY <1>1, <1>2 DEF Samples!Item, Things
<1>4. <<x>> \in Seq(Things) /\ In(<<x>>) = {x} /\ Rising(<<x>>) /\ Paired(<<x>>)
  BY <1>3, OneIn
<1> QED BY <1>1, <1>2, <1>3, <1>4 DEF Fresh, SampleNumbers

LEMMA SegmentFresh ==
    ASSUME OutInv, items' = items + 1
    PROVE  /\ Fresh(<<Samples!Item("segment", items + 1), Samples!Item("packet", items + 1)>>)
           /\ \A x \in In(<<Samples!Item("segment", items + 1), Samples!Item("packet", items + 1)>>) :
                 x.kind \in {"segment", "packet"}
           /\ SampleNumbers(In(<<Samples!Item("segment", items + 1), Samples!Item("packet", items + 1)>>)) = {}
<1>1. PICK x, y : x = Samples!Item("segment", items + 1) /\ y = Samples!Item("packet", items + 1)
  OBVIOUS
<1>2. items \in Nat /\ flushes \in Nat /\ items + 1 \in Nat /\ items + 1 \in items + 1..items + 1
  BY DEF OutInv, OutTyped
<1>3. /\ x \in Things /\ x.kind = "segment" /\ x.n = items + 1 /\ x.flushes = flushes
      /\ y \in Things /\ y.kind = "packet"
  BY <1>1, <1>2 DEF Samples!Item, Things
<1>4. PICK s : s = <<x, y>>
  OBVIOUS
<1>5. s \in Seq(Things) /\ DOMAIN s = 1..2 /\ s[1] = x /\ s[2] = y
  BY <1>3, <1>4
<1>6. In(s) = {x, y}
  BY <1>5 DEF In
<1>7. Rising(s) /\ Paired(s)
  BY <1>3, <1>5 DEF Rising, Paired, Precedes, Real
<1>8. Fresh(s) /\ SampleNumbers(In(s)) = {}
  BY <1>2, <1>3, <1>5, <1>6, <1>7 DEF Fresh, SampleNumbers, Real
<1> QED BY <1>1, <1>3, <1>4, <1>6, <1>8

LEMMA EosKeeps == ASSUME OutInv, Samples!EOS PROVE OutInv'
<1>1. PICK s : s = <<Samples!Item("eos", items + 1)>>
  OBVIOUS
<1>2. /\ cfg.queued /\ ~locked /\ upc = "idle" /\ upc' = "idle" /\ cpc \in {"idle", "flushed", "resetwait"}
      /\ (cfg.resets => cpc # "flushed") /\ m_hr = "S_OK" /\ m_bFlushed' = FALSE
      /\ m_List' = m_List \o s /\ Samples!NotifyThread /\ items' = items + 1
      /\ UNCHANGED << cfg, m_ppSamples, m_hr, m_bFlushing, m_evFlushComplete, locked, wpc, sending, pSample,
                      upc, cpc, m_bTerminate, live, sent, flushes >>
  BY <1>1 DEF Samples!EOS, Samples!ctl, Samples!worker, Samples!MayCall, Samples!QueueSamples, Samples!Ok
<1>3. Fresh(s) /\ (\A x \in In(s) : x.kind = "eos") /\ SampleNumbers(In(s)) = {}
  BY <1>1, <1>2, OneFresh
<1>4. items' \in Nat /\ items <= items' /\ live' = live \cup SampleNumbers(In(s))
  BY <1>2, <1>3 DEF OutInv, OutTyped
<1> QED BY <1>2, <1>3, <1>4, QueuedKeeps

LEMMA SendAnywayKeeps == ASSUME OutInv, Samples!SendAnyway PROVE OutInv'
<1>1. PICK s : s = <<Samples!Item("send", items + 1)>>
  OBVIOUS
<1>2. /\ cfg.queued /\ ~locked /\ upc = "idle" /\ upc' = "idle" /\ cpc \in {"idle", "flushed", "resetwait"}
      /\ (cfg.resets => cpc # "flushed")
      /\ m_List' = m_List \o s /\ Samples!NotifyThread /\ items' = items + 1
      /\ UNCHANGED << cfg, m_ppSamples, m_hr, m_bFlushing, m_bFlushed, m_evFlushComplete, locked, wpc, sending,
                      pSample, upc, cpc, m_bTerminate, live, sent, flushes >>
  BY <1>1 DEF Samples!SendAnyway, Samples!ctl, Samples!worker, Samples!flush, Samples!MayCall, Samples!QueueSamples
<1>3. Fresh(s) /\ (\A x \in In(s) : x.kind = "send") /\ SampleNumbers(In(s)) = {}
  BY <1>1, <1>2, OneFresh
<1>4. items' \in Nat /\ items <= items' /\ live' = live \cup SampleNumbers(In(s)) /\ m_bFlushed \in BOOLEAN
  BY <1>2, <1>3 DEF OutInv, OutTyped
<1> QED BY <1>2, <1>3, <1>4, QueuedKeeps

LEMMA QueueSegmentKeeps == ASSUME OutInv, Samples!QueueSegment PROVE OutInv'
<1>1. PICK s : s = <<Samples!Item("segment", items + 1), Samples!Item("packet", items + 1)>>
  OBVIOUS
<1>2. /\ cfg.queued /\ ~locked /\ upc = "segment" /\ upc' = "idle"
      /\ m_List' = m_List \o s /\ Samples!NotifyThread /\ items' = items + 1
      /\ UNCHANGED << cfg, m_ppSamples, m_hr, m_bFlushing, m_bFlushed, m_evFlushComplete, locked, wpc, sending,
                      pSample, cpc, m_bTerminate, live, sent, flushes >>
  BY <1>1 DEF Samples!QueueSegment, Samples!ctl, Samples!worker, Samples!flush, Samples!QueueSamples
<1>3. Fresh(s) /\ (\A x \in In(s) : x.kind \in {"segment", "packet"}) /\ SampleNumbers(In(s)) = {}
  BY <1>1, <1>2, SegmentFresh
<1>4. items' \in Nat /\ items <= items' /\ live' = live \cup SampleNumbers(In(s)) /\ m_bFlushed \in BOOLEAN
  BY <1>2, <1>3 DEF OutInv, OutTyped
<1> QED BY <1>2, <1>3, <1>4, QueuedKeeps

LEMMA ResetKeeps == ASSUME OutInv, Samples!Reset PROVE OutInv'
<1> USE DEF Samples!ctl, Samples!worker, Samples!flush, Samples!wake
<1>1. /\ cfg.resets /\ cpc = "idle" /\ ~locked
      /\ UNCHANGED << cfg, m_ppSamples, m_bFlushing, m_bFlushed, m_evFlushComplete, locked, wpc, sending, pSample,
                      upc, m_bTerminate, flushes, items, live, sent >>
      /\ IF cfg.queued
         THEN /\ m_List' = m_List \o <<Samples!Item("reset", 0)>> /\ Samples!NotifyThread
              /\ cpc' = "resetwait" /\ UNCHANGED m_hr
         ELSE m_hr' = "S_OK" /\ UNCHANGED << m_List, m_lWaiting, m_hSem, cpc >>
  BY DEF Samples!Reset, Samples!QueueSamples, Samples!Ok
<1>2. cfg.queued \in BOOLEAN /\ items \in Nat /\ flushes \in Nat /\ ~m_bFlushing
  BY <1>1 DEF OutInv, OutTyped, CallsInv, Samples!Configurations
<1>3. ~ResetListed /\ ~ResetTaken /\ ~m_evFlushComplete
  BY <1>1 DEF OutInv, ResetsInv
<1>4. CASE cfg.queued
  <2>1. PICK x : x = Samples!Item("reset", 0)
    OBVIOUS
  <2>2. PICK s : s = <<x>>
    OBVIOUS
  <2>3. x \in Things /\ x.kind = "reset" /\ x.n = 0
    BY <1>2, <2>1 DEF Samples!Item, Things
  <2>4. s \in Seq(Things) /\ In(s) = {x} /\ Rising(s) /\ Paired(s)
    BY <2>2, <2>3, OneIn
  <2>5. Fresh(s) /\ SampleNumbers(In(s)) = {}
    BY <2>3, <2>4 DEF Fresh, Real, SampleNumbers
  <2>6. m_List' = m_List \o s /\ Samples!NotifyThread /\ cpc' = "resetwait" /\ m_hr' = m_hr
    BY <1>1, <1>4, <2>1, <2>2
  <2>7. items' \in Nat /\ items <= items' /\ live' = live \cup SampleNumbers(In(s))
    BY <1>1, <1>2, <2>5
  <2>8. /\ ItemsInv' /\ m_List' \in Seq(Things) /\ In(m_List)' = In(m_List) \cup In(s)
    BY <1>1, <1>3, <1>4, <2>5, <2>6, <2>7, Queueing
  <2>9. /\ m_lWaiting' \in Nat /\ m_hSem' \in Nat
        /\ m_lWaiting' + m_hSem' = (IF wpc' = "wait" THEN 1 ELSE 0)
        /\ ~Asleep'
    BY <1>1, <2>6, Notifying
  <2>10. OutTyped'
    BY <1>1, <2>6, <2>8, <2>9 DEF OutInv, OutTyped
  <2>11. DirectInv' /\ PlacesInv' /\ CallsInv'
    BY <1>1, <1>2, <1>4, <2>6 DEF OutInv, OutTyped, DirectInv, PlacesInv, CallsInv
  <2>12. WaitingInv'
    BY <2>9 DEF WaitingInv
  <2>13. CleanInv'
    <3>1. Clean => Clean'
      BY <1>1, <2>3, <2>4, <2>8 DEF Clean
    <3> QED BY <1>1, <2>6, <3>1 DEF OutInv, CleanInv
  <2>14. ResetsInv'
    <3>1. ~ResetTaken' /\ wpc' # "resetdone"
      BY <1>1, <1>3 DEF ResetTaken
    <3> QED BY <1>1, <1>3, <2>6, <3>1 DEF ResetsInv
  <2> QED BY <2>8, <2>10, <2>11, <2>12, <2>13, <2>14 DEF OutInv, ItemsInv
<1>5. CASE ~cfg.queued
  <2>1. m_hr' = "S_OK" /\ UNCHANGED << m_List, m_lWaiting, m_hSem, cpc >>
    BY <1>1, <1>5
  <2>2. ItemsInv'
    <3>1. After(In(m_ppSamples))
      <4>1. CASE m_ppSamples = <<>>
        BY <4>1, NothingIn DEF After
      <4> QED BY <1>1, <1>5, <4>1 DEF OutInv, OutTyped, LastInv
    <3> QED BY <1>1, <2>1, <3>1, ItemsKept
  <2>3. OutTyped' /\ DirectInv' /\ PlacesInv' /\ CallsInv'
    BY <1>1, <1>2, <1>5, <2>1 DEF OutInv, OutTyped, DirectInv, PlacesInv, CallsInv
  <2>4. WaitingInv' /\ CleanInv' /\ ResetsInv'
    BY <1>1, <2>1 DEF OutInv, WaitingInv, Asleep, CleanInv, Clean, ResetsInv, ResetListed, ResetTaken
  <2> QED BY <2>2, <2>3, <2>4 DEF OutInv, ItemsInv
<1> QED BY <1>2, <1>4, <1>5

-----------------------------------------------------------------------------
(* The worker takes from the list. *)

LEMMA BelowParts ==
    /\ \A X, Y, X2, Y2 : Below(X, Y) /\ X2 \subseteq X /\ Y2 \subseteq Y => Below(X2, Y2)
    /\ \A X, Y, Z : Below(X, Z) /\ Below(Y, Z) => Below(X \cup Y, Z)
BY DEF Below

\* What it takes goes to its hand, to the batch or away; the rest stays.
LEMMA TakingKeeps ==
    ASSUME OutInv, wpc = "top", ~m_bTerminate, ~m_bFlushing, wpc' \in {"top", "send"},
           m_List' \in Seq(Things), m_ppSamples' \in Seq(Things), sending' \in Seq(Things), pSample' \in Things,
           locked' \in BOOLEAN, locked' => wpc' = "top",
           wpc' = "top" => sending' = <<>> /\ pSample'.kind = "none",
           Len(m_ppSamples') < cfg.batch,
           pSample'.kind = "none" \/ pSample' \in In(m_List),
           In(m_List') \subseteq In(m_List),
           In(m_ppSamples') \cup In(sending') \subseteq In(m_List) \cup In(m_ppSamples),
           KindsInv', OrderInv', AccountInv',
           UNCHANGED << cfg, m_hr, m_bFlushing, m_bFlushed, m_lWaiting, m_hSem, m_evFlushComplete, upc, cpc,
                        m_bTerminate, items, sent, flushes >>
    PROVE  OutInv'
<1>1. cfg.queued /\ cpc \notin {"flushed", "endwait", "endclear", "joining", "gone"}
  BY DEF OutInv, OutTyped, DirectInv, PlacesInv, CallsInv, Samples!Configurations
<1>2. Hand' \subseteq In(m_List)
  BY DEF Hand
<1>3. NumbersInv'
  <2>1. ASSUME NEW X, X \subseteq In(m_List) \cup In(m_ppSamples) PROVE Counted(X)
    BY <2>1 DEF OutInv, NumbersInv, Counted
  <2>2. Counted(In(m_List')) /\ Counted(In(m_ppSamples')) /\ Counted(In(sending')) /\ Counted(Hand')
    BY <1>2, <2>1
  <2> QED BY <2>2 DEF NumbersInv, Counted
<1>4. LastInv'
  <2>1. LastNumber' = LastNumber
    BY DEF LastNumber
  <2>2. ASSUME NEW X, X \subseteq In(m_List) \cup In(m_ppSamples) PROVE After(X)
    BY <1>1, <2>2 DEF OutInv, LastInv, After
  <2>3. After(In(m_List')) /\ After(In(m_ppSamples')) /\ After(In(sending')) /\ After(Hand')
    BY <1>2, <2>2
  <2> QED BY <1>1, <2>1, <2>3 DEF OutInv, LastInv, After
<1>5. OutTyped'
  BY DEF OutInv, OutTyped
<1>6. DirectInv' /\ PlacesInv' /\ CallsInv'
  BY <1>1 DEF OutInv, OutTyped, DirectInv, PlacesInv, CallsInv
<1>7. WaitingInv'
  BY DEF OutInv, OutTyped, WaitingInv, Asleep
<1>8. CleanInv'
  <2>1. ASSUME Clean PROVE Clean'
    <3>1. \A x \in In(m_List) \cup In(m_ppSamples) : x.kind \notin {"sample", "eos"}
      BY <2>1, NothingIn DEF Clean
    <3>2. In(m_ppSamples') = {} /\ In(sending') = {}
      BY <3>1 DEF KindsInv
    <3>3. \A s \in Seq(Things) : In(s) = {} => s = <<>>
      <4>1. ASSUME NEW s \in Seq(Things), s # <<>> PROVE In(s) # {}
        BY <4>1, FirstOf
      <4> QED BY <4>1
    <3> QED BY <3>1, <3>2, <3>3 DEF Clean
  <2> QED BY <1>1, <2>1 DEF OutInv, CleanInv
<1>9. ResetsInv'
  <2>1. (ResetListed' => ResetListed) /\ (ResetTaken' => ResetListed)
    BY DEF ResetListed, ResetTaken
  <2> QED BY <1>1, <2>1 DEF OutInv, ResetsInv
<1> QED BY <1>3, <1>4, <1>5, <1>6, <1>7, <1>8, <1>9 DEF OutInv

LEMMA CollectKeeps == ASSUME OutInv, Samples!Collect PROVE OutInv'
<1> DEFINE p == Head(m_List)
           rest == Tail(m_List)
<1>1. /\ wpc = "top" /\ ~m_bTerminate /\ ~m_bFlushing
      /\ UNCHANGED << cfg, m_hr, m_bFlushing, m_bFlushed, m_hSem, m_evFlushComplete, upc, cpc, m_bTerminate,
                      items, live, sent, flushes >>
  BY DEF Samples!Collect, Samples!flush, Samples!ctl
<1>2. /\ cfg.batch \in 1..2 /\ cfg.exact \in BOOLEAN /\ cfg.queued /\ (cfg.exact => cfg.batch > 1)
      /\ sending = <<>> /\ pSample.kind = "none" /\ Hand = {} /\ In(sending) = {}
      /\ m_List \in Seq(Things) /\ m_ppSamples \in Seq(Things) /\ pSample \in Things
  BY <1>1, NothingIn DEF OutInv, OutTyped, DirectInv, PlacesInv, Hand, Samples!Configurations
<1>3. ASSUME m_List # <<>>
      PROVE  /\ p \in Things /\ rest \in Seq(Things) /\ In(m_List) = {p} \cup In(rest)
             /\ Rising(rest) /\ Paired(rest) /\ p.kind # "none"
             /\ Below({p}, In(rest)) /\ Below(In(m_ppSamples), {p}) /\ Below(In(m_ppSamples), In(rest))
             /\ SampleNumbers(In(m_List)) = SampleNumbers({p}) \cup SampleNumbers(In(rest))
             /\ (p.kind = "sample" => SampleNumbers({p}) = {p.n}) /\ (p.kind # "sample" => SampleNumbers({p}) = {})
  <2>1. /\ p \in Things /\ rest \in Seq(Things) /\ In(m_List) = {p} \cup In(rest)
        /\ Rising(m_List) => Rising(rest) /\ Below({p}, In(rest))
        /\ Paired(m_List) => Paired(rest)
    BY <1>2, <1>3, FirstOf
  <2>2. Rising(m_List) /\ Paired(m_List) /\ Below(In(m_ppSamples), In(m_List)) /\ p.kind # "none"
    BY <2>1 DEF OutInv, OrderInv, KindsInv
  <2>3. Below(In(m_ppSamples), {p}) /\ Below(In(m_ppSamples), In(rest))
    BY <2>1, <2>2, BelowParts
  <2> HIDE DEF p, rest
  <2> QED BY <2>1, <2>2, <2>3, NumbersUnion DEF SampleNumbers
<1>4. /\ live = SampleNumbers(In(m_List)) \cup SampleNumbers(In(m_ppSamples))
      /\ Rising(m_List) /\ Rising(m_ppSamples) /\ Paired(m_List)
      /\ (\A x \in In(m_ppSamples) : x.kind = "sample") /\ (\A x \in In(m_List) : x.kind # "none")
      /\ Len(m_ppSamples) < cfg.batch /\ Len(m_ppSamples) \in Nat
  <2>1. live = SampleNumbers(In(m_List)) \cup SampleNumbers(In(m_ppSamples))
    BY <1>2, NothingIn DEF OutInv, AccountInv
  <2>2. /\ Rising(m_List) /\ Rising(m_ppSamples) /\ Paired(m_List)
        /\ (\A x \in In(m_ppSamples) : x.kind = "sample") /\ (\A x \in In(m_List) : x.kind # "none")
    BY DEF OutInv, OrderInv, KindsInv
  <2>3. Len(m_ppSamples) < cfg.batch /\ Len(m_ppSamples) \in Nat
    BY <1>2 DEF OutInv, PlacesInv
  <2> QED BY <2>1, <2>2, <2>3
<1>5. CASE /\ m_List # <<>> /\ p.kind = "sample" /\ m_List' = rest /\ m_lWaiting' = m_lWaiting
           /\ LET b == Append(m_ppSamples, p) IN
              IF Len(b) = cfg.batch
              THEN sending' = b /\ m_ppSamples' = <<>> /\ pSample' = p /\ wpc' = "send" /\ locked' = FALSE
              ELSE m_ppSamples' = b /\ locked' = TRUE /\ UNCHANGED << sending, pSample, wpc >>
  <2> HIDE DEF p, rest
  <2>1. PICK b : b = Append(m_ppSamples, p)
    OBVIOUS
  <2>2. /\ b \in Seq(Things) /\ Len(b) = Len(m_ppSamples) + 1 /\ In(b) = In(m_ppSamples) \cup {p} /\ Rising(b)
    BY <1>2, <1>3, <1>4, <1>5, <2>1, AppendedIn
  <2>3. SampleNumbers(In(b)) = SampleNumbers(In(m_ppSamples)) \cup {p.n} /\ Below(In(b), In(rest))
        /\ \A x \in In(b) : x.kind = "sample"
    <3>1. SampleNumbers(In(b)) = SampleNumbers(In(m_ppSamples)) \cup SampleNumbers({p})
      BY <2>2, NumbersUnion
    <3>2. Below(In(b), In(rest))
      BY <1>3, <1>5, <2>2, BelowParts
    <3>3. \A x \in In(b) : x.kind = "sample"
      BY <1>4, <1>5, <2>2
    <3> QED BY <1>3, <1>5, <3>1, <3>2, <3>3
  <2>4. CASE Len(b) = cfg.batch
    <3>1. sending' = b /\ m_ppSamples' = <<>> /\ pSample' = p /\ wpc' = "send" /\ locked' = FALSE /\ m_List' = rest
      BY <1>5, <2>1, <2>4
    <3>2. Hand' = {} /\ In(m_ppSamples') = {} /\ Len(m_ppSamples') < cfg.batch
      BY <1>2, <1>5, <3>1, NothingIn DEF Hand
    <3>3. KindsInv' /\ OrderInv'
      <4>1. \A x \in In(rest) : x.kind # "none"
        BY <1>3, <1>4, <1>5
      <4>2. KindsInv'
        BY <1>3, <1>5, <2>3, <3>1, <3>2, <4>1 DEF KindsInv
      <4>3. OrderInv'
        BY <1>3, <1>5, <2>2, <2>3, <3>1, <3>2, NothingIn DEF OrderInv
      <4> QED BY <4>2, <4>3
    <3>4. AccountInv'
      BY <1>1, <1>3, <1>4, <1>5, <2>3, <3>1, <3>2, NothingIn DEF AccountInv
    <3>5. In(m_List') \subseteq In(m_List) /\ In(m_ppSamples') \cup In(sending') \subseteq In(m_List) \cup In(m_ppSamples)
          /\ pSample' \in In(m_List) /\ pSample' \in Things /\ sending' \in Seq(Things) /\ m_List' \in Seq(Things)
      BY <1>3, <1>5, <2>2, <3>1, <3>2
    <3> QED BY <1>1, <1>5, <3>1, <3>2, <3>3, <3>4, <3>5, NothingIn, TakingKeeps
  <2>5. CASE Len(b) # cfg.batch
    <3>1. m_ppSamples' = b /\ locked' = TRUE /\ UNCHANGED << sending, pSample, wpc >> /\ m_List' = rest
      BY <1>5, <2>1, <2>5
    <3>2. Hand' = {} /\ In(sending') = {} /\ Len(m_ppSamples') < cfg.batch
      BY <1>2, <1>4, <2>2, <2>5, <3>1 DEF Hand
    <3>3. KindsInv' /\ OrderInv'
      BY <1>2, <1>3, <1>4, <1>5, <2>2, <2>3, <3>1, <3>2, NothingIn DEF KindsInv, OrderInv
    <3>4. AccountInv'
      BY <1>1, <1>3, <1>4, <1>5, <2>3, <3>1, <3>2, NothingIn DEF AccountInv
    <3>5. In(m_List') \subseteq In(m_List) /\ In(m_ppSamples') \cup In(sending') \subseteq In(m_List) \cup In(m_ppSamples)
          /\ m_List' \in Seq(Things)
      BY <1>3, <1>5, <2>2, <3>1, <3>2
    <3> QED BY <1>1, <1>2, <1>5, <2>2, <3>1, <3>2, <3>3, <3>4, <3>5, NothingIn, TakingKeeps
  <2> QED BY <2>4, <2>5
<1>6. CASE /\ m_List # <<>> /\ p.kind = "send" /\ m_List' = rest /\ locked' = TRUE
           /\ UNCHANGED << m_lWaiting, m_ppSamples, wpc, sending, pSample >>
  <2> HIDE DEF p, rest
  <2>1. Hand' = {} /\ In(sending') = {} /\ In(m_ppSamples') = In(m_ppSamples)
    BY <1>2, <1>6 DEF Hand
  <2>2. KindsInv' /\ OrderInv'
    BY <1>2, <1>3, <1>4, <1>6, <2>1, NothingIn DEF KindsInv, OrderInv
  <2>3. AccountInv'
    BY <1>1, <1>3, <1>4, <1>6, <2>1, NothingIn DEF AccountInv
  <2> QED BY <1>1, <1>2, <1>3, <1>4, <1>6, <2>1, <2>2, <2>3, NothingIn, TakingKeeps
<1>7. ASSUME NEW list, list \in Seq(Things), Rising(list), Paired(list), In(list) \subseteq In(m_List),
             NEW x \in Things, x.kind # "packet",
             x.kind = "none" \/ (x \in In(m_List) /\ Below({x}, In(list)) /\ Below(In(m_ppSamples), {x})),
             SampleNumbers(In(list)) = SampleNumbers(In(m_List)), m_lWaiting' = m_lWaiting,
             Samples!Leave(x, list)
      PROVE  OutInv'
  <2>1. /\ m_List' = list /\ pSample' = x /\ sending' = m_ppSamples /\ m_ppSamples' = <<>>
        /\ wpc' = "send" /\ locked' = FALSE
    BY <1>7 DEF Samples!Leave
  <2>2. (Hand' = {x} \/ Hand' = {}) /\ (x.kind = "none" => Hand' = {}) /\ In(m_ppSamples') = {}
        /\ Len(m_ppSamples') < cfg.batch
    BY <1>2, <2>1, NothingIn DEF Hand
  <2>3. Below(In(m_ppSamples), In(list))
    BY <1>7, BelowParts DEF OutInv, OrderInv
  <2>4. KindsInv'
    BY <1>4, <1>7, <2>1, <2>2 DEF KindsInv
  <2>5. OrderInv'
    BY <1>4, <1>7, <2>1, <2>2, <2>3, NothingIn DEF OrderInv
  <2>6. AccountInv'
    BY <1>1, <1>4, <1>7, <2>1, <2>2, NothingIn DEF AccountInv
  <2> QED BY <1>1, <1>2, <1>7, <2>1, <2>2, <2>4, <2>5, <2>6, NothingIn, TakingKeeps
<1>8. CASE /\ m_List # <<>> /\ p.kind \in {"eos", "reset", "send"} /\ m_lWaiting' = m_lWaiting
           /\ Samples!Leave(p, rest)
  <2> HIDE DEF p, rest
  <2> QED BY <1>3, <1>7, <1>8
<1>9. CASE m_List # <<>> /\ p.kind = "segment" /\ m_lWaiting' = m_lWaiting /\ Samples!Leave(p, Tail(rest))
  <2>1. rest # <<>> /\ Head(rest).kind = "packet"
    BY <1>2, <1>4, <1>9, FirstOf
  <2> HIDE DEF p, rest
  <2>2. /\ Tail(rest) \in Seq(Things) /\ In(rest) = {Head(rest)} \cup In(Tail(rest))
        /\ Rising(Tail(rest)) /\ Paired(Tail(rest))
    BY <1>3, <1>9, <2>1, FirstOf
  <2>3. SampleNumbers({Head(rest)}) = {}
    BY <2>1 DEF SampleNumbers
  <2>4. SampleNumbers(In(Tail(rest))) = SampleNumbers(In(m_List))
    <3>1. SampleNumbers(In(m_List)) = SampleNumbers(In(rest))
      BY <1>3, <1>9
    <3>2. SampleNumbers(In(rest)) = SampleNumbers({Head(rest)}) \cup SampleNumbers(In(Tail(rest)))
      BY <2>2, NumbersUnion
    <3> QED BY <2>3, <3>1, <3>2
  <2>5. Below({p}, In(Tail(rest))) /\ In(Tail(rest)) \subseteq In(m_List) /\ p \in In(m_List)
    BY <1>3, <1>9, <2>2, BelowParts
  <2> QED BY <1>3, <1>7, <1>9, <2>2, <2>4, <2>5
<1>10. CASE m_List = <<>> /\ m_lWaiting' = m_lWaiting /\ Samples!Leave(Samples!NoItem, <<>>)
  <2>1. Samples!NoItem \in Things /\ Samples!NoItem.kind = "none"
    BY DEF Samples!NoItem, Things
  <2> QED BY <1>7, <1>10, <2>1, NothingIn
<1>11. CASE /\ m_List = <<>> /\ (cfg.exact \/ m_ppSamples = <<>>)
            /\ m_lWaiting' = m_lWaiting + 1 /\ wpc' = "wait" /\ locked' = FALSE
            /\ UNCHANGED << m_List, m_ppSamples, sending, pSample >>
  <2>1. m_lWaiting = 0 /\ m_hSem = 0
    <3>1. m_lWaiting \in Nat /\ m_hSem \in Nat /\ m_lWaiting + m_hSem = 0
      BY <1>1 DEF OutInv, OutTyped, WaitingInv
    <3> QED BY <3>1
  <2>2. m_lWaiting' = 1 /\ m_hSem' = 0 /\ m_lWaiting' + m_hSem' = 1 /\ m_lWaiting' \in Nat
    <3>1. 1 + 0 = 1 /\ 0 + 1 = 1
      OBVIOUS
    <3> QED BY <1>1, <1>11, <2>1, <3>1
  <2>3. ItemsInv'
    <3>1. After(In(m_ppSamples))
      BY <1>2 DEF OutInv, LastInv
    <3> QED BY <1>1, <1>2, <1>11, <3>1, ItemsKept
  <2>4. cpc \notin {"flushed", "endwait", "endclear", "joining", "gone"}
    BY <1>1 DEF OutInv, PlacesInv, CallsInv
  <2>5. OutTyped'
    BY <1>1, <1>11, <2>2 DEF OutInv, OutTyped
  <2>6. DirectInv' /\ PlacesInv' /\ CallsInv'
    BY <1>1, <1>2, <1>11, <2>4 DEF OutInv, OutTyped, DirectInv, PlacesInv, CallsInv
  <2>7. WaitingInv'
    <3>1. In(m_List') = {} /\ Len(m_List') = 0 /\ Len(m_ppSamples) < IF cfg.exact THEN cfg.batch ELSE 1
      BY <1>2, <1>4, <1>11, NothingIn
    <3>2. Len(m_ppSamples') + Len(m_List') < IF cfg.exact' THEN cfg.batch' ELSE 1
      <4>1. Len(m_ppSamples') + Len(m_List') = Len(m_ppSamples) + 0 /\ Len(m_ppSamples) + 0 = Len(m_ppSamples)
        BY <1>4, <1>11, <3>1
      <4> QED BY <1>1, <3>1, <4>1
    <3> QED BY <1>1, <1>11, <2>2, <2>4, <3>1, <3>2 DEF WaitingInv
  <2>8. CleanInv'
    BY <1>1, <1>11 DEF OutInv, CleanInv, Clean
  <2>9. ResetsInv'
    BY <1>1, <1>11, <2>4 DEF OutInv, ResetsInv, ResetListed, ResetTaken
  <2> QED BY <2>3, <2>5, <2>6, <2>7, <2>8, <2>9 DEF OutInv, ItemsInv
<1>12. \/ /\ m_List # <<>> /\ p.kind = "sample" /\ m_List' = rest /\ m_lWaiting' = m_lWaiting
          /\ LET b == Append(m_ppSamples, p) IN
             IF Len(b) = cfg.batch
             THEN sending' = b /\ m_ppSamples' = <<>> /\ pSample' = p /\ wpc' = "send" /\ locked' = FALSE
             ELSE m_ppSamples' = b /\ locked' = TRUE /\ UNCHANGED << sending, pSample, wpc >>
       \/ /\ m_List # <<>> /\ p.kind = "send" /\ m_List' = rest /\ locked' = TRUE
          /\ UNCHANGED << m_lWaiting, m_ppSamples, wpc, sending, pSample >>
       \/ /\ m_List # <<>> /\ p.kind \in {"eos", "reset", "send"} /\ m_lWaiting' = m_lWaiting
          /\ Samples!Leave(p, rest)
       \/ m_List # <<>> /\ p.kind = "segment" /\ m_lWaiting' = m_lWaiting /\ Samples!Leave(p, Tail(rest))
       \/ m_List = <<>> /\ m_lWaiting' = m_lWaiting /\ Samples!Leave(Samples!NoItem, <<>>)
       \/ /\ m_List = <<>> /\ (cfg.exact \/ m_ppSamples = <<>>)
          /\ m_lWaiting' = m_lWaiting + 1 /\ wpc' = "wait" /\ locked' = FALSE
          /\ UNCHANGED << m_List, m_ppSamples, sending, pSample >>
  BY DEF Samples!Collect, Samples!NextBatch, Samples!queue, Samples!worker
<1> QED BY <1>5, <1>6, <1>8, <1>9, <1>10, <1>11, <1>12

-----------------------------------------------------------------------------
(* Without a worker. *)

LEMMA LastIn == ASSUME NEW s \in Seq(Things), s # <<>> PROVE s[Len(s)] \in In(s)
<1>1. Len(s) \in DOMAIN s
  OBVIOUS
<1> QED BY <1>1 DEF In

\* A step that sends s downstream.
LEMMA SendsInOrder ==
    ASSUME OutInv, NEW s \in Seq(Things), Rising(s),
           \A x \in In(s) : Real(x) /\ LastNumber < x.n /\ (x.flushes = flushes \/ x.kind = "segment"),
           sent' = s, s # <<>>, flushes' = flushes
    PROVE  Samples!DeliversInOrder
<1>1. /\ Len(s) \in Nat /\ DOMAIN s = 1..Len(s) /\ 1 \in DOMAIN s /\ Head(s) = s[1]
  BY HeadTailProperties
<1>2. ASSUME NEW i \in 1..Len(s) - 1 PROVE s[i].n < s[i + 1].n
  <2>1. i \in DOMAIN s /\ i + 1 \in DOMAIN s /\ i < i + 1
    BY <1>1
  <2>2. Precedes(s[i], s[i + 1])
    BY <2>1 DEF Rising
  <2>3. Real(s[i]) /\ Real(s[i + 1])
    BY <2>1 DEF In
  <2> QED BY <2>2, <2>3 DEF Precedes
<1>3. ASSUME sent # <<>> PROVE Samples!Last(sent).n < Head(s).n
  <2>1. LastNumber = Samples!Last(sent).n
    BY <1>3 DEF LastNumber, Samples!Last
  <2>2. LastNumber < s[1].n
    BY <1>1 DEF In
  <2> QED BY <1>1, <2>1, <2>2
<1>4. \A i \in DOMAIN s : s[i].flushes = flushes \/ s[i].kind = "segment"
  BY DEF In
<1> QED BY <1>2, <1>3, <1>4 DEF Samples!DeliversInOrder

\* A call that leaves the batch or sends it.
LEMMA DirectKeeps ==
    ASSUME OutInv, ~cfg.queued, items' = items + 1, upc' = "idle",
           upc = "idle" => cpc \in {"idle", "flushed", "resetwait"},
           m_ppSamples' \in {m_ppSamples, <<>>} \/ (m_hr = "S_OK" /\ ~m_bFlushed'),
           m_ppSamples' \in Seq(Things), Rising(m_ppSamples'), Len(m_ppSamples') < cfg.batch,
           \A x \in In(m_ppSamples') : x.kind = "sample" /\ x.flushes = flushes /\ x.n \in 1..items',
           m_hr' = "S_OK" => \A x \in In(m_ppSamples') : LastNumber' < x.n,
           live' = SampleNumbers(In(m_ppSamples')), sent' \in Seq(Things), LastNumber' \in 0..items',
           m_hr' \in {"S_OK", "S_FALSE"}, m_hr = "S_FALSE" => m_hr' = m_hr /\ m_ppSamples' = m_ppSamples,
           m_hr = "S_OK" /\ m_hr' = "S_FALSE" => m_ppSamples' = <<>>,
           m_bFlushed' \in BOOLEAN, m_bFlushed' => m_bFlushed,
           UNCHANGED << cfg, m_List, m_bFlushing, m_lWaiting, m_hSem, m_evFlushComplete, locked, wpc, sending,
                        pSample, cpc, m_bTerminate, flushes >>
    PROVE  OutInv'
<1>1. /\ m_List = <<>> /\ sending = <<>> /\ pSample.kind = "none" /\ Hand = {} /\ wpc = "gone" /\ ~m_evFlushComplete
      /\ Hand' = {} /\ In(m_List)' = {} /\ In(sending)' = {} /\ items' \in Nat /\ m_hr \in {"S_OK", "S_FALSE"}
  BY NothingIn DEF OutInv, OutTyped, DirectInv, Hand
<1>2. cpc \in {"idle", "flushed", "resetwait"}
  BY DEF OutInv, OutTyped, CallsInv
<1>3. cpc = "flushed" => m_hr = "S_FALSE"
  BY DEF OutInv, CallsInv
<1>4. OutTyped'
  BY <1>1 DEF OutInv, OutTyped
<1>5. KindsInv' /\ AccountInv'
  BY <1>1, NothingIn DEF OutInv, KindsInv, AccountInv
<1>6. OrderInv' /\ NumbersInv'
  BY <1>1, NothingIn DEF OutInv, OrderInv, NumbersInv, Counted
<1>7. LastInv'
  BY <1>1, <1>2, <1>3 DEF OutInv, LastInv, After
<1>8. DirectInv' /\ PlacesInv' /\ CallsInv'
  BY <1>1, <1>2, <1>3 DEF OutInv, OutTyped, DirectInv, PlacesInv, CallsInv
<1>9. WaitingInv' /\ ResetsInv'
  BY <1>1, <1>2 DEF OutInv, WaitingInv, Asleep, ResetsInv, ResetListed, ResetTaken
<1>10. CleanInv'
  BY <1>1, <1>2 DEF OutInv, CleanInv, Clean
<1> QED BY <1>4, <1>5, <1>6, <1>7, <1>8, <1>9, <1>10 DEF OutInv

LEMMA DirectFacts ==
    ASSUME OutInv, ~cfg.queued
    PROVE  /\ m_ppSamples \in Seq(Things) /\ Rising(m_ppSamples) /\ Len(m_ppSamples) < cfg.batch
           /\ \A x \in In(m_ppSamples) : x.kind = "sample" /\ x.flushes = flushes /\ x.n \in 1..items
           /\ live = SampleNumbers(In(m_ppSamples)) /\ LastNumber \in 0..items
           /\ (m_hr = "S_OK" => \A x \in In(m_ppSamples) : LastNumber < x.n)
           /\ items \in Nat /\ flushes \in Nat /\ items + 1 \in Nat
           /\ (\A i \in 1..items : i \in 1..items + 1) /\ (\A i \in 0..items : i \in 0..items + 1)
           /\ (\A i \in 0..items : i < items + 1)
           /\ m_hr \in {"S_OK", "S_FALSE"} /\ m_bFlushed \in BOOLEAN /\ cfg.exact \in BOOLEAN /\ cfg.batch \in 1..2
           /\ (cfg.exact \/ cfg.batch = 1) /\ sent \in Seq(Things)
<1>1. items \in Nat
  BY DEF OutInv, OutTyped
<1>2. (\A i \in 1..items : i \in 1..items + 1) /\ (\A i \in 0..items : i \in 0..items + 1)
      /\ (\A i \in 0..items : i < items + 1) /\ items + 1 \in Nat
  BY <1>1
<1>3. live = SampleNumbers(In(m_ppSamples))
  BY NothingIn DEF OutInv, DirectInv, AccountInv
<1>4. /\ \A x \in In(m_ppSamples) : x.kind = "sample" /\ x.flushes = flushes /\ x.n \in 1..items
      /\ LastNumber \in 0..items /\ (m_hr = "S_OK" => \A x \in In(m_ppSamples) : LastNumber < x.n)
  BY DEF OutInv, KindsInv, NumbersInv, Counted, LastInv, After, Real
<1>5. /\ m_ppSamples \in Seq(Things) /\ Rising(m_ppSamples) /\ Len(m_ppSamples) < cfg.batch
      /\ flushes \in Nat /\ m_hr \in {"S_OK", "S_FALSE"} /\ m_bFlushed \in BOOLEAN
      /\ cfg.exact \in BOOLEAN /\ cfg.batch \in 1..2 /\ (cfg.exact \/ cfg.batch = 1) /\ sent \in Seq(Things)
  BY DEF OutInv, OutTyped, OrderInv, PlacesInv, Samples!Configurations
<1> QED BY <1>1, <1>2, <1>3, <1>4, <1>5

LEMMA DirectReceiveKeeps == ASSUME OutInv, Samples!DirectReceive PROVE OutInv' /\ Samples!DeliversInOrder
<1>1. PICK s, b : s = Samples!Samples(items, 1) /\ b = m_ppSamples \o s
  OBVIOUS
<1>2. /\ ~cfg.queued /\ upc = "idle" /\ upc' = "idle" /\ cpc \in {"idle", "flushed", "resetwait"}
      /\ items' = items + 1
      /\ UNCHANGED << cfg, m_List, m_bFlushing, m_lWaiting, m_hSem, m_evFlushComplete, locked, wpc, sending,
                      pSample, cpc, m_bTerminate, flushes >>
      /\ \/ /\ m_hr # "S_OK"
            /\ UNCHANGED << m_ppSamples, m_bFlushed, m_hr, live, sent >>
         \/ /\ m_hr = "S_OK" /\ Len(b) < cfg.batch
            /\ m_bFlushed' = FALSE /\ m_ppSamples' = b /\ live' = live \cup {items + 1}
            /\ UNCHANGED << m_hr, sent >>
         \/ /\ m_hr = "S_OK" /\ Len(b) = cfg.batch
            /\ m_bFlushed' = FALSE /\ m_ppSamples' = <<>> /\ live' = live \ SampleNumbers(In(b))
            /\ sent' = b /\ m_hr' \in {"S_OK", "S_FALSE"}
  BY <1>1, NumbersAre DEF Samples!DirectReceive, Samples!MayCall, Samples!wake, Samples!worker, Samples!ctl,
        Samples!Ok, Samples!Bad
<1>3. /\ m_ppSamples \in Seq(Things) /\ Rising(m_ppSamples) /\ Len(m_ppSamples) < cfg.batch
      /\ \A x \in In(m_ppSamples) : x.kind = "sample" /\ x.flushes = flushes /\ x.n \in 1..items
      /\ live = SampleNumbers(In(m_ppSamples)) /\ LastNumber \in 0..items
      /\ (m_hr = "S_OK" => \A x \in In(m_ppSamples) : LastNumber < x.n)
      /\ items \in Nat /\ flushes \in Nat /\ items + 1 \in Nat
      /\ (\A i \in 1..items : i \in 1..items + 1) /\ (\A i \in 0..items : i \in 0..items + 1)
      /\ (\A i \in 0..items : i < items + 1)
      /\ m_hr \in {"S_OK", "S_FALSE"} /\ m_bFlushed \in BOOLEAN /\ cfg.batch \in 1..2 /\ sent \in Seq(Things)
  BY <1>2, DirectFacts
<1>4. /\ s \in Seq(Things) /\ Rising(s) /\ Len(s) = 1
      /\ \A x \in In(s) : x.kind = "sample" /\ x.n \in items + 1..items + 1 /\ x.flushes = flushes
      /\ SampleNumbers(In(s)) = items + 1..items + 1
  <2>1. PICK k \in Nat : k = 1
    OBVIOUS
  <2>2. s = Samples!Samples(items, k)
    BY <1>1, <2>1
  <2>3. /\ s \in Seq(Things) /\ Len(s) = k /\ Rising(s)
        /\ \A x \in In(s) : x.kind = "sample" /\ x.n \in items + 1..items + k /\ x.flushes = flushes
        /\ SampleNumbers(In(s)) = items + 1..items + k
    BY SMTT(40), <1>3, <2>2, CallOf
  <2> QED BY <2>1, <2>3
<1>5. \A x \in In(s) : x.n = items + 1 /\ LastNumber < x.n /\ x.n \in 1..items + 1
  BY <1>3, <1>4
<1>6. Below(In(m_ppSamples), In(s))
  <2>1. \A x \in In(m_ppSamples), y \in In(s) : x.n < y.n
    BY <1>3, <1>5
  <2> QED BY <1>3, <1>4, <2>1 DEF Below, Precedes
<1>7. b \in Seq(Things) /\ Rising(b) /\ In(b) = In(m_ppSamples) \cup In(s) /\ Len(b) = Len(m_ppSamples) + 1
  BY <1>1, <1>3, <1>4, <1>6, JoinedIn
<1>8. SampleNumbers(In(b)) = live \cup {items + 1}
  <2>1. items + 1..items + 1 = {items + 1}
    BY <1>3
  <2>2. SampleNumbers(In(b)) = SampleNumbers(In(m_ppSamples)) \cup SampleNumbers(In(s))
    BY <1>7, NumbersUnion
  <2> QED BY <1>3, <1>4, <2>1, <2>2
<1>9. \A x \in In(b) : x.kind = "sample" /\ x.flushes = flushes /\ x.n \in 1..items + 1
  BY <1>3, <1>4, <1>5, <1>7
<1>10. CASE m_hr # "S_OK" /\ UNCHANGED << m_ppSamples, m_bFlushed, m_hr, live, sent >>
  <2>1. LastNumber' = LastNumber
    BY <1>10 DEF LastNumber
  <2>2. Samples!DeliversInOrder
    BY <1>10 DEF Samples!DeliversInOrder
  <2> QED BY <1>2, <1>3, <1>10, <2>1, <2>2, DirectKeeps
<1>11. CASE /\ m_hr = "S_OK" /\ Len(b) < cfg.batch
            /\ m_bFlushed' = FALSE /\ m_ppSamples' = b /\ live' = live \cup {items + 1}
            /\ UNCHANGED << m_hr, sent >>
  <2>1. LastNumber' = LastNumber
    BY <1>11 DEF LastNumber
  <2>2. \A x \in In(b) : LastNumber < x.n
    BY <1>3, <1>5, <1>7, <1>11
  <2>3. Samples!DeliversInOrder
    BY <1>11 DEF Samples!DeliversInOrder
  <2> QED BY <1>2, <1>3, <1>7, <1>8, <1>9, <1>11, <2>1, <2>2, <2>3, DirectKeeps
<1>12. CASE /\ m_hr = "S_OK" /\ Len(b) = cfg.batch
            /\ m_bFlushed' = FALSE /\ m_ppSamples' = <<>> /\ live' = live \ SampleNumbers(In(b))
            /\ sent' = b /\ m_hr' \in {"S_OK", "S_FALSE"}
  <2>1. b # <<>> /\ Len(<<>>) = 0
    BY <1>3, <1>12
  <2>2. LastNumber' \in 0..items'
    <3>1. LastNumber' = b[Len(b)].n
      BY <1>12, <2>1 DEF LastNumber
    <3>2. b[Len(b)].n \in 1..items + 1
      BY <1>7, <1>9, <2>1, LastIn
    <3> QED BY <1>2, <3>1, <3>2
  <2>3. live' = SampleNumbers(In(m_ppSamples'))
    BY <1>8, <1>12, NothingIn
  <2>4. 0 < cfg.batch
    BY <1>3
  <2>5. OutInv'
    BY <1>2, <1>3, <1>7, <1>12, <2>1, <2>2, <2>3, <2>4, NothingIn, DirectKeeps
  <2>6. Samples!DeliversInOrder
    <3>1. \A x \in In(b) : Real(x) /\ LastNumber < x.n /\ x.flushes = flushes
      BY <1>3, <1>5, <1>7, <1>9, <1>12 DEF Real
    <3> QED BY <1>2, <1>7, <1>12, <2>1, <3>1, SendsInOrder
  <2> QED BY <2>5, <2>6
<1> QED BY <1>2, <1>10, <1>11, <1>12

LEMMA DirectSpecialKeeps == ASSUME OutInv, Samples!DirectSpecial PROVE OutInv' /\ Samples!DeliversInOrder
<1>1. PICK b : b = IF m_hr = "S_OK" /\ cfg.exact THEN m_ppSamples ELSE <<>>
  OBVIOUS
<1>2. /\ ~cfg.queued /\ upc' = "idle" /\ items' = items + 1
      /\ UNCHANGED << cfg, m_List, m_bFlushing, m_lWaiting, m_hSem, m_evFlushComplete, locked, wpc, sending,
                      pSample, cpc, m_bTerminate, flushes >>
  BY DEF Samples!DirectSpecial, Samples!wake, Samples!worker, Samples!ctl
<1>3. PICK hr \in (IF b = <<>> THEN {m_hr} ELSE {"S_OK", "S_FALSE"}), kind \in {"send", "eos", "segment"} :
       LET last == IF kind = "segment" \/ (kind = "eos" /\ hr = "S_OK") THEN <<Samples!Item(kind, items + 1)>> ELSE <<>> IN
         /\ IF kind = "segment" THEN upc = "segment" ELSE Samples!MayCall
         /\ m_hr' = hr /\ live' = live \ Samples!Numbers(b)
         /\ m_ppSamples' = IF b = <<>> THEN m_ppSamples ELSE <<>>
         /\ m_bFlushed' = (m_bFlushed /\ ~(m_hr = "S_OK" /\ (cfg.exact \/ kind = "eos")))
         /\ sent' = IF b \o last = <<>> THEN sent ELSE b \o last
  BY ZenonT(60), <1>1 DEF Samples!DirectSpecial, Samples!Ok, Samples!Bad
<1> DEFINE last == IF kind = "segment" \/ (kind = "eos" /\ hr = "S_OK") THEN <<Samples!Item(kind, items + 1)>> ELSE <<>>
<1>4. upc = "idle" => cpc \in {"idle", "flushed", "resetwait"}
  BY <1>3 DEF Samples!MayCall
<1>5. /\ m_ppSamples \in Seq(Things) /\ Rising(m_ppSamples) /\ Len(m_ppSamples) < cfg.batch
      /\ \A x \in In(m_ppSamples) : x.kind = "sample" /\ x.flushes = flushes /\ x.n \in 1..items
      /\ live = SampleNumbers(In(m_ppSamples)) /\ LastNumber \in 0..items
      /\ (m_hr = "S_OK" => \A x \in In(m_ppSamples) : LastNumber < x.n)
      /\ items \in Nat /\ flushes \in Nat /\ items + 1 \in Nat
      /\ (\A i \in 1..items : i \in 1..items + 1) /\ (\A i \in 0..items : i \in 0..items + 1)
      /\ (\A i \in 0..items : i < items + 1)
      /\ m_hr \in {"S_OK", "S_FALSE"} /\ m_bFlushed \in BOOLEAN /\ cfg.exact \in BOOLEAN /\ cfg.batch \in 1..2
      /\ (cfg.exact \/ cfg.batch = 1) /\ sent \in Seq(Things)
  BY <1>2, DirectFacts
<1>6. m_ppSamples = <<>> \/ b = m_ppSamples \/ m_hr = "S_FALSE"
  <2>1. Len(m_ppSamples) = 0 => m_ppSamples = <<>>
    BY <1>5
  <2>2. ~cfg.exact => Len(m_ppSamples) = 0
    BY <1>5
  <2> QED BY <1>1, <1>5, <2>1, <2>2
<1>7. /\ b \in Seq(Things) /\ In(b) \subseteq In(m_ppSamples) /\ (b = <<>> \/ b = m_ppSamples)
      /\ \A x \in In(b) : x.n \in 0..items + 1
  <2>1. b = <<>> \/ b = m_ppSamples
    BY <1>1
  <2>2. \A i \in 1..items : i \in 0..items + 1
    BY <1>5
  <2> QED BY <1>5, <2>1, <2>2, NothingIn
<1>8. last \in Seq(Things) /\ \A x \in In(last) : x.n \in 0..items + 1
  <2>1. Samples!Item(kind, items + 1) \in Things /\ Samples!Item(kind, items + 1).n = items + 1
    BY <1>5 DEF Samples!Item, Things
  <2>2. items + 1 \in 0..items + 1
    BY <1>5
  <2>3. PICK x : x = Samples!Item(kind, items + 1)
    OBVIOUS
  <2>4. <<x>> \in Seq(Things) /\ In(<<x>>) = {x}
    BY <2>1, <2>3, OneIn
  <2>5. last = <<x>> \/ last = <<>>
    BY <1>3, <2>3
  <2> QED BY <2>1, <2>2, <2>3, <2>4, <2>5, NothingIn
<1>9. sent' \in Seq(Things) /\ LastNumber' \in 0..items'
  <2>1. b \o last \in Seq(Things) /\ \A x \in In(b \o last) : x.n \in 0..items + 1
    BY <1>7, <1>8, JoinedIn
  <2>2. CASE b \o last = <<>>
    <3>1. sent' = sent
      BY <1>3, <2>2
    <3>2. LastNumber' = LastNumber
      BY <3>1 DEF LastNumber
    <3> QED BY <1>2, <1>5, <3>1, <3>2
  <2>3. CASE b \o last # <<>>
    <3>1. PICK r : r = b \o last
      OBVIOUS
    <3>2. sent' = r /\ r # <<>> /\ r \in Seq(Things) /\ \A x \in In(r) : x.n \in 0..items + 1
      BY <1>3, <2>1, <2>3, <3>1
    <3>3. LastNumber' = r[Len(r)].n
      BY <3>2 DEF LastNumber
    <3> QED BY <1>2, <3>2, <3>3, LastIn
  <2> QED BY <2>2, <2>3
<1>10. /\ m_ppSamples' \in {m_ppSamples, <<>>} /\ m_ppSamples' \in Seq(Things)
       /\ Rising(m_ppSamples') /\ Len(m_ppSamples') < cfg.batch
       /\ \A x \in In(m_ppSamples') : x.kind = "sample" /\ x.flushes = flushes /\ x.n \in 1..items'
  <2>1. m_ppSamples' = m_ppSamples \/ m_ppSamples' = <<>>
    BY <1>3
  <2>2. Len(<<>>) < cfg.batch
    BY <1>5
  <2> QED BY <1>2, <1>5, <2>1, <2>2, NothingIn
<1>11. live' = SampleNumbers(In(m_ppSamples'))
  <2>1. live' = live \ SampleNumbers(In(b))
    BY <1>3, NumbersAre
  <2>2. CASE b = <<>>
    BY <1>3, <1>5, <2>1, <2>2, NothingIn
  <2>3. CASE b # <<>>
    BY <1>3, <1>5, <1>7, <2>1, <2>3, NothingIn
  <2> QED BY <2>2, <2>3
<1>12. /\ m_hr' \in {"S_OK", "S_FALSE"} /\ (m_hr = "S_FALSE" => m_hr' = m_hr /\ m_ppSamples' = m_ppSamples)
       /\ (m_hr = "S_OK" => m_ppSamples' = <<>>)
  BY <1>1, <1>3, <1>5, <1>6
<1>13. m_hr' = "S_OK" => \A x \in In(m_ppSamples') : LastNumber' < x.n
  BY <1>5, <1>12, NothingIn
<1>14. m_bFlushed' \in BOOLEAN /\ (m_bFlushed' => m_bFlushed)
  BY <1>3
<1>15. OutInv'
  BY <1>2, <1>4, <1>9, <1>10, <1>11, <1>12, <1>13, <1>14, DirectKeeps
<1>16. Samples!DeliversInOrder
  <2>1. PICK r, z : r = b \o z /\ z = last
    OBVIOUS
  <2>2. CASE r = <<>>
    <3>1. sent' = sent
      BY <1>3, <2>1, <2>2
    <3> QED BY <3>1 DEF Samples!DeliversInOrder
  <2>3. CASE r # <<>>
    <3>1. sent' = r
      BY <1>3, <2>1, <2>3
    <3>2. \A x \in In(z) : Real(x) /\ x.n = items + 1 /\ x.flushes = flushes
      <4>1. PICK x : x = Samples!Item(kind, items + 1)
        OBVIOUS
      <4>2. x \in Things /\ x.kind = kind /\ x.n = items + 1 /\ x.flushes = flushes
        BY <1>5, <4>1 DEF Samples!Item, Things
      <4>3. z = <<>> \/ (z = <<x>> /\ kind # "send")
        BY <2>1, <4>1
      <4>4. In(<<x>>) = {x}
        BY <4>2, OneIn
      <4> QED BY <4>2, <4>3, <4>4, NothingIn DEF Real
    <3>3. Rising(z) /\ z \in Seq(Things)
      <4>1. PICK x : x = Samples!Item(kind, items + 1)
        OBVIOUS
      <4>2. x \in Things
        BY <1>5, <4>1 DEF Samples!Item, Things
      <4>3. z = <<>> \/ z = <<x>>
        BY <2>1, <4>1
      <4> QED BY <4>2, <4>3, NothingIn, OneIn
    <3>4. \A x \in In(b) : Real(x) /\ LastNumber < x.n /\ x.flushes = flushes /\ x.n < items + 1
      <4>1. CASE b = <<>>
        BY <4>1, NothingIn
      <4>2. CASE b # <<>>
        <5>1. m_hr = "S_OK" /\ b = m_ppSamples
          BY <1>1, <4>2
        <5>2. \A i \in 1..items : i < items + 1
          BY <1>5
        <5> QED BY <1>5, <5>1, <5>2 DEF Real
      <4> QED BY <4>1, <4>2
    <3>5. Rising(b) /\ Below(In(b), In(z))
      <4>1. Rising(b)
        BY <1>5, <1>7, NothingIn
      <4>2. \A x \in In(b), y \in In(z) : x.n < y.n
        BY <3>2, <3>4
      <4>3. \A x \in In(b) : x.kind # "reset"
        BY <3>4 DEF Real
      <4> QED BY <4>1, <4>2, <4>3 DEF Below, Precedes
    <3>6. r \in Seq(Things) /\ Rising(r) /\ In(r) = In(b) \cup In(z)
      BY <1>7, <2>1, <3>3, <3>5, JoinedIn
    <3>7. LastNumber < items + 1
      BY <1>5
    <3>8. \A x \in In(r) : Real(x) /\ LastNumber < x.n /\ x.flushes = flushes
      BY <3>2, <3>4, <3>6, <3>7
    <3> QED BY <1>2, <2>3, <3>1, <3>6, <3>8, SendsInOrder
  <2> QED BY <2>2, <2>3
<1> QED BY <1>15, <1>16

LEMMA SendInOrder == ASSUME OutInv, Samples!Send PROVE Samples!DeliversInOrder
<1> USE DEF Samples!Send, Samples!ctl, Samples!Ok
<1>1. CASE sending # <<>> /\ m_hr = "S_OK"
  <2>1. sent' = sending /\ flushes' = flushes /\ wpc # "receiving"
    BY <1>1
  <2>2. sending \in Seq(Things) /\ Rising(sending)
    BY DEF OutInv, OutTyped, OrderInv
  <2>3. \A x \in In(sending) : Real(x) /\ LastNumber < x.n /\ x.flushes = flushes
    BY <2>1 DEF OutInv, KindsInv, LastInv, After, NumbersInv, Counted, Real
  <2> QED BY <1>1, <2>1, <2>2, <2>3, SendsInOrder
<1>2. CASE ~(sending # <<>> /\ m_hr = "S_OK")
  BY <1>2 DEF Samples!DeliversInOrder
<1> QED BY <1>1, <1>2

LEMMA SpecialInOrder == ASSUME OutInv, Samples!Special PROVE Samples!DeliversInOrder
<1> USE DEF Samples!Special, Samples!ctl
<1>1. flushes' = flushes /\ (sent' = sent \/ (pSample.kind \in {"eos", "segment"} /\ sent' = <<pSample>>))
  OBVIOUS
<1>2. CASE sent' = sent
  BY <1>2 DEF Samples!DeliversInOrder
<1>3. CASE pSample.kind \in {"eos", "segment"} /\ sent' = <<pSample>>
  <2>1. PICK x : x = pSample
    OBVIOUS
  <2>2. x \in Things /\ Real(x) /\ Hand = {x}
    BY <1>3, <2>1 DEF OutInv, OutTyped, Real, Hand
  <2>3. LastNumber < x.n /\ (x.flushes = flushes \/ x.kind = "segment")
    BY <1>3, <2>1, <2>2 DEF OutInv, LastInv, After, NumbersInv, Counted
  <2>4. PICK s : s = <<x>>
    OBVIOUS
  <2>5. s \in Seq(Things) /\ Rising(s) /\ In(s) = {x} /\ s # <<>>
    BY <2>2, <2>4, OneIn
  <2>6. sent' = s
    BY <1>3, <2>1, <2>4
  <2> QED BY <1>1, <2>2, <2>3, <2>5, <2>6, SendsInOrder
<1> QED BY <1>1, <1>2, <1>3

LEMMA OutStep == OutInv /\ [QueuesNext]_queueVars => OutInv'
<1> SUFFICES ASSUME OutInv, [QueuesNext]_queueVars PROVE OutInv'
  OBVIOUS
<1>1. CASE Samples!Next
  BY <1>1, TerminatedKeeps, FlushedKeeps, CollectKeeps, WakeKeeps, SendKeeps, ReceivedKeeps, SpecialKeeps,
     ResetDoneKeeps, ReceiveMultipleKeeps, EosKeeps, SendAnywayKeeps, NewSegmentKeeps, QueueSegmentKeeps,
     DirectReceiveKeeps, DirectSpecialKeeps, BeginFlushKeeps, EndFlushKeeps, ResetKeeps, DestroyKeeps,
     SynchronisedKeeps, EndClearKeeps, EndPassKeeps, EndHrKeeps, ResetReturnsKeeps, JoinedKeeps
     DEF Samples!Next, Samples!Worker, Samples!Up, Samples!Ctl, Samples!Returns
<1>2. CASE UNCHANGED samplesVars
  BY <1>2, OutSame DEF samplesVars, OutVars
<1> QED BY <1>1, <1>2 DEF QueuesNext, queueVars

LEMMA OutOrder == OutInv /\ [QueuesNext]_queueVars => Samples!DeliversInOrder
<1> SUFFICES ASSUME OutInv, [QueuesNext]_queueVars, sent' # sent PROVE Samples!DeliversInOrder
  BY DEF Samples!DeliversInOrder
<1>1. Samples!Next
  BY DEF QueuesNext, queueVars, samplesVars
<1>2. Samples!Send \/ Samples!Special \/ Samples!DirectReceive \/ Samples!DirectSpecial
  BY <1>1 DEF Samples!Next, Samples!Worker, Samples!Up, Samples!Ctl, Samples!Returns,
     Samples!Terminated, Samples!Flushed, Samples!Collect, Samples!Wake, Samples!Received, Samples!ResetDone,
     Samples!ReceiveMultiple, Samples!EOS, Samples!SendAnyway, Samples!NewSegment, Samples!QueueSegment,
     Samples!BeginFlush, Samples!EndFlush, Samples!Reset, Samples!Destroy, Samples!Synchronised,
     Samples!EndClear, Samples!EndPass, Samples!EndHr, Samples!ResetReturns, Samples!Joined
<1> QED BY <1>2, SendInOrder, SpecialInOrder, DirectReceiveKeeps, DirectSpecialKeeps

\* No two samples of s have the same number.
Distinct(s) ==
    \A i, j \in DOMAIN s : s[i].kind = "sample" /\ s[j].kind = "sample" /\ s[i].n = s[j].n => i = j

LEMMA RisingIsDistinct == ASSUME NEW s \in Seq(Things), Rising(s) PROVE Distinct(s)
<1> SUFFICES ASSUME NEW i \in DOMAIN s, NEW j \in DOMAIN s, s[i].kind = "sample", s[j].kind = "sample", i < j
             PROVE  s[i].n # s[j].n
  BY DEF Distinct
<1>1. s[i].n < s[j].n
  BY DEF Rising, Precedes, Real
<1>2. s[i].n \in Nat /\ s[j].n \in Nat
  <2>1. s[i] \in Things /\ s[j] \in Things
    OBVIOUS
  <2> QED BY <2>1 DEF Things
<1> QED BY <1>1, <1>2

LEMMA JoinedDistinct ==
    ASSUME NEW s \in Seq(Things), NEW t \in Seq(Things), Distinct(s), Distinct(t), Below(In(t), In(s))
    PROVE  Distinct(s \o t)
<1>1. /\ s \o t \in Seq(Things) /\ DOMAIN (s \o t) = 1..Len(s) + Len(t)
      /\ \A i \in DOMAIN s : (s \o t)[i] = s[i]
      /\ \A i \in DOMAIN t : (s \o t)[Len(s) + i] = t[i]
  BY Concatenated
<1>2. PICK r : r = s \o t
  OBVIOUS
<1>3. Len(s) \in Nat /\ Len(t) \in Nat /\ DOMAIN s = 1..Len(s) /\ DOMAIN t = 1..Len(t)
  OBVIOUS
<1>4. ASSUME NEW i \in DOMAIN r, i \notin DOMAIN s
      PROVE  i - Len(s) \in DOMAIN t /\ r[i] = t[i - Len(s)]
  <2>1. i - Len(s) \in DOMAIN t /\ Len(s) + (i - Len(s)) = i
    BY <1>1, <1>2, <1>3, <1>4
  <2> QED BY <1>1, <1>2, <2>1
<1>5. ASSUME NEW i \in DOMAIN s, NEW j \in DOMAIN t, s[i].kind = "sample", t[j].kind = "sample"
      PROVE  s[i].n # t[j].n
  <2>1. t[j].n < s[i].n
    BY <1>5 DEF Below, In, Precedes, Real
  <2>2. s[i].n \in Nat /\ t[j].n \in Nat
    <3>1. s[i] \in Things /\ t[j] \in Things
      OBVIOUS
    <3> QED BY <3>1 DEF Things
  <2> QED BY <2>1, <2>2
<1>6. ASSUME NEW i \in DOMAIN r, NEW j \in DOMAIN r, r[i].kind = "sample", r[j].kind = "sample", r[i].n = r[j].n
      PROVE  i = j
  <2>1. CASE i \in DOMAIN s /\ j \in DOMAIN s
    BY <1>1, <1>2, <1>6, <2>1 DEF Distinct
  <2>2. CASE i \in DOMAIN s /\ j \notin DOMAIN s
    BY <1>1, <1>2, <1>4, <1>5, <1>6, <2>2
  <2>3. CASE i \notin DOMAIN s /\ j \in DOMAIN s
    <3>1. r[j] = s[j] /\ i - Len(s) \in DOMAIN t /\ r[i] = t[i - Len(s)]
      BY <1>1, <1>2, <1>4, <2>3
    <3> QED BY <1>5, <1>6, <2>3, <3>1
  <2>4. CASE i \notin DOMAIN s /\ j \notin DOMAIN s
    <3>1. i - Len(s) \in DOMAIN t /\ r[i] = t[i - Len(s)] /\ j - Len(s) \in DOMAIN t /\ r[j] = t[j - Len(s)]
      BY <1>4, <2>4
    <3>2. i - Len(s) = j - Len(s)
      BY <1>6, <3>1 DEF Distinct
    <3>3. i \in Int /\ j \in Int
      BY <1>1, <1>2, <1>3
    <3> QED BY <1>3, <3>2, <3>3
  <2> QED BY <2>1, <2>2, <2>3, <2>4
<1> QED BY <1>2, <1>6 DEF Distinct

LEMMA OutSafe == OutInv => Samples!QueueSound
<1> SUFFICES ASSUME OutInv PROVE Samples!QueueSound
  OBVIOUS
<1>1. m_List \in Seq(Things) /\ m_ppSamples \in Seq(Things) /\ sending \in Seq(Things)
  BY DEF OutInv, OutTyped
<1>2. PICK a, b : a = m_List \o m_ppSamples /\ b = a \o sending
  OBVIOUS
<1>3. a \in Seq(Things) /\ In(a) = In(m_List) \cup In(m_ppSamples)
  BY <1>1, <1>2, JoinedIn
<1>4. b \in Seq(Things) /\ In(b) = In(a) \cup In(sending)
  BY <1>1, <1>2, <1>3, JoinedIn
<1>5. Distinct(b)
  <2>1. Distinct(m_List) /\ Distinct(m_ppSamples) /\ Distinct(sending)
    BY <1>1, RisingIsDistinct DEF OutInv, OrderInv
  <2>2. Distinct(a)
    BY <1>1, <1>2, <2>1, JoinedDistinct DEF OutInv, OrderInv
  <2>3. Below(In(sending), In(a))
    BY <1>3 DEF OutInv, OrderInv, Below
  <2> QED BY <1>1, <1>2, <1>3, <2>1, <2>2, <2>3, JoinedDistinct
<1>6. Samples!Numbers(b) = live
  <2>1. /\ SampleNumbers(In(b)) = SampleNumbers(In(a)) \cup SampleNumbers(In(sending))
        /\ SampleNumbers(In(a)) = SampleNumbers(In(m_List)) \cup SampleNumbers(In(m_ppSamples))
    BY <1>3, <1>4, NumbersUnion
  <2>2. Samples!Numbers(b) = SampleNumbers(In(b))
    BY NumbersAre
  <2> QED BY <2>1, <2>2 DEF OutInv, AccountInv
<1>7. cpc = "gone" => live = {}
  <2> SUFFICES ASSUME cpc = "gone" PROVE live = {}
    OBVIOUS
  <2>1. m_List = <<>> /\ m_ppSamples = <<>> /\ sending = <<>>
    BY DEF OutInv, PlacesInv
  <2> QED BY <2>1, NothingIn DEF OutInv, AccountInv
<1>8. Samples!SamplesAccounted
  BY <1>2, <1>5, <1>6, <1>7 DEF Samples!SamplesAccounted, Distinct
<1>9. Samples!WaitsForAReason
  BY DEF OutInv, WaitingInv, Asleep, In, Samples!WaitsForAReason
<1>10. Samples!FlushedIsQuiet
  BY DEF OutInv, LastInv, CleanInv, Clean, Samples!FlushedIsQuiet
<1> QED BY <1>8, <1>9, <1>10 DEF Samples!QueueSound

-----------------------------------------------------------------------------
(* The two queues. *)

\* What is true of both, whichever is in use.
QueuesInv == OutInv /\ CmdInv

LEMMA QueuesStep ==
    QueuesSpec => [](QueuesInv /\ (OutInv => Samples!QueueSound) /\ (CmdInv => Deferred!CommandsSound))
<1>1. QueuesInit => QueuesInv
  BY InitOut, InitCmd DEF QueuesInv
<1>2. QueuesInv /\ [QueuesNext]_queueVars => QueuesInv'
  BY OutStep, CmdStep DEF QueuesInv
<1>3. (OutInv => Samples!QueueSound) /\ (CmdInv => Deferred!CommandsSound)
  BY OutSafe, CmdSafe
<1> QED BY <1>1, <1>2, <1>3, PTL DEF QueuesSpec

\* Every sample that the output queue was given is in one place until it is
\* released, in any order of the streaming thread, the worker and the calls of
\* flush, Reset and the destructor, for any number of items and calls, and the
\* worker sleeps for a reason.  The lists of deferred commands are in order and
\* each reference of a command is somebody's, whatever the application creates,
\* cancels, postpones and releases while the filter's thread takes and invokes,
\* for any number of commands and times; the command that the program may end
\* over is one that was executed or cancelled, or whose reference nobody took.
THEOREM QueuesHold == QueuesSpec => []QueuesSound
<1>1. QueuesInv /\ (OutInv => Samples!QueueSound) /\ (CmdInv => Deferred!CommandsSound) => QueuesSound
  BY DEF QueuesInv, QueuesSound
<1> QED BY <1>1, QueuesStep, PTL

\* The output queue sends what it was given in that order, nothing from before
\* a flush but a segment after it; no command is executed twice, nor given to the
\* thread when it was cancelled before, also where Postpone and Cancel cross the
\* steps of Invoke, and of those that are due the earliest goes first.
THEOREM QueuesKeepOrder == QueuesSpec => InOrder
<1>1. QueuesInit => QueuesInv
  BY InitOut, InitCmd DEF QueuesInv
<1>2. QueuesInv /\ [QueuesNext]_queueVars => QueuesInv'
  BY OutStep, CmdStep DEF QueuesInv
<1>3. QueuesInv /\ QueuesInv' /\ [QueuesNext]_queueVars
         => [Samples!DeliversInOrder /\ Deferred!TakesInOrder]_queueVars
  BY OutOrder, CmdOrder DEF QueuesInv
<1> QED BY <1>1, <1>2, <1>3, PTL DEF QueuesSpec, InOrder
=============================================================================
