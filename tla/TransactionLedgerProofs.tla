----------------------- MODULE TransactionLedgerProofs -----------------------
(***************************************************************************)
(* Proofs about TransactionLedger, for any charge points, read loops,      *)
(* connectors, numbers of concurrent requests and bounds.  Any number of   *)
(* read loops may belong to one charge point.  Ids may collide here: no    *)
(* proof needs them to differ (ToldIdStopsOwnRow states it where it        *)
(* matters).  The two theorems about links are about databases whose       *)
(* creations do not fail, as in the run: an id that was handed out for a   *)
(* row that could not be created names nothing.                            *)
(***************************************************************************)
EXTENDS TransactionLedger, WellFoundedInduction, TLAPS

Saving == {"closing", "stopping", "reasoning"}

HasId(R, t) == \E i \in DOMAIN R : R[i].tx = t

\* An id that a job will look up has a row.  A copy that it will save is of the
\* row it will overwrite, is balanced, and closes it, unless only its reason is
\* written.
Fits(R, j) ==
  /\ j.at \in {"triggering", "sleeping"} => HasId(R, j.tx)
  /\ j.at \in Saving =>
       /\ j.key \in DOMAIN R
       /\ j.row.tx = R[j.key].tx
       /\ j.row.conn = R[j.key].conn
       /\ j.row.start = R[j.key].start
       /\ Balanced(j.row)
       /\ j.at # "reasoning" => j.row.status = "complete"
  /\ j.at = "stopping" => j.row.tx = j.tx

JobsFit == \A w \in Workers : Fits(rows, job[w])

IInv == TypeOK /\ JobsFit /\ EnergyNearMeters

-----------------------------------------------------------------------------
(* The least and the greatest of a set of keys. *)

\* First returns the least element.
LEMMA FirstIsLeast ==
  ASSUME NEW S \in SUBSET Nat, S # {}
  PROVE  First(S) \in S /\ \A j \in S : First(S) <= j
<1> DEFINE R == {ss \in Nat \X Nat : ss[1] < ss[2]}
<1>1. IsWellFoundedOn(R, Nat)
  BY NatLessThanWellFounded DEF OpToRel
<1> HIDE DEF R
<1>2. PICK x \in S : \A y \in S : <<y, x>> \notin R
  BY <1>1, WFMin
<1>3. \A y \in S : x <= y
  <2> SUFFICES ASSUME NEW y \in S, y < x PROVE FALSE
    OBVIOUS
  <2>1. <<y, x>> \in Nat \X Nat /\ <<y, x>>[1] < <<y, x>>[2]
    OBVIOUS
  <2>2. <<y, x>> \in R
    BY <2>1 DEF R
  <2> QED
    BY <1>2, <2>2
<1> QED
  BY <1>3 DEF First

\* Last returns the greatest element of a bounded set.
LEMMA LastIsGreatest ==
  ASSUME NEW n \in Nat, NEW S \in SUBSET (1..n), S # {}
  PROVE  Last(S) \in S
<1> DEFINE T == {n - i : i \in S}
<1>1. T \in SUBSET Nat /\ T # {}
  <2>1. \A i \in S : n - i \in Nat
    OBVIOUS
  <2>2. PICK i \in S : TRUE
    OBVIOUS
  <2>3. n - i \in T
    BY <2>2
  <2> QED
    BY <2>1, <2>3
<1>2. First(T) \in T /\ \A j \in T : First(T) <= j
  BY <1>1, FirstIsLeast
<1>3. PICK x \in S : First(T) = n - x
  BY <1>2
<1>4. \A i \in S : x >= i
  <2> TAKE i \in S
  <2>1. n - i \in T
    OBVIOUS
  <2>2. n - x <= n - i
    BY <1>2, <1>3, <2>1
  <2> QED
    BY <2>2
<1> QED
  BY <1>4 DEF Last

\* An id that is in the table is looked up to a row with that id.
LEMMA Lookup ==
  ASSUME TypeOK, NEW t, WithId(t) # {}
  PROVE  GetTransaction(t) \in DOMAIN rows /\ rows[GetTransaction(t)].tx = t
<1>1. WithId(t) \in SUBSET Nat
  BY DEF TypeOK, WithId
<1>2. GetTransaction(t) \in WithId(t)
  BY <1>1, FirstIsLeast DEF GetTransaction
<1> QED
  BY <1>2 DEF WithId

\* A connector with an active transaction has one to be found.
LEMMA LookupActive ==
  ASSUME TypeOK, NEW k, ActiveOn(k) # {}
  PROVE  GetActive(k) \in DOMAIN rows
<1>1. ActiveOn(k) \in SUBSET Nat
  BY DEF TypeOK, ActiveOn
<1>2. GetActive(k) \in ActiveOn(k)
  BY <1>1, FirstIsLeast DEF GetActive
<1> QED
  BY <1>2 DEF ActiveOn

\* So does a connector with an open remote start.
LEMMA LookupPending ==
  ASSUME TypeOK, NEW k, OpenFor(k) # {}
  PROVE  GetPending(k) \in DOMAIN pendings /\ GetPending(k) \in Nat
<1>1. OpenFor(k) \in SUBSET (1..Len(pendings)) /\ Len(pendings) \in Nat
  BY DEF TypeOK, OpenFor
<1>2. GetPending(k) \in OpenFor(k)
  BY <1>1, LastIsGreatest DEF GetPending
<1> QED
  BY <1>1, <1>2 DEF OpenFor

-----------------------------------------------------------------------------
(* Types. *)

USE OwnerAssumption, LoopsAssumption, MetersAssumption, BoundsAssumption

\* A row whose energy is that of its two meter values is balanced ...
LEMMA Exact ==
  ASSUME NEW r \in Row, r.energy = Parts * (r.stop - r.start)
  PROVE  Balanced(r)
<1>1. Parts * (r.stop - r.start) \in Int
  BY DEF Row
<1>2. r.energy - Parts * (r.stop - r.start) = 0
  BY <1>1
<1>3. 0 \in 0..Parts
  OBVIOUS
<1> QED
  BY <1>2, <1>3 DEF Balanced

\* ... and so is one whose meter value is its energy cut to whole Wh.
LEMMA CutIsBalanced ==
  ASSUME NEW r \in Row, NEW q \in Row, NEW e \in Nat, NEW n \in Truncated(e),
         r.start = q.start, r.stop = q.start + n, r.energy = e
  PROVE  Balanced(r)
<1>1. n \in Nat /\ q.start \in Nat
  BY DEF Truncated, Row
<1>2. r.stop - r.start = n
  BY <1>1
<1>3. Parts * n \in Int /\ Parts * (n + 1) = Parts * n + Parts
  BY <1>1
<1>4. Parts * n <= e /\ e <= Parts * n + Parts
  BY <1>3 DEF Truncated
<1>5. e - Parts * n \in 0..Parts
  BY <1>3, <1>4
<1> QED
  BY <1>2, <1>5 DEF Balanced

\* Taking the readings into account keeps a row a row, the same one, balanced.
LEMMA ReadingFits ==
  ASSUME TypeOK, NEW r \in Row
  PROVE  /\ WithReading(r) \in Row
         /\ WithReading(r).tx = r.tx
         /\ WithReading(r).conn = r.conn
         /\ WithReading(r).start = r.start
         /\ Balanced(r) => Balanced(WithReading(r))
<1>1. readings[r.tx] > 0 => readings[r.tx] \in Nat
  BY DEF TypeOK, Row, NoReading
<1>2. CASE readings[r.tx] > 0
  <2> DEFINE v == readings[r.tx]
             q == [r EXCEPT !.stop = v, !.energy = Parts * (v - r.start)]
  <2>1. WithReading(r) = q
    BY <1>2 DEF WithReading
  <2>2. v \in Nat /\ Parts * (v - r.start) \in Int
    BY <1>1, <1>2 DEF Row
  <2> HIDE DEF v
  <2>3. /\ q \in Row /\ q.tx = r.tx /\ q.conn = r.conn /\ q.start = r.start
        /\ q.stop = v /\ q.energy = Parts * (v - r.start)
    BY <2>2 DEF Row
  <2> HIDE DEF q
  <2>4. Balanced(q)
    BY <2>3, Exact
  <2> QED
    BY <2>1, <2>3, <2>4
<1>3. CASE ~(readings[r.tx] > 0)
  BY <1>3 DEF WithReading
<1> QED
  BY <1>2, <1>3

\* So does leaving them out when they cannot be read.
LEMMA MeteredFits ==
  ASSUME TypeOK, NEW r \in Row, NEW q \in Metered(r)
  PROVE  /\ q \in Row
         /\ q.tx = r.tx
         /\ q.conn = r.conn
         /\ q.start = r.start
         /\ Balanced(r) => Balanced(q)
<1>1. q = WithReading(r) \/ q = r
  BY DEF Metered
<1> QED
  BY <1>1, ReadingFits

\* So does the end that an administrator gives it.
LEMMA EndedFits ==
  ASSUME TypeOK, NEW r \in Row, NEW e \in Energies, NEW q \in Ended(r, e)
  PROVE  /\ q \in Row
         /\ q.tx = r.tx
         /\ q.conn = r.conn
         /\ q.start = r.start
         /\ Balanced(r) => Balanced(q)
<1>1. CASE e > 0
  <2>1. PICK n \in Truncated(e) : q = [r EXCEPT !.stop = r.start + n, !.energy = e]
    BY <1>1 DEF Ended
  <2> DEFINE m == r.start + n
  <2>2. q = [r EXCEPT !.stop = m, !.energy = e]
    BY <2>1
  <2>3. e \in Nat /\ e \in Int /\ n \in Nat /\ m \in Nat
    BY DEF Truncated, Row
  <2> HIDE DEF m
  <2>4. /\ q \in Row /\ q.tx = r.tx /\ q.conn = r.conn /\ q.start = r.start
        /\ q.stop = m /\ q.energy = e
    BY <2>2, <2>3 DEF Row
  <2>5. Balanced(q)
    BY <2>3, <2>4, CutIsBalanced DEF m
  <2> QED
    BY <2>4, <2>5
<1>2. CASE ~(e > 0)
  BY <1>2, MeteredFits DEF Ended
<1> QED
  BY <1>1, <1>2

\* A StopTransaction makes a complete row of it, the same one, balanced.
LEMMA StopFits ==
  ASSUME NEW r \in Row, NEW v \in Nat, NEW reason \in {"None", "Local"}
  PROVE  /\ Stopped(r, v, reason) \in Row
         /\ Stopped(r, v, reason).tx = r.tx
         /\ Stopped(r, v, reason).conn = r.conn
         /\ Stopped(r, v, reason).start = r.start
         /\ Stopped(r, v, reason).status = "complete"
         /\ Balanced(Stopped(r, v, reason))
<1> DEFINE q == Stopped(r, v, reason)
<1>1. StopReason(r.reason, reason) \in Reasons
  <2>1. r.reason \in Reasons
    BY DEF Row
  <2>2. CASE r.reason \in {"None", "PowerLoss"}
    BY <2>2 DEF StopReason, Reasons
  <2>3. CASE r.reason \notin {"None", "PowerLoss"} /\ reason # "None" /\ r.reason # "Remote"
    BY <2>3 DEF StopReason, Reasons
  <2>4. CASE r.reason \notin {"None", "PowerLoss"} /\ (reason = "None" \/ r.reason = "Remote")
    BY <2>1, <2>4 DEF StopReason
  <2> QED
    BY <2>2, <2>3, <2>4
<1>2. r.start \in Nat /\ Parts * (v - r.start) \in Int
  BY DEF Row
<1>3. /\ q \in Row /\ q.tx = r.tx /\ q.conn = r.conn /\ q.start = r.start
      /\ q.status = "complete" /\ q.stop = v /\ q.energy = Parts * (v - r.start)
  BY <1>1, <1>2 DEF Row, Stopped
<1> HIDE DEF q
<1>4. Balanced(q)
  BY <1>3, Exact
<1> QED
  BY <1>3, <1>4 DEF q

\* Creating a transaction adds one row and leaves the others.
LEMMA Creation ==
  ASSUME TypeOK, NEW k \in Connectors, NEW v \in Nat, CreateTransaction(k, v)
  PROVE  /\ rows' \in Seq(Row)
         /\ NewTransactionId \in Ids
         /\ DOMAIN rows' = 1 .. Len(rows) + 1
         /\ \A i \in DOMAIN rows : i \in DOMAIN rows' /\ rows'[i] = rows[i]
         /\ rows'[Len(rows) + 1].tx = NewTransactionId
         /\ rows'[Len(rows) + 1].energy = 0
         /\ rows'[Len(rows) + 1].stop = 0
<1>1. NewTransactionId \in Ids
  BY DEF TypeOK, NewTransactionId, Ids
<1> DEFINE r == [tx |-> NewTransactionId, conn |-> k, start |-> v, stop |-> 0,
                 energy |-> 0, reason |-> "None", status |-> "active"]
<1>2. r \in Row
  BY <1>1 DEF Row, Reasons
<1>3. rows' = Append(rows, r)
  BY DEF CreateTransaction
<1>4. r.tx = NewTransactionId /\ r.energy = 0 /\ r.stop = 0
  OBVIOUS
<1> HIDE DEF r
<1> QED
  BY <1>1, <1>2, <1>3, <1>4 DEF TypeOK

\* Saving a fitting copy changes one row and leaves the others.
LEMMA Saving1 ==
  ASSUME TypeOK, NEW i \in DOMAIN rows, NEW r \in Row, SaveTransaction(i, r)
  PROVE  /\ rows' \in Seq(Row)
         /\ DOMAIN rows' = DOMAIN rows
         /\ rows'[i] = r
         /\ \A j \in DOMAIN rows : j # i => rows'[j] = rows[j]
  BY DEF TypeOK, SaveTransaction

\* The copy that a worker is about to save has the right type.
LEMMA CopyType ==
  ASSUME TypeOK, NEW w \in Workers, job[w].at \in Saving
  PROVE  job[w].row \in Row /\ job[w].key \in Nat
  BY DEF TypeOK, Jobs, Idle, Saving

\* Every worker that is not idle works on what its kind of job is about.
LEMMA JobType ==
  ASSUME TypeOK, NEW w \in Workers
  PROVE  /\ job[w].at \in {"linking", "marking", "adopting", "asking"} => job[w].conn \in Connectors
         /\ job[w].at \in {"linking", "marking"} => job[w].tx \in Ids /\ job[w].reply \in SUBSET Ids
         /\ job[w].at \in {"triggering", "sleeping", "commanding", "reasoning"} => job[w].tx \in Ids
         /\ job[w].at = "marking" => job[w].key \in Nat
  BY DEF TypeOK, Jobs, Idle

\* A worker starts a new kind of job.
LEMMA GotoType ==
  ASSUME TypeOK, NEW w \in Workers, NEW j \in Jobs, Goto(w, j)
  PROVE  job' \in [Workers -> Jobs]
  BY DEF TypeOK, Goto

\* The rows and the kinds of job stay what they are; JobsFit says that a copy
\* is saved over an existing row, and that the id a closing goroutine looks up is there.
LEMMA TypeStep == IInv /\ [Next]_vars => TypeOK'
<1> SUFFICES ASSUME IInv, [Next]_vars PROVE TypeOK'
  OBVIOUS
<1>a. TypeOK
  BY DEF IInv
<1>b. \A w \in Workers : job[w].at \in Saving => job[w].key \in DOMAIN rows /\ job[w].row \in Row
  BY <1>a, CopyType DEF IInv, JobsFit, Fits
<1>c. /\ \A l \in Loops : l \in Workers
      /\ \A c \in Closers : c \in Workers
      /\ \A a \in Admins : a \in Workers
      /\ \A s \in Stoppers : s \in Workers
  BY DEF Workers
<1>d. Idle \in Jobs
  BY DEF Jobs
<1>e. \A w \in Workers : \A i \in DOMAIN rows, r \in Row :
        job[w].at \in Saving /\ i = job[w].key /\ r = job[w].row /\ SaveTransaction(i, r)
          => rows' \in Seq(Row)
  BY <1>a, Saving1
<1>1. ASSUME NEW l \in Loops, NEW k \in Connectors, NEW v \in Meters,
             StartTransaction(l, k, v)
      PROVE TypeOK'
  <2>0. NewTransactionId \in Ids
    BY <1>a DEF TypeOK, NewTransactionId, Ids
  <2>1. rows' \in Seq(Row) /\ NewTransactionId \in Ids
    BY <1>a, <1>1, <2>0, Creation DEF StartTransaction, TypeOK
  <2> DEFINE j == [at |-> "linking", conn |-> k, tx |-> NewTransactionId,
                   reply |-> {NewTransactionId}]
  <2>2. j \in Jobs
    BY <2>1 DEF Jobs
  <2>3. job' \in [Workers -> Jobs]
    BY <1>a, <1>c, <1>1, <2>2, GotoType DEF StartTransaction
  <2> QED
    BY <1>a, <1>1, <2>1, <2>3 DEF TypeOK, StartTransaction
<1>2. ASSUME NEW l \in Loops, FindPending(l) PROVE TypeOK'
  <2> DEFINE k == job[l].conn
  <2>1. k \in Connectors /\ job[l].tx \in Ids /\ job[l].reply \in SUBSET Ids
    BY <1>a, <1>c, <1>2, JobType DEF FindPending
  <2>2. CASE OpenFor(k) = {}
    <3>1. job' \in [Workers -> Jobs]
      BY <1>a, <1>c, <1>d, <1>2, <2>2, GotoType DEF FindPending
    <3>2. told' = [told EXCEPT ![k] = @ \cup job[l].reply]
      BY <1>2, <2>2 DEF FindPending
    <3>3. told' \in [Connectors -> SUBSET Ids]
      BY <1>a, <2>1, <3>2 DEF TypeOK
    <3> QED
      BY <1>a, <1>2, <3>1, <3>3 DEF TypeOK, FindPending
  <2>3. CASE OpenFor(k) # {}
    <3> DEFINE j == [at |-> "marking", conn |-> k, tx |-> job[l].tx, reply |-> job[l].reply,
                     key |-> GetPending(k)]
    <3>1. j \in Jobs
      BY <1>a, <2>1, <2>3, LookupPending DEF Jobs
    <3>2. job' \in [Workers -> Jobs]
      BY <1>a, <1>c, <1>2, <2>3, <3>1, GotoType DEF FindPending
    <3> QED
      BY <1>a, <1>2, <2>3, <3>2 DEF TypeOK, FindPending
  <2> QED
    BY <2>2, <2>3
<1>3. ASSUME NEW l \in Loops, MarkPending(l) PROVE TypeOK'
  <2>1. job[l].conn \in Connectors /\ job[l].tx \in Ids /\ job[l].reply \in SUBSET Ids
    BY <1>a, <1>c, <1>3, JobType DEF MarkPending
  <2>2. job' \in [Workers -> Jobs]
    BY <1>a, <1>c, <1>d, <1>3, GotoType DEF MarkPending
  <2>3. \A q \in Pending : [q EXCEPT !.status = "done", !.tx = job[l].tx] \in Pending
    BY <2>1 DEF Pending
  <2>4. pendings' \in Seq(Pending)
    <3> DEFINE i == job[l].key
               q == [pendings[i] EXCEPT !.status = "done", !.tx = job[l].tx]
    <3>1. pendings' = [pendings EXCEPT ![i] = q]
      BY <1>3 DEF MarkPending
    <3>2. i \in DOMAIN pendings => pendings[i] \in Pending
      BY <1>a DEF TypeOK
    <3>3. i \in DOMAIN pendings => q \in Pending
      BY <2>3, <3>2
    <3> HIDE DEF i, q
    <3>4. pendings \in [1 .. Len(pendings) -> Pending] /\ Len(pendings) \in Nat
      BY <1>a DEF TypeOK
    <3>5. pendings' \in [1 .. Len(pendings) -> Pending]
      BY <3>1, <3>3, <3>4
    <3> QED
      BY <3>4, <3>5
  <2>5. told' \in [Connectors -> SUBSET Ids]
    BY <1>a, <1>3, <2>1 DEF TypeOK, MarkPending
  <2> QED
    BY <1>a, <1>3, <2>2, <2>4, <2>5 DEF TypeOK, MarkPending
<1>4. ASSUME NEW l \in Loops, NEW k \in Connectors, StatusCharging(l, k) PROVE TypeOK'
  <2>0. PICK at \in {"adopting", "asking"} : Goto(l, [at |-> at, conn |-> k])
    BY <1>4 DEF StatusCharging
  <2>1. [at |-> at, conn |-> k] \in Jobs
    BY DEF Jobs
  <2>2. job' \in [Workers -> Jobs]
    BY <1>a, <1>c, <2>0, <2>1, GotoType
  <2> QED
    BY <1>a, <1>4, <2>2 DEF TypeOK, StatusCharging
<1>5. ASSUME NEW l \in Loops, AdoptRemoteStart(l) PROVE TypeOK'
  <2> DEFINE k == job[l].conn
             j == [at |-> "linking", conn |-> k, tx |-> NewTransactionId, reply |-> {}]
  <2>1. k \in Connectors
    BY <1>a, <1>c, <1>5, JobType DEF AdoptRemoteStart
  <2>2. rows' \in Seq(Row) /\ NewTransactionId \in Ids
    BY <1>a, <1>5, <2>1, Creation DEF AdoptRemoteStart
  <2>3. j \in Jobs
    BY <2>1, <2>2 DEF Jobs
  <2>4. job' \in [Workers -> Jobs]
    BY <1>a, <1>c, <1>5, <2>3, GotoType DEF AdoptRemoteStart
  <2> QED
    BY <1>a, <1>5, <2>2, <2>4 DEF TypeOK, AdoptRemoteStart
<1>6. ASSUME NEW l \in Loops, CreatePlaceholder(l) PROVE TypeOK'
  <2>1. job[l].conn \in Connectors
    BY <1>a, <1>c, <1>6, JobType DEF CreatePlaceholder
  <2>2. rows' \in Seq(Row)
    BY <1>a, <1>6, <2>1, Creation DEF CreatePlaceholder
  <2>3. job' \in [Workers -> Jobs]
    BY <1>a, <1>c, <1>d, <1>6, GotoType DEF CreatePlaceholder
  <2> QED
    BY <1>a, <1>6, <2>2, <2>3 DEF TypeOK, CreatePlaceholder
<1>7. ASSUME NEW l \in Loops, NEW k \in Connectors, StatusAvailable(l, k) PROVE TypeOK'
  <2> DEFINE j == [at |-> "triggering", tx |-> rows[GetActive(k)].tx]
  <2>1. rows[GetActive(k)] \in Row
    BY <1>a, <1>7, LookupActive DEF StatusAvailable, TypeOK
  <2>2. j \in Jobs
    BY <2>1 DEF Jobs, Row
  <2>3. job' \in [Workers -> Jobs]
    BY <1>a, <1>c, <1>7, <2>2, GotoType DEF StatusAvailable
  <2> QED
    BY <1>a, <1>7, <2>3 DEF TypeOK, StatusAvailable
<1>8. ASSUME NEW l \in Loops, NEW c \in Closers, SpawnCloser(l, c) PROVE TypeOK'
  <2>1. job[l].tx \in Ids
    BY <1>a, <1>c, <1>8, JobType DEF SpawnCloser
  <2>2. [at |-> "sleeping", tx |-> job[l].tx] \in Jobs
    BY <2>1 DEF Jobs
  <2> QED
    BY <1>a, <1>d, <1>8, <2>2 DEF TypeOK, SpawnCloser
<1>9. ASSUME NEW c \in Closers, ReadToClose(c) PROVE TypeOK'
  <2> DEFINE i == GetTransaction(job[c].tx)
  <2>0. PICK q \in Metered(rows[i]) :
          Goto(c, [at |-> "closing", key |-> i,
                   row |-> [q EXCEPT !.status = "complete", !.reason = "PowerLoss"]])
    BY <1>9 DEF ReadToClose
  <2> DEFINE r == [q EXCEPT !.status = "complete", !.reason = "PowerLoss"]
             j == [at |-> "closing", key |-> i, row |-> r]
  <2>1. i \in DOMAIN rows
    BY <1>a, <1>c, <1>9, Lookup DEF ReadToClose, IInv, JobsFit, Fits, HasId, WithId
  <2>2. rows[i] \in Row /\ i \in Nat
    BY <1>a, <2>1 DEF TypeOK
  <2>3. q \in Row
    BY <1>a, <2>2, MeteredFits
  <2> HIDE DEF i
  <2>4. r \in Row
    BY <2>3 DEF Row, Reasons
  <2>5. j \in Jobs
    BY <2>2, <2>4 DEF Jobs
  <2>6. job' \in [Workers -> Jobs]
    BY <1>a, <1>c, <2>0, <2>5, GotoType
  <2> QED
    BY <1>a, <1>9, <2>6 DEF TypeOK, ReadToClose
<1>10. ASSUME NEW w \in Workers, SaveClosed(w) \/ SaveStopped(w) \/ SaveAdminClosed(w)
       PROVE TypeOK'
  <2>1. job[w].at \in Saving /\ SaveTransaction(job[w].key, job[w].row)
    BY <1>10 DEF SaveClosed, SaveStopped, SaveAdminClosed, Saving
  <2>2. rows' \in Seq(Row)
    BY <1>b, <1>e, <2>1
  <2>3. job' \in [Workers -> Jobs]
    BY <1>a, <1>d, <1>10, GotoType DEF SaveClosed, SaveStopped, SaveAdminClosed
  <2> QED
    BY <1>a, <1>10, <2>2, <2>3 DEF TypeOK, SaveClosed, SaveStopped, SaveAdminClosed
<1>11. ASSUME NEW l \in Loops, NEW t \in Ids, NEW v \in Meters, NEW reason \in {"None", "Local"},
              StopTransaction(l, t, v, reason)
       PROVE TypeOK'
  <2> DEFINE i == GetTransaction(t)
             q == rows[i]
             r == Stopped(q, v, reason)
             j == [at |-> "stopping", tx |-> t, key |-> i, row |-> r]
  <2>1. i \in DOMAIN rows
    BY <1>a, <1>11, Lookup DEF StopTransaction
  <2>2. q \in Row /\ i \in Nat
    BY <1>a, <2>1 DEF TypeOK
  <2>3. Goto(l, j)
    BY <1>11 DEF StopTransaction
  <2>4. r \in Row
    BY <2>2, StopFits
  <2> HIDE DEF i, r
  <2>5. j \in Jobs
    BY <2>2, <2>4 DEF Jobs
  <2>6. job' \in [Workers -> Jobs]
    BY <1>a, <1>c, <2>3, <2>5, GotoType
  <2> QED
    BY <1>a, <1>11, <2>6 DEF TypeOK, StopTransaction
<1>12. ASSUME NEW l \in Loops, NEW t \in Ids, NEW v \in Meters, MeterValues(l, t, v)
       PROVE TypeOK'
  BY <1>a, <1>12 DEF TypeOK, MeterValues
<1>13. ASSUME NEW k \in Connectors \cup {NoConnector}, RemoteStart(k) PROVE TypeOK'
  <2>1. [conn |-> k, status |-> "open", tx |-> 0] \in Pending
    BY DEF Pending, Ids
  <2> QED
    BY <1>a, <1>13, <2>1 DEF TypeOK, RemoteStart
<1>14. ASSUME NEW n \in DOMAIN pendings, ExpirePendings(n) PROVE TypeOK'
  <2>0. \A q \in Pending : [q EXCEPT !.status = "expired"] \in Pending
    BY DEF Pending
  <2>1. \A i \in DOMAIN pendings : pendings'[i] \in Pending
    BY <1>a, <1>14, <2>0 DEF TypeOK, ExpirePendings
  <2>2. DOMAIN pendings = 1 .. Len(pendings) /\ Len(pendings) \in Nat
    BY <1>a DEF TypeOK
  <2>3. pendings' \in [1 .. Len(pendings) -> Pending]
    BY <1>14, <2>1, <2>2 DEF ExpirePendings
  <2>4. pendings' \in Seq(Pending)
    BY <2>2, <2>3
  <2> QED
    BY <1>a, <1>14, <2>4 DEF TypeOK, ExpirePendings
<1>15. ASSUME NEW s \in Stoppers, NEW t \in Ids, RemoteStop(s, t) PROVE TypeOK'
  <2>1. [at |-> "commanding", tx |-> t, conn |-> NoConnector] \in Jobs
    BY DEF Jobs
  <2>2. job' \in [Workers -> Jobs]
    BY <1>a, <1>c, <1>15, <2>1, GotoType DEF RemoteStop
  <2> QED
    BY <1>a, <1>15, <2>2 DEF TypeOK, RemoteStop
<1>16. ASSUME NEW s \in Stoppers, NEW k \in Connectors, RemoteStopConnector(s, k) PROVE TypeOK'
  <2> DEFINE j == [at |-> "commanding", tx |-> rows[GetActive(k)].tx, conn |-> k]
  <2>1. rows[GetActive(k)] \in Row
    BY <1>a, <1>16, LookupActive DEF RemoteStopConnector, TypeOK
  <2>2. j \in Jobs
    BY <2>1 DEF Jobs, Row
  <2>3. job' \in [Workers -> Jobs]
    BY <1>a, <1>c, <1>16, <2>2, GotoType DEF RemoteStopConnector
  <2> QED
    BY <1>a, <1>16, <2>3 DEF TypeOK, RemoteStopConnector
<1>17. ASSUME NEW s \in Stoppers, RemoteStopAccepted(s) PROVE TypeOK'
  <2> DEFINE t == job[s].tx
             i == GetTransaction(t)
             r == [rows[i] EXCEPT !.reason = "Remote"]
             j == [at |-> "reasoning", tx |-> t, key |-> i, row |-> r]
  <2>1. t \in Ids
    BY <1>a, <1>c, <1>17, JobType DEF RemoteStopAccepted
  <2>2. CASE WithId(t) = {}
    <3>1. job' \in [Workers -> Jobs]
      BY <1>a, <1>c, <1>d, <1>17, <2>2, GotoType DEF RemoteStopAccepted
    <3> QED
      BY <1>a, <1>17, <3>1 DEF TypeOK, RemoteStopAccepted
  <2>3. CASE WithId(t) # {}
    <3>1. i \in DOMAIN rows
      BY <1>a, <2>3, Lookup
    <3>2. rows[i] \in Row /\ i \in Nat
      BY <1>a, <3>1 DEF TypeOK
    <3>3. Goto(s, j)
      BY <1>17, <2>3 DEF RemoteStopAccepted
    <3> HIDE DEF t, i
    <3>4. r \in Row
      BY <3>2 DEF Row, Reasons
    <3>5. j \in Jobs
      BY <2>1, <3>2, <3>4 DEF Jobs
    <3>6. job' \in [Workers -> Jobs]
      BY <1>a, <1>c, <3>3, <3>5, GotoType
    <3> QED
      BY <1>a, <1>17, <3>6 DEF TypeOK, RemoteStopAccepted
  <2> QED
    BY <2>2, <2>3
<1>18. ASSUME NEW s \in Stoppers, UpdateStopReason(s) PROVE TypeOK'
  <2>0. \A q \in Row : [q EXCEPT !.reason = "Remote"] \in Row
    BY DEF Row, Reasons
  <2>1. \A i \in DOMAIN rows : rows'[i] \in Row
    BY <1>a, <1>18, <2>0 DEF TypeOK, UpdateStopReason
  <2>2. DOMAIN rows = 1 .. Len(rows) /\ Len(rows) \in Nat
    BY <1>a DEF TypeOK
  <2>3. rows' \in [1 .. Len(rows) -> Row]
    BY <1>18, <2>1, <2>2 DEF UpdateStopReason
  <2>4. rows' \in Seq(Row)
    BY <2>2, <2>3
  <2>5. job' \in [Workers -> Jobs]
    BY <1>a, <1>c, <1>d, <1>18, GotoType DEF UpdateStopReason
  <2> QED
    BY <1>a, <1>18, <2>4, <2>5 DEF TypeOK, UpdateStopReason
<1>19. ASSUME NEW s \in Stoppers, RemoteStopFails(s) PROVE TypeOK'
  <2>1. job' \in [Workers -> Jobs]
    BY <1>a, <1>c, <1>d, <1>19, GotoType DEF RemoteStopFails
  <2> QED
    BY <1>a, <1>19, <2>1 DEF TypeOK, RemoteStopFails
<1>20. ASSUME NEW a \in Admins, NEW t \in Ids, NEW e \in Energies, AdminClose(a, t, e) PROVE TypeOK'
  <2> DEFINE i == GetTransaction(t)
  <2>0. PICK u \in Ended(rows[i], e) :
          Goto(a, [at |-> "closing", key |-> i,
                   row |-> [u EXCEPT !.status = "complete", !.reason = "AdminClosed"]])
    BY <1>20 DEF AdminClose
  <2> DEFINE r == [u EXCEPT !.status = "complete", !.reason = "AdminClosed"]
             j == [at |-> "closing", key |-> i, row |-> r]
  <2>1. i \in DOMAIN rows
    BY <1>a, <1>20, Lookup DEF AdminClose
  <2>2. rows[i] \in Row /\ i \in Nat
    BY <1>a, <2>1 DEF TypeOK
  <2>3. u \in Row
    BY <1>a, <2>2, EndedFits
  <2>4. Goto(a, j)
    BY <2>0
  <2> HIDE DEF i
  <2>5. r \in Row
    BY <2>3 DEF Row, Reasons
  <2> HIDE DEF r
  <2>6. j \in Jobs
    BY <2>2, <2>5 DEF Jobs
  <2>7. job' \in [Workers -> Jobs]
    BY <1>a, <1>c, <2>4, <2>6, GotoType
  <2> QED
    BY <1>a, <1>20, <2>7 DEF TypeOK, AdminClose
<1>21. CASE Tick
  BY <1>a, <1>21 DEF TypeOK, Tick
<1>22. CASE Restart
  BY <1>a, <1>d, <1>22 DEF TypeOK, Restart
<1>23. CASE UNCHANGED vars
  BY <1>a, <1>23 DEF TypeOK, vars
<1>24. ASSUME NEW w \in Workers, CallFails(w) PROVE TypeOK'
  <2>1. job' \in [Workers -> Jobs]
    BY <1>a, <1>d, <1>24, GotoType DEF CallFails
  <2>2. CASE job[w].at \in {"linking", "marking"}
    <3>1. job[w].conn \in Connectors /\ job[w].reply \in SUBSET Ids
      BY <1>a, <2>2, JobType
    <3>2. told' = [told EXCEPT ![job[w].conn] = @ \cup job[w].reply]
      BY <1>24, <2>2 DEF CallFails
    <3>3. told' \in [Connectors -> SUBSET Ids]
      BY <1>a, <3>1, <3>2 DEF TypeOK
    <3> QED
      BY <1>a, <1>24, <2>1, <3>3 DEF TypeOK, CallFails
  <2>3. CASE job[w].at \notin {"linking", "marking"}
    <3>1. told' = told
      BY <1>24, <2>3 DEF CallFails
    <3> QED
      BY <1>a, <1>24, <2>1, <3>1 DEF TypeOK, CallFails
  <2> QED
    BY <2>2, <2>3
<1>25. ASSUME NEW l \in Loops, Request(l) PROVE TypeOK'
  BY <1>1, <1>4, <1>7, <1>11, <1>12, <1>25 DEF Request
<1>26. ASSUME NEW l \in Loops, Handle(l) PROVE TypeOK'
  BY <1>c, <1>2, <1>3, <1>5, <1>6, <1>8, <1>10, <1>26 DEF Handle
<1>27. CASE Api
  BY <1>c, <1>10, <1>13, <1>14, <1>15, <1>16, <1>17, <1>18, <1>19, <1>20, <1>27 DEF Api
<1> QED
  BY <1>c, <1>9, <1>10, <1>21, <1>22, <1>23, <1>24, <1>25, <1>26, <1>27 DEF Next, AllIdle

-----------------------------------------------------------------------------
(* What a step does to the rows. *)

\* A step writes the table in one of four ways.
LEMMA RowsWritten ==
  ASSUME TypeOK, [Next]_vars
  PROVE  \/ rows' = rows
         \/ \E k \in Connectors, v \in Nat : CreateTransaction(k, v)
         \/ \E w \in Workers : job[w].at \in {"closing", "stopping"}
                                 /\ SaveTransaction(job[w].key, job[w].row)
         \/ \E s \in Stoppers : UpdateStopReason(s)
<1> DEFINE P == \/ rows' = rows
                \/ \E k \in Connectors, v \in Nat : CreateTransaction(k, v)
                \/ \E w \in Workers : job[w].at \in {"closing", "stopping"}
                                        /\ SaveTransaction(job[w].key, job[w].row)
                \/ \E s \in Stoppers : UpdateStopReason(s)
<1>1. ASSUME NEW l \in Loops, Request(l) PROVE P
  <2>1. CASE \E k \in Connectors, v \in Meters : StartTransaction(l, k, v)
    BY <2>1 DEF StartTransaction
  <2>2. CASE rows' = rows
    BY <2>2
  <2> QED
    BY <1>1, <2>1, <2>2
    DEF Request, StatusCharging, StatusAvailable, MeterValues, StopTransaction
<1>2. ASSUME NEW l \in Loops, Handle(l) PROVE P
  <2>0. l \in Workers
    BY DEF Workers
  <2>1. CASE AdoptRemoteStart(l)
    <3>1. job[l].conn \in Connectors
      BY <2>0, <2>1, JobType DEF AdoptRemoteStart
    <3> QED
      BY <2>1, <3>1 DEF AdoptRemoteStart
  <2>2. CASE CreatePlaceholder(l)
    <3>1. job[l].conn \in Connectors
      BY <2>0, <2>2, JobType DEF CreatePlaceholder
    <3> QED
      BY <2>2, <3>1 DEF CreatePlaceholder
  <2>3. CASE SaveStopped(l)
    BY <2>0, <2>3 DEF SaveStopped
  <2>4. CASE rows' = rows
    BY <2>4
  <2>5. FindPending(l) \/ MarkPending(l) \/ (\E c \in Closers : SpawnCloser(l, c)) => rows' = rows
    BY DEF FindPending, MarkPending, SpawnCloser
  <2> QED
    BY <1>2, <2>1, <2>2, <2>3, <2>4, <2>5 DEF Handle
<1>3. ASSUME NEW c \in Closers, ReadToClose(c) \/ SaveClosed(c) PROVE P
  BY <1>3 DEF ReadToClose, SaveClosed, Workers
<1>4. ASSUME NEW a \in Admins, SaveAdminClosed(a) PROVE P
  BY <1>4 DEF SaveAdminClosed, Workers
<1>5. CASE Api
  <2>1. CASE rows' = rows
    BY <2>1
  <2> QED
    BY <1>4, <1>5, <2>1
    DEF Api, RemoteStop, RemoteStopConnector, RemoteStopAccepted, RemoteStopFails, AdminClose,
        RemoteStart, ExpirePendings
<1>6. CASE Tick \/ Restart \/ (\E w \in Workers : CallFails(w)) \/ UNCHANGED vars
  BY <1>6 DEF Tick, Restart, CallFails, vars
<1> QED
  BY <1>1, <1>2, <1>3, <1>5, <1>6 DEF Next, AllIdle

\* Every step keeps the rows what they are, and their energy balanced.
LEMMA RowsStep ==
  ASSUME IInv, [Next]_vars
  PROVE  RowsAdvance /\ EnergyNearMeters'
<1>1. TypeOK /\ EnergyNearMeters
  BY DEF IInv
<1>2. CASE rows' = rows
  BY <1>1, <1>2 DEF RowsAdvance, EnergyNearMeters
<1>3. ASSUME NEW k \in Connectors, NEW v \in Nat, CreateTransaction(k, v)
      PROVE  RowsAdvance /\ EnergyNearMeters'
  <2>1. \A i \in DOMAIN rows : i \in DOMAIN rows' /\ rows'[i] = rows[i]
    BY <1>1, <1>3, Creation
  <2>2. RowsAdvance
    BY <2>1 DEF RowsAdvance
  <2>3. ASSUME NEW i \in DOMAIN rows' PROVE Balanced(rows'[i])
    <3>1. i \in DOMAIN rows \/ i = Len(rows) + 1
      BY <1>1, <1>3, Creation DEF TypeOK
    <3>2. rows'[Len(rows) + 1].energy = 0 /\ rows'[Len(rows) + 1].stop = 0
      BY <1>1, <1>3, Creation
    <3> QED
      BY <1>1, <2>1, <3>1, <3>2 DEF EnergyNearMeters, Balanced
  <2> QED
    BY <2>2, <2>3 DEF EnergyNearMeters
<1>4. ASSUME NEW w \in Workers, job[w].at \in {"closing", "stopping"},
             SaveTransaction(job[w].key, job[w].row)
      PROVE  RowsAdvance /\ EnergyNearMeters'
  <2> DEFINE i == job[w].key
             r == job[w].row
  <2>1. r \in Row
    BY <1>1, <1>4, CopyType DEF Saving
  <2>2. /\ i \in DOMAIN rows
        /\ r.tx = rows[i].tx
        /\ r.conn = rows[i].conn
        /\ r.start = rows[i].start
        /\ Balanced(r)
        /\ r.status = "complete"
    BY <1>4 DEF IInv, JobsFit, Fits, Saving
  <2>3. SaveTransaction(i, r)
    BY <1>4
  <2> HIDE DEF i, r
  <2>4. /\ DOMAIN rows' = DOMAIN rows
        /\ rows'[i] = r
        /\ \A j \in DOMAIN rows : j # i => rows'[j] = rows[j]
    BY <1>1, <2>1, <2>2, <2>3, Saving1
  <2>5. RowsAdvance
    BY <2>2, <2>4 DEF RowsAdvance
  <2>6. ASSUME NEW j \in DOMAIN rows' PROVE Balanced(rows'[j])
    BY <1>1, <2>2, <2>4 DEF EnergyNearMeters
  <2> QED
    BY <2>5, <2>6 DEF EnergyNearMeters
<1>5. ASSUME NEW s \in Stoppers, UpdateStopReason(s)
      PROVE  RowsAdvance /\ EnergyNearMeters'
  <2>1. \A q \in Row :
          LET r == [q EXCEPT !.reason = "Remote"]
          IN /\ r.tx = q.tx /\ r.conn = q.conn /\ r.start = q.start /\ r.status = q.status
             /\ r.energy = q.energy /\ r.stop = q.stop
    BY DEF Row
  <2>2. DOMAIN rows' = DOMAIN rows
    BY <1>5 DEF UpdateStopReason
  <2>3. ASSUME NEW i \in DOMAIN rows
        PROVE  /\ rows'[i].tx = rows[i].tx
               /\ rows'[i].conn = rows[i].conn
               /\ rows'[i].start = rows[i].start
               /\ rows'[i].status = rows[i].status
               /\ rows'[i].energy = rows[i].energy
               /\ rows'[i].stop = rows[i].stop
    <3>1. rows[i] \in Row
      BY <1>1 DEF TypeOK
    <3>2. rows'[i] = [rows[i] EXCEPT !.reason = "Remote"] \/ rows'[i] = rows[i]
      BY <1>5 DEF UpdateStopReason
    <3> QED
      BY <2>1, <3>1, <3>2
  <2>4. RowsAdvance
    BY <2>2, <2>3 DEF RowsAdvance
  <2>5. ASSUME NEW i \in DOMAIN rows' PROVE Balanced(rows'[i])
    BY <1>1, <2>2, <2>3 DEF EnergyNearMeters, Balanced
  <2> QED
    BY <2>4, <2>5 DEF EnergyNearMeters
<1> QED
  BY <1>1, <1>2, <1>3, <1>4, <1>5, RowsWritten

-----------------------------------------------------------------------------
(* What a step does to the jobs. *)

\* What a job relies on survives every step.
LEMMA StillFits ==
  ASSUME RowsAdvance, NEW j, Fits(rows, j)
  PROVE  Fits(rows', j)
<1>1. \A t : HasId(rows, t) => HasId(rows', t)
  BY DEF RowsAdvance, HasId
<1>2. j.at \in Saving =>
        /\ j.key \in DOMAIN rows'
        /\ rows'[j.key].tx = rows[j.key].tx
        /\ rows'[j.key].conn = rows[j.key].conn
        /\ rows'[j.key].start = rows[j.key].start
  BY DEF Fits, RowsAdvance
<1> QED
  BY <1>1, <1>2 DEF Fits

\* So does the row of an id.
LEMMA StillKnown ==
  ASSUME RowsAdvance, NEW t, HasId(rows, t)
  PROVE  HasId(rows', t)
  BY DEF RowsAdvance, HasId

\* A step in which one goroutine takes a new job.
LEMMA NewJob ==
  ASSUME TypeOK, JobsFit, RowsAdvance, NEW w \in Workers, NEW j, Goto(w, j), Fits(rows', j)
  PROVE  JobsFit'
<1>1. ASSUME NEW u \in Workers PROVE Fits(rows', job'[u])
  <2>1. CASE u = w
    BY <2>1 DEF TypeOK, Goto
  <2>2. CASE u # w
    <3>1. job'[u] = job[u]
      BY <2>2 DEF TypeOK, Goto
    <3>2. Fits(rows, job[u])
      BY DEF JobsFit
    <3>3. Fits(rows', job[u])
      BY <3>2, StillFits
    <3> QED
      BY <3>1, <3>3
  <2> QED
    BY <2>1, <2>2
<1> QED
  BY <1>1 DEF JobsFit

\* A goroutine without a job relies on nothing.
LEMMA IdleFits == Fits(rows', Idle)
  BY DEF Fits, Idle, Saving

\* A step in which no goroutine takes a job.
LEMMA NoJob ==
  ASSUME IInv, RowsAdvance, UNCHANGED job
  PROVE  JobsFit'
<1> USE DEF IInv
<1>1. \A w \in Workers : Fits(rows', job[w])
  BY StillFits DEF JobsFit
<1> QED
  BY <1>1 DEF JobsFit

\* Every step keeps what the jobs rely on.
LEMMA JobsStep ==
  ASSUME IInv, [Next]_vars
  PROVE  JobsFit'
<1>a. TypeOK /\ JobsFit
  BY DEF IInv
<1>b. RowsAdvance
  BY RowsStep
<1>c. /\ \A l \in Loops : l \in Workers
      /\ \A c \in Closers : c \in Workers
      /\ \A a \in Admins : a \in Workers
      /\ \A s \in Stoppers : s \in Workers
  BY DEF Workers
<1>e. ASSUME NEW w \in Workers, Goto(w, Idle) PROVE JobsFit'
  BY <1>a, <1>b, <1>e, IdleFits, NewJob
<1>f. ASSUME NEW i \in DOMAIN rows PROVE rows[i] \in Row /\ Balanced(rows[i])
  BY <1>a DEF TypeOK, IInv, EnergyNearMeters
<1>1. ASSUME NEW l \in Loops, NEW k \in Connectors, NEW v \in Meters,
             StartTransaction(l, k, v)
      PROVE  JobsFit'
  <2> DEFINE j == [at |-> "linking", conn |-> k, tx |-> NewTransactionId,
                   reply |-> {NewTransactionId}]
  <2>1. Fits(rows', j)
    BY DEF Fits, Saving
  <2>2. Goto(l, j)
    BY <1>1 DEF StartTransaction
  <2> QED
    BY <1>a, <1>b, <1>c, <2>1, <2>2, NewJob
<1>2. ASSUME NEW l \in Loops, FindPending(l) PROVE JobsFit'
  <2> DEFINE k == job[l].conn
  <2>1. CASE OpenFor(k) = {}
    BY <1>c, <1>e, <1>2, <2>1 DEF FindPending
  <2>2. CASE OpenFor(k) # {}
    <3> DEFINE j == [at |-> "marking", conn |-> k, tx |-> job[l].tx, reply |-> job[l].reply,
                     key |-> GetPending(k)]
    <3>1. Fits(rows', j)
      BY DEF Fits, Saving
    <3>2. Goto(l, j)
      BY <1>2, <2>2 DEF FindPending
    <3> QED
      BY <1>a, <1>b, <1>c, <3>1, <3>2, NewJob
  <2> QED
    BY <2>1, <2>2
<1>3. ASSUME NEW l \in Loops, MarkPending(l) PROVE JobsFit'
  BY <1>c, <1>e, <1>3 DEF MarkPending
<1>4. ASSUME NEW l \in Loops, NEW k \in Connectors, StatusCharging(l, k)
      PROVE  JobsFit'
  <2>1. PICK at \in {"adopting", "asking"} : Goto(l, [at |-> at, conn |-> k])
    BY <1>4 DEF StatusCharging
  <2>2. Fits(rows', [at |-> at, conn |-> k])
    BY DEF Fits, Saving
  <2> QED
    BY <1>a, <1>b, <1>c, <2>1, <2>2, NewJob
<1>5. ASSUME NEW l \in Loops, AdoptRemoteStart(l) PROVE JobsFit'
  <2> DEFINE j == [at |-> "linking", conn |-> job[l].conn, tx |-> NewTransactionId, reply |-> {}]
  <2>1. Fits(rows', j)
    BY DEF Fits, Saving
  <2>2. Goto(l, j)
    BY <1>5 DEF AdoptRemoteStart
  <2> QED
    BY <1>a, <1>b, <1>c, <2>1, <2>2, NewJob
<1>6. ASSUME NEW l \in Loops, NEW k \in Connectors, StatusAvailable(l, k)
      PROVE  JobsFit'
  <2> DEFINE j == [at |-> "triggering", tx |-> rows[GetActive(k)].tx]
  <2>1. GetActive(k) \in DOMAIN rows
    BY <1>a, <1>6, LookupActive DEF StatusAvailable
  <2>2. HasId(rows, rows[GetActive(k)].tx)
    BY <2>1 DEF HasId
  <2>3. Fits(rows', j)
    BY <1>b, <2>2, StillKnown DEF Fits, Saving
  <2>4. Goto(l, j)
    BY <1>6 DEF StatusAvailable
  <2> QED
    BY <1>a, <1>b, <1>c, <2>3, <2>4, NewJob
<1>7. ASSUME NEW l \in Loops, NEW c \in Closers, SpawnCloser(l, c)
      PROVE  JobsFit'
  <2> DEFINE j == [at |-> "sleeping", tx |-> job[l].tx]
  <2>1. HasId(rows, job[l].tx)
    BY <1>a, <1>c, <1>7 DEF SpawnCloser, JobsFit, Fits
  <2>2. Fits(rows', j)
    BY <1>b, <2>1, StillKnown DEF Fits, Saving
  <2>3. job' = [job EXCEPT ![l] = Idle, ![c] = j]
    BY <1>7 DEF SpawnCloser
  <2> HIDE DEF j
  <2>4. ASSUME NEW w \in Workers PROVE Fits(rows', job'[w])
    <3>1. job'[w] = Idle \/ job'[w] = j \/ job'[w] = job[w]
      BY <1>a, <1>c, <2>3 DEF TypeOK
    <3>2. Fits(rows', job[w])
      BY <1>a, <1>b, StillFits DEF JobsFit
    <3> QED
      BY <2>2, <3>1, <3>2, IdleFits
  <2> QED
    BY <2>4 DEF JobsFit
<1>8. ASSUME NEW c \in Closers, ReadToClose(c) PROVE JobsFit'
  <2> DEFINE i == GetTransaction(job[c].tx)
  <2>0. PICK u \in Metered(rows[i]) :
          Goto(c, [at |-> "closing", key |-> i,
                   row |-> [u EXCEPT !.status = "complete", !.reason = "PowerLoss"]])
    BY <1>8 DEF ReadToClose
  <2> DEFINE r == [u EXCEPT !.status = "complete", !.reason = "PowerLoss"]
             j == [at |-> "closing", key |-> i, row |-> r]
  <2>1. i \in DOMAIN rows
    BY <1>a, <1>c, <1>8, Lookup DEF ReadToClose, JobsFit, Fits, HasId, WithId
  <2>2. /\ u \in Row
        /\ u.tx = rows[i].tx /\ u.conn = rows[i].conn /\ u.start = rows[i].start
        /\ Balanced(u)
    BY <1>a, <1>f, <2>1, MeteredFits
  <2>3. Goto(c, j) /\ rows' = rows
    BY <1>8, <2>0 DEF ReadToClose
  <2> HIDE DEF i
  <2>4. /\ r.tx = u.tx /\ r.conn = u.conn /\ r.start = u.start
        /\ Balanced(r) /\ r.status = "complete"
    BY <2>2 DEF Row, Balanced
  <2> HIDE DEF r
  <2>5. Fits(rows', j)
    BY <2>1, <2>2, <2>3, <2>4 DEF Fits, Saving
  <2> QED
    BY <1>a, <1>b, <1>c, <2>3, <2>5, NewJob
<1>9. ASSUME NEW l \in Loops, NEW t \in Ids, NEW v \in Meters, NEW reason \in {"None", "Local"},
             StopTransaction(l, t, v, reason)
      PROVE  JobsFit'
  <2> DEFINE i == GetTransaction(t)
             q == rows[i]
             r == Stopped(q, v, reason)
             j == [at |-> "stopping", tx |-> t, key |-> i, row |-> r]
  <2>1. i \in DOMAIN rows /\ q.tx = t
    BY <1>a, <1>9, Lookup DEF StopTransaction
  <2>2. q \in Row /\ rows[i] = q
    BY <1>f, <2>1
  <2>3. Goto(l, j) /\ rows' = rows
    BY <1>9 DEF StopTransaction
  <2>4. /\ r.tx = q.tx /\ r.conn = q.conn /\ r.start = q.start
        /\ Balanced(r) /\ r.status = "complete"
    BY <2>2, StopFits
  <2> HIDE DEF i, q, r
  <2>5. Fits(rows', j)
    BY <2>1, <2>2, <2>3, <2>4 DEF Fits, Saving
  <2> QED
    BY <1>a, <1>b, <1>c, <2>3, <2>5, NewJob
<1>10. ASSUME NEW s \in Stoppers, RemoteStopAccepted(s) PROVE JobsFit'
  <2> DEFINE t == job[s].tx
             i == GetTransaction(t)
             q == rows[i]
             r == [q EXCEPT !.reason = "Remote"]
             j == [at |-> "reasoning", tx |-> t, key |-> i, row |-> r]
  <2>1. CASE WithId(t) = {}
    <3> QED
      BY <1>c, <1>e, <1>10, <2>1 DEF RemoteStopAccepted
  <2>2. CASE WithId(t) # {}
    <3>1. i \in DOMAIN rows
      BY <1>a, <2>2, Lookup
    <3>2. q \in Row /\ Balanced(q)
      BY <1>f, <3>1
    <3>3. Goto(s, j) /\ rows' = rows
      BY <1>10, <2>2 DEF RemoteStopAccepted
    <3>4. rows[i] = q
      OBVIOUS
    <3> HIDE DEF t, i, q
    <3>5. r.tx = q.tx /\ r.conn = q.conn /\ r.start = q.start /\ Balanced(r)
      BY <3>2 DEF Row, Balanced
    <3> HIDE DEF r
    <3>6. Fits(rows', j)
      BY <3>1, <3>3, <3>4, <3>5 DEF Fits, Saving
    <3> QED
      BY <1>a, <1>b, <1>c, <3>3, <3>6, NewJob
  <2> QED
    BY <2>1, <2>2
<1>11. ASSUME NEW a \in Admins, NEW t \in Ids, NEW e \in Energies, AdminClose(a, t, e)
       PROVE  JobsFit'
  <2> DEFINE i == GetTransaction(t)
  <2>0. PICK u \in Ended(rows[i], e) :
          Goto(a, [at |-> "closing", key |-> i,
                   row |-> [u EXCEPT !.status = "complete", !.reason = "AdminClosed"]])
    BY <1>11 DEF AdminClose
  <2> DEFINE r == [u EXCEPT !.status = "complete", !.reason = "AdminClosed"]
             j == [at |-> "closing", key |-> i, row |-> r]
  <2>1. i \in DOMAIN rows
    BY <1>a, <1>11, Lookup DEF AdminClose
  <2>2. rows[i] \in Row /\ Balanced(rows[i])
    BY <1>f, <2>1
  <2>3. /\ u \in Row
        /\ u.tx = rows[i].tx /\ u.conn = rows[i].conn /\ u.start = rows[i].start
        /\ Balanced(u)
    BY <1>a, <2>2, EndedFits
  <2>4. Goto(a, j) /\ rows' = rows
    BY <1>11, <2>0 DEF AdminClose
  <2> HIDE DEF i
  <2>5. /\ r.tx = u.tx /\ r.conn = u.conn /\ r.start = u.start
        /\ Balanced(r) /\ r.status = "complete"
    BY <2>3 DEF Row, Balanced
  <2> HIDE DEF r
  <2>6. Fits(rows', j)
    BY <2>1, <2>3, <2>4, <2>5 DEF Fits, Saving
  <2> QED
    BY <1>a, <1>b, <1>c, <2>4, <2>6, NewJob
<1>12. ASSUME NEW s \in Stoppers, NEW t, NEW k, Goto(s, [at |-> "commanding", tx |-> t, conn |-> k])
       PROVE  JobsFit'
  <2>1. Fits(rows', [at |-> "commanding", tx |-> t, conn |-> k])
    BY DEF Fits, Saving
  <2> QED
    BY <1>a, <1>b, <1>c, <1>12, <2>1, NewJob
<1>13. ASSUME NEW s \in Stoppers,
              \/ \E t \in Ids : RemoteStop(s, t)
              \/ \E k \in Connectors : RemoteStopConnector(s, k)
       PROVE  JobsFit'
  BY <1>12, <1>13 DEF RemoteStop, RemoteStopConnector
<1>14. ASSUME NEW w \in Workers,
              \/ CreatePlaceholder(w)
              \/ SaveStopped(w)
              \/ SaveClosed(w)
              \/ SaveAdminClosed(w)
              \/ UpdateStopReason(w)
              \/ RemoteStopFails(w)
              \/ CallFails(w)
       PROVE  JobsFit'
  <2>1. Goto(w, Idle)
    BY <1>14 DEF CreatePlaceholder, SaveStopped, SaveClosed, SaveAdminClosed, UpdateStopReason,
                 RemoteStopFails, CallFails
  <2> QED
    BY <1>e, <2>1
<1>15. CASE UNCHANGED job
  BY <1>15, <1>b, NoJob
<1>16. CASE Restart
  <2>1. \A w \in Workers : Fits(rows', job'[w])
    BY <1>16, IdleFits DEF Restart
  <2> QED
    BY <2>1 DEF JobsFit
<1>17. ASSUME NEW l \in Loops, Request(l) PROVE JobsFit'
  <2>1. ASSUME NEW t \in Ids, NEW v \in Meters, MeterValues(l, t, v) PROVE JobsFit'
    BY <1>15, <2>1 DEF MeterValues
  <2> QED
    BY <1>1, <1>4, <1>6, <1>9, <1>17, <2>1 DEF Request
<1>18. ASSUME NEW l \in Loops, Handle(l) PROVE JobsFit'
  BY <1>c, <1>2, <1>3, <1>5, <1>7, <1>14, <1>18 DEF Handle
<1>19. CASE Api
  <2>1. ASSUME NEW k, RemoteStart(k) PROVE JobsFit'
    BY <1>15, <2>1 DEF RemoteStart
  <2>2. ASSUME NEW n, ExpirePendings(n) PROVE JobsFit'
    BY <1>15, <2>2 DEF ExpirePendings
  <2> QED
    BY <1>c, <1>10, <1>11, <1>13, <1>14, <1>19, <2>1, <2>2 DEF Api
<1>20. CASE Tick \/ UNCHANGED vars
  BY <1>15, <1>20 DEF Tick, vars
<1> QED
  BY <1>c, <1>8, <1>14, <1>16, <1>17, <1>18, <1>19, <1>20 DEF Next, AllIdle

-----------------------------------------------------------------------------
(* The invariant. *)

LEMMA Initially == Init => IInv
<1> SUFFICES ASSUME Init PROVE IInv
  OBVIOUS
<1>1. 0 \in Ids
  BY DEF Ids
<1>2. TypeOK
  BY DEF Init, TypeOK, Jobs
<1>3. JobsFit
  BY DEF Init, JobsFit, Fits, Idle, Saving
<1>4. EnergyNearMeters
  BY DEF Init, EnergyNearMeters
<1> QED
  BY <1>2, <1>3, <1>4 DEF IInv

\* Every behaviour keeps the inductive invariant.
LEMMA Invariance == Spec => []IInv
<1>1. IInv /\ [Next]_vars => IInv'
  BY TypeStep, RowsStep, JobsStep DEF IInv
<1> QED
  BY Initially, <1>1, PTL DEF Spec

-----------------------------------------------------------------------------
(* The links between transactions, remote starts and the ids that charge
   points are told. *)

\* A remote start that will be completed is there, and for the connector that
\* it was looked up for.  It may have expired, or another read loop of the
\* charge point may have completed it.
MarkFits(P, j) ==
  j.at = "marking" => j.key \in DOMAIN P /\ P[j.key].conn = j.conn

MarksFit == \A w \in Workers : MarkFits(pendings, job[w])

HasRow(R, t, k) == \E i \in DOMAIN R : R[i].tx = t /\ R[i].conn = k

\* If every transaction is created, one that will be linked, and told, is there
\* and on the connector it is for.
LinkFits(R, j) ==
  j.at \in {"linking", "marking"} => HasRow(R, j.tx, j.conn) /\ j.reply \subseteq {j.tx}

LinksFit == \A w \in Workers : LinkFits(rows, job[w])

\* A charge point was told the ids of transactions on its own connectors.
ToldOwn == \A k \in Connectors : \A t \in told[k] : HasRow(rows, t, k)

LInv == LinksFit /\ ToldOwn /\ LinksMatch

\* No step takes a row away from its connector, or loses one.
LEMMA RowStays ==
  ASSUME RowsAdvance, NEW t, NEW k, HasRow(rows, t, k)
  PROVE  HasRow(rows', t, k)
  BY DEF RowsAdvance, HasRow

\* A transaction that is created is one on its connector.
LEMMA CreatedHasRow ==
  ASSUME TypeOK, NEW k \in Connectors, NEW v \in Nat, CreateTransaction(k, v)
  PROVE  HasRow(rows', NewTransactionId, k)
<1> DEFINE r == [tx |-> NewTransactionId, conn |-> k, start |-> v, stop |-> 0,
                 energy |-> 0, reason |-> "None", status |-> "active"]
<1>1. rows' = Append(rows, r) /\ rows \in Seq(Row)
  BY DEF CreateTransaction, TypeOK
<1>2. r.tx = NewTransactionId /\ r.conn = k
  OBVIOUS
<1> HIDE DEF r
<1>3. Len(rows) + 1 \in DOMAIN rows' /\ rows'[Len(rows) + 1] = r
  BY <1>1
<1> QED
  BY <1>2, <1>3 DEF HasRow

\* An open remote start for a connector is found under its connector.
LEMMA PendingFound ==
  ASSUME TypeOK, NEW k, OpenFor(k) # {}
  PROVE  /\ GetPending(k) \in DOMAIN pendings
         /\ pendings[GetPending(k)].conn = k /\ pendings[GetPending(k)].status = "open"
<1>1. OpenFor(k) \in SUBSET (1..Len(pendings)) /\ Len(pendings) \in Nat
  BY DEF TypeOK, OpenFor
<1>2. GetPending(k) \in OpenFor(k)
  BY <1>1, LastIsGreatest DEF GetPending
<1> QED
  BY <1>2 DEF OpenFor

\* A remote start stays, for its connector.
PendingsStay ==
  \A i \in DOMAIN pendings :
    /\ i \in DOMAIN pendings'
    /\ pendings'[i].conn = pendings[i].conn

\* One that is done was done before, or is completed by this step.
DoneOrMarked ==
  \A i \in DOMAIN pendings' : pendings'[i].status = "done" =>
    \/ i \in DOMAIN pendings /\ pendings[i].status = "done" /\ pendings'[i].tx = pendings[i].tx
    \/ \E l \in Loops :
         job[l].at = "marking" /\ i = job[l].key /\ pendings'[i].tx = job[l].tx

\* A step leaves the remote starts alone, or is one of three actions.
LEMMA PendingsWritten ==
  ASSUME [Next]_vars
  PROVE  \/ pendings' = pendings
         \/ \E l \in Loops : MarkPending(l)
         \/ \E k \in Connectors \cup {NoConnector} : RemoteStart(k)
         \/ \E n \in DOMAIN pendings : ExpirePendings(n)
<1> DEFINE P == \/ pendings' = pendings
                \/ \E l \in Loops : MarkPending(l)
                \/ \E k \in Connectors \cup {NoConnector} : RemoteStart(k)
                \/ \E n \in DOMAIN pendings : ExpirePendings(n)
<1>1. ASSUME NEW l \in Loops, Request(l) PROVE P
  BY <1>1 DEF Request, StartTransaction, StatusCharging, StatusAvailable, MeterValues,
              StopTransaction
<1>2. ASSUME NEW l \in Loops, Handle(l) PROVE P
  BY <1>2 DEF Handle, FindPending, AdoptRemoteStart, CreatePlaceholder, SaveStopped, SpawnCloser
<1>3. ASSUME NEW c \in Closers, ReadToClose(c) \/ SaveClosed(c) PROVE P
  BY <1>3 DEF ReadToClose, SaveClosed
<1>4. CASE Api
  BY <1>4 DEF Api, RemoteStop, RemoteStopConnector, RemoteStopAccepted, UpdateStopReason,
              RemoteStopFails, AdminClose, SaveAdminClosed
<1>5. CASE Tick \/ Restart \/ (\E w \in Workers : CallFails(w)) \/ UNCHANGED vars
  BY <1>5 DEF Tick, Restart, CallFails, vars
<1> QED
  BY <1>1, <1>2, <1>3, <1>4, <1>5 DEF Next, AllIdle

LEMMA PendingsStep ==
  ASSUME TypeOK, MarksFit, [Next]_vars
  PROVE  PendingsStay /\ DoneOrMarked
<1>1. pendings \in [1 .. Len(pendings) -> Pending] /\ Len(pendings) \in Nat
  BY DEF TypeOK
<1>2. CASE pendings' = pendings
  BY <1>2 DEF PendingsStay, DoneOrMarked
<1>3. ASSUME NEW l \in Loops, MarkPending(l)
      PROVE  PendingsStay /\ DoneOrMarked
  <2> DEFINE i == job[l].key
             q == [pendings[i] EXCEPT !.status = "done", !.tx = job[l].tx]
  <2>1. job[l].at = "marking"
    BY <1>3 DEF MarkPending
  <2>2. i \in DOMAIN pendings
    BY <2>1 DEF MarksFit, MarkFits, Workers
  <2>3. pendings[i] \in Pending
    BY <1>1, <2>2
  <2>4. q.conn = pendings[i].conn /\ q.tx = job[l].tx
    BY <2>3 DEF Pending
  <2>5. pendings' = [pendings EXCEPT ![i] = q]
    BY <1>3 DEF MarkPending
  <2> HIDE DEF q
  <2>6. /\ DOMAIN pendings' = DOMAIN pendings
        /\ pendings'[i] = q
        /\ \A n \in DOMAIN pendings : n # i => pendings'[n] = pendings[n]
    BY <1>1, <2>2, <2>5
  <2> QED
    BY <2>1, <2>2, <2>4, <2>6 DEF PendingsStay, DoneOrMarked
<1>4. ASSUME NEW k \in Connectors \cup {NoConnector}, RemoteStart(k)
      PROVE  PendingsStay /\ DoneOrMarked
  <2>1. PICK q : q = [conn |-> k, status |-> "open", tx |-> 0]
    OBVIOUS
  <2>2. pendings' = Append(pendings, q) /\ q.status = "open"
    BY <1>4, <2>1 DEF RemoteStart
  <2>3. /\ DOMAIN pendings' = 1 .. Len(pendings) + 1
        /\ pendings'[Len(pendings) + 1] = q
        /\ \A n \in DOMAIN pendings : pendings'[n] = pendings[n]
    BY <1>1, <2>2
  <2>4. \A n \in DOMAIN pendings' : n \in DOMAIN pendings \/ n = Len(pendings) + 1
    BY <1>1, <2>3
  <2> QED
    BY <1>1, <2>2, <2>3, <2>4 DEF PendingsStay, DoneOrMarked
<1>5. ASSUME NEW n \in DOMAIN pendings, ExpirePendings(n)
      PROVE  PendingsStay /\ DoneOrMarked
  <2>1. DOMAIN pendings' = DOMAIN pendings
    BY <1>5 DEF ExpirePendings
  <2>2. ASSUME NEW i \in DOMAIN pendings
        PROVE  /\ pendings'[i].conn = pendings[i].conn
               /\ pendings'[i].tx = pendings[i].tx
               /\ pendings'[i].status = "done" => pendings[i].status = "done"
    <3>1. \/ pendings[i].status = "open" /\ pendings'[i] = [pendings[i] EXCEPT !.status = "expired"]
          \/ pendings'[i] = pendings[i]
      BY <1>5 DEF ExpirePendings
    <3>2. pendings[i] \in Pending
      BY <1>1
    <3> QED
      BY <3>1, <3>2 DEF Pending
  <2> QED
    BY <2>1, <2>2 DEF PendingsStay, DoneOrMarked
<1> QED
  BY <1>2, <1>3, <1>4, <1>5, PendingsWritten

\* A completed remote start still names a transaction on its connector.
LEMMA LinksStep ==
  ASSUME TypeOK, MarksFit, LInv, RowsAdvance, [Next]_vars
  PROVE  LinksMatch'
<1>1. PendingsStay /\ DoneOrMarked
  BY PendingsStep
<1>2. ASSUME NEW i \in DOMAIN pendings', pendings'[i].status = "done"
      PROVE  HasRow(rows', pendings'[i].tx, pendings'[i].conn)
  <2>1. CASE i \in DOMAIN pendings /\ pendings[i].status = "done" /\ pendings'[i].tx = pendings[i].tx
    <3>1. HasRow(rows, pendings[i].tx, pendings[i].conn)
      BY <2>1 DEF LInv, LinksMatch, HasRow
    <3>2. pendings'[i].conn = pendings[i].conn
      BY <1>1, <2>1 DEF PendingsStay
    <3> QED
      BY <2>1, <3>1, <3>2, RowStays
  <2>2. ASSUME NEW l \in Loops, job[l].at = "marking", i = job[l].key,
               pendings'[i].tx = job[l].tx
        PROVE  HasRow(rows', pendings'[i].tx, pendings'[i].conn)
    <3>1. /\ HasRow(rows, job[l].tx, job[l].conn)
          /\ i \in DOMAIN pendings
          /\ pendings[i].conn = job[l].conn
      BY <2>2 DEF LInv, LinksFit, LinkFits, MarksFit, MarkFits, Workers
    <3>2. pendings'[i].conn = job[l].conn
      BY <1>1, <3>1 DEF PendingsStay
    <3> QED
      BY <2>2, <3>1, <3>2, RowStays
  <2> QED
    BY <1>1, <1>2, <2>1, <2>2 DEF DoneOrMarked
<1> QED
  BY <1>2 DEF LinksMatch, HasRow

\* What a job relies on for its link survives every step.
LEMMA LinkStays ==
  ASSUME RowsAdvance, NEW j, LinkFits(rows, j)
  PROVE  LinkFits(rows', j)
  BY RowStays DEF LinkFits

\* A step whose new jobs, if any, fit.
LEMMA NewLinks ==
  ASSUME LinksFit, RowsAdvance,
         \A w \in Workers : job'[w] = job[w] \/ LinkFits(rows', job'[w])
  PROVE  LinksFit'
<1>1. \A w \in Workers : LinkFits(rows', job[w])
  BY LinkStays DEF LinksFit
<1> QED
  BY <1>1 DEF LinksFit

\* A job of another kind relies on no link.
LEMMA NotLinking ==
  ASSUME NEW j, j.at \notin {"linking", "marking"}
  PROVE  LinkFits(rows', j)
  BY DEF LinkFits

\* A goroutine that takes a new job, and only that one, changes its entry.
LEMMA GotoChanges ==
  ASSUME TypeOK, NEW w \in Workers, NEW j, Goto(w, j)
  PROVE  job'[w] = j /\ \A u \in Workers : u # w => job'[u] = job[u]
  BY DEF TypeOK, Goto

\* The ways in which a job that relies on a link comes about.
Created(w, j) ==
  \E k \in Connectors, v \in Nat :
    /\ CreateTransaction(k, v) \/ "create" \in Faults
    /\ j.tx = NewTransactionId /\ j.conn = k /\ j.reply \subseteq {j.tx}

Found(w, j) ==
  /\ job[w].at = "linking"
  /\ OpenFor(job[w].conn) # {}
  /\ j.tx = job[w].tx /\ j.conn = job[w].conn /\ j.reply = job[w].reply
  /\ j.key = GetPending(j.conn)
  /\ pendings' = pendings

Explained(w) ==
  \/ job'[w] = job[w]
  \/ job'[w].at \notin {"linking", "marking"}
  \/ job'[w].at = "linking" /\ Created(w, job'[w])
  \/ job'[w].at = "marking" /\ Found(w, job'[w])

LEMMA JobsExplained ==
  ASSUME TypeOK, [Next]_vars
  PROVE  \A w \in Workers : Explained(w)
<1> DEFINE E == \A w \in Workers : Explained(w)
<1>c. /\ \A l \in Loops : l \in Workers
      /\ \A c \in Closers : c \in Workers
      /\ \A a \in Admins : a \in Workers
      /\ \A s \in Stoppers : s \in Workers
  BY DEF Workers
<1>d. Idle.at = "idle"
  BY DEF Idle
<1>1. ASSUME NEW w \in Workers, NEW j, Goto(w, j),
             j.at \notin {"linking", "marking"}
      PROVE  E
  BY <1>1, GotoChanges DEF Explained
<1>2. ASSUME NEW w \in Workers, Goto(w, Idle) PROVE E
  BY <1>1, <1>2, <1>d
<1>3. ASSUME NEW l \in Loops, NEW k \in Connectors, NEW v \in Meters,
             StartTransaction(l, k, v)
      PROVE  E
  <2>1. PICK j : j = [at |-> "linking", conn |-> k, tx |-> NewTransactionId,
                      reply |-> {NewTransactionId}]
    OBVIOUS
  <2>2. Goto(l, j) /\ (CreateTransaction(k, v) \/ "create" \in Faults)
    BY <1>3, <2>1 DEF StartTransaction
  <2>3. j.at = "linking" /\ j.tx = NewTransactionId /\ j.conn = k /\ j.reply = {j.tx}
    BY <2>1
  <2>4. Created(l, j)
    BY <2>2, <2>3, MetersAssumption DEF Created
  <2> QED
    BY <1>c, <2>2, <2>3, <2>4, GotoChanges DEF Explained
<1>4. ASSUME NEW l \in Loops, FindPending(l) PROVE E
  <2>1. CASE OpenFor(job[l].conn) = {}
    BY <1>c, <1>2, <1>4, <2>1 DEF FindPending
  <2>2. CASE OpenFor(job[l].conn) # {}
    <3>1. PICK j : j = [at |-> "marking", conn |-> job[l].conn, tx |-> job[l].tx,
                        reply |-> job[l].reply, key |-> GetPending(job[l].conn)]
      OBVIOUS
    <3>2. Goto(l, j) /\ job[l].at = "linking" /\ pendings' = pendings
      BY <1>4, <2>2, <3>1 DEF FindPending
    <3>3. /\ j.at = "marking" /\ j.tx = job[l].tx /\ j.conn = job[l].conn
          /\ j.reply = job[l].reply /\ j.key = GetPending(job[l].conn)
      BY <3>1
    <3>4. Found(l, j)
      BY <2>2, <3>2, <3>3 DEF Found
    <3> QED
      BY <1>c, <3>2, <3>3, <3>4, GotoChanges DEF Explained
  <2> QED
    BY <2>1, <2>2
<1>5. ASSUME NEW l \in Loops, AdoptRemoteStart(l) PROVE E
  <2>1. PICK j : j = [at |-> "linking", conn |-> job[l].conn, tx |-> NewTransactionId, reply |-> {}]
    OBVIOUS
  <2>2. Goto(l, j) /\ CreateTransaction(job[l].conn, 0) /\ job[l].at = "adopting"
    BY <1>5, <2>1 DEF AdoptRemoteStart
  <2>3. j.at = "linking" /\ j.tx = NewTransactionId /\ j.conn = job[l].conn /\ j.reply = {}
    BY <2>1
  <2>4. job[l].conn \in Connectors
    BY <1>c, <1>5, JobType DEF AdoptRemoteStart
  <2>5. Created(l, j)
    BY <2>2, <2>3, <2>4 DEF Created
  <2> QED
    BY <1>c, <2>2, <2>3, <2>5, GotoChanges DEF Explained
<1>6. ASSUME NEW l \in Loops, NEW t \in Ids, NEW v \in Meters, NEW reason \in {"None", "Local"},
             StopTransaction(l, t, v, reason)
      PROVE  E
  <2>1. PICK i, r : Goto(l, [at |-> "stopping", tx |-> t, key |-> i, row |-> r])
    BY <1>6 DEF StopTransaction
  <2> QED
    BY <1>c, <1>1, <2>1
<1>7. ASSUME NEW l \in Loops, NEW k \in Connectors, StatusCharging(l, k) PROVE E
  <2>1. PICK at \in {"adopting", "asking"} : Goto(l, [at |-> at, conn |-> k])
    BY <1>7 DEF StatusCharging
  <2> QED
    BY <1>c, <1>1, <2>1
<1>8. ASSUME NEW l \in Loops, NEW k \in Connectors, StatusAvailable(l, k) PROVE E
  BY <1>c, <1>1, <1>8 DEF StatusAvailable
<1>9. ASSUME NEW l \in Loops, NEW c \in Closers, SpawnCloser(l, c) PROVE E
  <2>1. PICK j : j = [at |-> "sleeping", tx |-> job[l].tx]
    OBVIOUS
  <2>2. job' = [job EXCEPT ![l] = Idle, ![c] = j] /\ j.at = "sleeping"
    BY <1>9, <2>1 DEF SpawnCloser
  <2>3. ASSUME NEW w \in Workers PROVE job'[w] = Idle \/ job'[w] = j \/ job'[w] = job[w]
    BY <1>c, <2>2 DEF TypeOK
  <2> QED
    BY <1>d, <2>2, <2>3 DEF Explained
<1>10. ASSUME NEW c \in Closers, ReadToClose(c) PROVE E
  <2>1. PICK i, r : Goto(c, [at |-> "closing", key |-> i, row |-> r])
    BY <1>10 DEF ReadToClose
  <2> QED
    BY <1>c, <1>1, <2>1
<1>11. ASSUME NEW a \in Admins, NEW t \in Ids, NEW e \in Energies, AdminClose(a, t, e) PROVE E
  <2>1. PICK i, r : Goto(a, [at |-> "closing", key |-> i, row |-> r])
    BY <1>11 DEF AdminClose
  <2> QED
    BY <1>c, <1>1, <2>1
<1>12. ASSUME NEW s \in Stoppers,
              \/ \E t \in Ids : RemoteStop(s, t)
              \/ \E k \in Connectors : RemoteStopConnector(s, k)
       PROVE  E
  <2>1. PICK t, k : Goto(s, [at |-> "commanding", tx |-> t, conn |-> k])
    BY <1>12 DEF RemoteStop, RemoteStopConnector
  <2> QED
    BY <1>c, <1>1, <2>1
<1>13. ASSUME NEW s \in Stoppers, RemoteStopAccepted(s) PROVE E
  <2>1. CASE WithId(job[s].tx) = {}
    BY <1>c, <1>2, <1>13, <2>1 DEF RemoteStopAccepted
  <2>2. CASE WithId(job[s].tx) # {}
    <3>1. PICK t, i, r : Goto(s, [at |-> "reasoning", tx |-> t, key |-> i, row |-> r])
      BY <1>13, <2>2 DEF RemoteStopAccepted
    <3> QED
      BY <1>c, <1>1, <3>1
  <2> QED
    BY <2>1, <2>2
<1>14. ASSUME NEW w \in Workers,
              \/ MarkPending(w)
              \/ CreatePlaceholder(w)
              \/ SaveStopped(w)
              \/ SaveClosed(w)
              \/ SaveAdminClosed(w)
              \/ UpdateStopReason(w)
              \/ RemoteStopFails(w)
              \/ CallFails(w)
       PROVE  E
  <2>1. Goto(w, Idle)
    BY <1>14 DEF MarkPending, CreatePlaceholder, SaveStopped, SaveClosed, SaveAdminClosed,
                 UpdateStopReason, RemoteStopFails, CallFails
  <2> QED
    BY <1>2, <2>1
<1>15. CASE UNCHANGED job
  BY <1>15 DEF Explained
<1>16. CASE Restart
  BY <1>16, <1>d DEF Restart, Explained
<1>17. ASSUME NEW l \in Loops, Request(l) PROVE E
  <2>1. ASSUME NEW t \in Ids, NEW v \in Meters, MeterValues(l, t, v) PROVE E
    BY <1>15, <2>1 DEF MeterValues
  <2> QED
    BY <1>3, <1>6, <1>7, <1>8, <1>17, <2>1 DEF Request
<1>18. ASSUME NEW l \in Loops, Handle(l) PROVE E
  BY <1>c, <1>4, <1>5, <1>9, <1>14, <1>18 DEF Handle
<1>19. CASE Api
  <2>1. ASSUME NEW k, RemoteStart(k) PROVE E
    BY <1>15, <2>1 DEF RemoteStart
  <2>2. ASSUME NEW n, ExpirePendings(n) PROVE E
    BY <1>15, <2>2 DEF ExpirePendings
  <2> QED
    BY <1>c, <1>11, <1>12, <1>13, <1>14, <1>19, <2>1, <2>2 DEF Api
<1>20. CASE Tick \/ UNCHANGED vars
  BY <1>15, <1>20 DEF Tick, vars
<1> QED
  BY <1>c, <1>10, <1>14, <1>16, <1>17, <1>18, <1>19, <1>20 DEF Next, AllIdle

\* An id that is told for a connector was told before, or belongs to a
\* StartTransaction of that connector.
ToldGrows ==
  \A k \in Connectors : \A t \in told'[k] :
    \/ t \in told[k]
    \/ \E w \in Workers :
         job[w].at \in {"linking", "marking"} /\ job[w].conn = k /\ t \in job[w].reply

LEMMA ToldStep ==
  ASSUME TypeOK, [Next]_vars
  PROVE  ToldGrows
<1>1. CASE told' = told
  BY <1>1 DEF ToldGrows
<1>2. ASSUME NEW w \in Workers, job[w].at \in {"linking", "marking"},
             told' = [told EXCEPT ![job[w].conn] = @ \cup job[w].reply]
      PROVE  ToldGrows
  BY <1>2 DEF ToldGrows, TypeOK
<1>3. ASSUME NEW l \in Loops, Handle(l) PROVE ToldGrows
  <2>1. l \in Workers
    BY DEF Workers
  <2>2. CASE FindPending(l) \/ MarkPending(l)
    BY <1>1, <1>2, <2>1, <2>2 DEF FindPending, MarkPending
  <2> QED
    BY <1>1, <1>3, <2>2 DEF Handle, AdoptRemoteStart, CreatePlaceholder, SaveStopped, SpawnCloser
<1>4. ASSUME NEW w \in Workers, CallFails(w) PROVE ToldGrows
  BY <1>1, <1>2, <1>4 DEF CallFails
<1>5. ASSUME NEW l \in Loops, Request(l) PROVE ToldGrows
  BY <1>1, <1>5 DEF Request, StartTransaction, StatusCharging, StatusAvailable, MeterValues,
                    StopTransaction
<1>6. CASE Api
  BY <1>1, <1>6 DEF Api, RemoteStop, RemoteStopConnector, RemoteStopAccepted, UpdateStopReason,
                    RemoteStopFails, AdminClose, SaveAdminClosed, RemoteStart, ExpirePendings
<1>7. CASE Tick \/ Restart \/ UNCHANGED vars
  BY <1>1, <1>7 DEF Tick, Restart, vars
<1>8. ASSUME NEW c \in Closers, ReadToClose(c) \/ SaveClosed(c) PROVE ToldGrows
  BY <1>1, <1>8 DEF ReadToClose, SaveClosed
<1> QED
  BY <1>3, <1>4, <1>5, <1>6, <1>7, <1>8 DEF Next, AllIdle

\* The remote start that will be completed stays, whatever becomes of it.
LEMMA MarksStep ==
  ASSUME TypeOK, MarksFit, [Next]_vars
  PROVE  MarksFit'
<1>1. PendingsStay
  BY PendingsStep
<1>2. ASSUME NEW w \in Workers
      PROVE  MarkFits(pendings', job'[w])
  <2>1. Explained(w) /\ MarkFits(pendings, job[w])
    BY JobsExplained DEF MarksFit
  <2>2. CASE job'[w] = job[w]
    BY <1>1, <2>1, <2>2 DEF MarkFits, PendingsStay
  <2>3. CASE job'[w].at # "marking"
    BY <2>3 DEF MarkFits
  <2>4. CASE job'[w].at = "marking" /\ Found(w, job'[w])
    <3>1. /\ GetPending(job[w].conn) \in DOMAIN pendings
          /\ pendings[GetPending(job[w].conn)].conn = job[w].conn
      BY <2>4, PendingFound DEF Found
    <3> QED
      BY <2>4, <3>1 DEF Found, MarkFits
  <2> QED
    BY <2>1, <2>2, <2>3, <2>4 DEF Explained
<1> QED
  BY <1>2 DEF MarksFit

LEMMA MarksInvariance == Spec => [](IInv /\ MarksFit)
<1>1. Init => MarksFit
  BY DEF Init, MarksFit, MarkFits, Idle
<1>2. IInv /\ MarksFit /\ [Next]_vars => MarksFit'
  BY MarksStep DEF IInv
<1> QED
  BY Invariance, <1>1, <1>2, PTL DEF Spec

\* The links hold on, as long as no creation fails.
LEMMA LInvStep ==
  ASSUME IInv, MarksFit, LInv, [Next]_vars, "create" \notin Faults
  PROVE  LInv'
<1>1. TypeOK /\ RowsAdvance
  BY RowsStep DEF IInv
<1>3. \A w \in Workers : Explained(w)
  BY <1>1, JobsExplained
<1>4. ASSUME NEW w \in Workers
      PROVE  job'[w] = job[w] \/ LinkFits(rows', job'[w])
  <2>1. CASE job'[w].at = "linking" /\ Created(w, job'[w])
    BY <1>1, <2>1, CreatedHasRow DEF Created, LinkFits
  <2>2. CASE job'[w].at = "marking" /\ Found(w, job'[w])
    <3>1. HasRow(rows, job[w].tx, job[w].conn) /\ job[w].reply \subseteq {job[w].tx}
      BY <2>2 DEF Found, LInv, LinksFit, LinkFits
    <3>2. HasRow(rows', job[w].tx, job[w].conn)
      BY <1>1, <3>1, RowStays
    <3> QED
      BY <2>2, <3>1, <3>2 DEF Found, LinkFits
  <2>3. CASE job'[w].at \notin {"linking", "marking"}
    BY <2>3, NotLinking
  <2> QED
    BY <1>3, <2>1, <2>2, <2>3 DEF Explained
<1>5. LinksFit'
  BY <1>1, <1>4, NewLinks DEF LInv
<1>6. ToldOwn'
  <2>1. ASSUME NEW k \in Connectors, NEW t \in told'[k] PROVE HasRow(rows, t, k)
    <3>1. ToldGrows
      BY <1>1, ToldStep
    <3>2. CASE t \in told[k]
      BY <3>2 DEF LInv, ToldOwn
    <3>3. ASSUME NEW w \in Workers, job[w].at \in {"linking", "marking"}, job[w].conn = k,
                 t \in job[w].reply
          PROVE  HasRow(rows, t, k)
      BY <3>3 DEF LInv, LinksFit, LinkFits
    <3> QED
      BY <2>1, <3>1, <3>2, <3>3 DEF ToldGrows
  <2> QED
    BY <1>1, <2>1, RowStays DEF ToldOwn
<1>7. LinksMatch'
  BY <1>1, LinksStep
<1> QED
  BY <1>5, <1>6, <1>7 DEF LInv

LEMMA LinkInvariance ==
  ASSUME "create" \notin Faults
  PROVE  Spec => [](IInv /\ LInv)
<1>1. Init => LInv
  BY DEF Init, LInv, LinksFit, LinkFits, ToldOwn, LinksMatch, Idle, Workers
<1>2. IInv /\ MarksFit /\ LInv /\ [Next]_vars => LInv'
  BY LInvStep
<1> QED
  BY MarksInvariance, <1>1, <1>2, PTL DEF Spec

-----------------------------------------------------------------------------
(* The theorems. *)

\* The tables, the clock and the goroutines keep their types, whatever the
\* number of charge points, requests and closing goroutines.
THEOREM TypeCorrect == Spec => []TypeOK
<1>1. IInv => TypeOK
  BY DEF IInv
<1> QED
  BY Invariance, <1>1, PTL

\* In every row that is ever stored the energy and the two meter values are of
\* the same end, though four kinds of goroutine write it from older copies: an
\* administrator's energy is at most one Wh above them, everyone else's is their
\* difference.
THEOREM EnergyAlwaysNear == Spec => []EnergyNearMeters
<1>1. IInv => EnergyNearMeters
  BY DEF IInv
<1> QED
  BY Invariance, <1>1, PTL

\* No step opens a complete transaction again or changes which transaction a
\* row is: every copy that is saved whole is one that completes the row.
THEOREM RowsAlwaysAdvance == Spec => RowsOnlyAdvance
<1>1. IInv /\ [Next]_vars => [RowsAdvance]_vars
  BY RowsStep
<1> QED
  BY Invariance, <1>1, PTL DEF Spec, RowsOnlyAdvance

\* A remote start that is completed names a transaction on its own connector,
\* whatever expires and arrives between the read and the save, if every
\* transaction could be created.
THEOREM LinksAlwaysMatch ==
  ASSUME "create" \notin Faults
  PROVE  Spec => []LinksMatch
<1>1. IInv /\ LInv => LinksMatch
  BY DEF LInv
<1> QED
  BY LinkInvariance, <1>1, PTL

\* With ids that do not repeat, and with every transaction created, a
\* StopTransaction with an id that the charge point was told writes to one of
\* its own transactions, however many read loops it has.
THEOREM ToldIdAlwaysStopsOwnRow ==
  ASSUME "create" \notin Faults
  PROVE  Spec => []ToldIdStopsOwnRow
<1>1. ASSUME IInv, LInv PROVE ToldIdStopsOwnRow
  <2>1. ASSUME \A i, j \in DOMAIN rows : rows[i].tx = rows[j].tx => i = j,
               NEW l \in Loops, job[l].at = "stopping",
               NEW k \in Connectors, Owner[k] = PointOf[l], job[l].tx \in told[k]
        PROVE  Owner[job[l].row.conn] = PointOf[l]
    <3>1. PICK i \in DOMAIN rows : rows[i].tx = job[l].tx /\ rows[i].conn = k
      BY <1>1, <2>1 DEF LInv, ToldOwn, HasRow
    <3>2. /\ job[l].key \in DOMAIN rows
          /\ rows[job[l].key].tx = job[l].tx
          /\ rows[job[l].key].conn = job[l].row.conn
      BY <1>1, <2>1 DEF IInv, JobsFit, Fits, Saving, Workers
    <3>3. job[l].key = i
      BY <2>1, <3>1, <3>2
    <3> QED
      BY <2>1, <3>1, <3>2, <3>3
  <2> QED
    BY <2>1 DEF ToldIdStopsOwnRow
<1> QED
  BY LinkInvariance, <1>1, PTL

=============================================================================
