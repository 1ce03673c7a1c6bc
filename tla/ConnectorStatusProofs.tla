------------------------ MODULE ConnectorStatusProofs ------------------------
(***************************************************************************)
(* For any number of connectors, read loops, requests of the administrator *)
(* and monitors: the types; an overall status that a read loop has         *)
(* computed from rows that have not changed since is one that the          *)
(* connectors call for; and a connector has at most as many rows as there  *)
(* are read loops, and one more for each lookup that failed.               *)
(*                                                                         *)
(* What the loop over the rows computes is proved for rows of any number   *)
(* in any order: its rounds are a recursive function, and the least round  *)
(* at which its result were not expected, or at which the function were    *)
(* not defined, cannot exist (LeastPlace).                                 *)
(*                                                                         *)
(* Neither property is inductive.  The status is expected already when a   *)
(* reader has only computed it (FreshFits), and a row counts from when a   *)
(* goroutine has set out to create it (FewInv).                            *)
(***************************************************************************)
EXTENDS ConnectorStatus, FiniteSetTheorems, WellFoundedInduction, TLAPS

Saving == {"notifying", "starting", "stopping", "metering"}

\* A set of places that is not empty has a least one.
LEMMA LeastPlace ==
  ASSUME NEW S \in SUBSET Nat, S # {}
  PROVE  \E x \in S : \A y \in S : x <= y
  <1>. DEFINE Less == {pair \in Nat \X Nat : pair[1] < pair[2]}
  <1>1. IsWellFoundedOn(Less, Nat)
    BY NatLessThanWellFounded DEF OpToRel
  <1>. HIDE DEF Less
  <1>2. PICK x \in S : \A y \in S : <<y, x>> \notin Less
    BY <1>1, WFMin
  <1>3. ASSUME NEW y \in S, y < x PROVE <<y, x>> \in Less
    <2>1. <<y, x>> \in Nat \X Nat /\ <<y, x>>[1] < <<y, x>>[2]
      BY <1>3
    <2>. QED
      BY <2>1 DEF Less
  <1>4. ASSUME NEW y \in S PROVE x <= y
    <2>1. x \in Nat /\ y \in Nat /\ ~(y < x)
      BY <1>2, <1>3
    <2>. QED
      BY <2>1
  <1>. QED
    BY <1>4

\* First finds a row of the connector, or there is none.
LEMMA RowOfFinds ==
  ASSUME rows \in Seq(Row), NEW k \in Connectors
  PROVE  \/ RowOf(k) \in 1 .. Len(rows) /\ rows[RowOf(k)].connector = k
         \/ RowOf(k) = 0 /\ \A i \in 1 .. Len(rows) : rows[i].connector # k
  <1>. DEFINE places == {i \in DOMAIN rows : rows[i].connector = k}
  <1>1. RowOf(k) = IF places = {} THEN 0 ELSE CHOOSE i \in places : \A j \in places : i <= j
    BY DEF RowOf
  <1>2. DOMAIN rows = 1 .. Len(rows)
    OBVIOUS
  <1>3. /\ places \subseteq 1 .. Len(rows)
        /\ \A i \in 1 .. Len(rows) : i \in places <=> rows[i].connector = k
    BY <1>2
  <1>. HIDE DEF places
  <1>4. CASE places = {}
    BY <1>1, <1>3, <1>4
  <1>5. CASE places # {}
    <2>1. places \in SUBSET Nat
      BY <1>3
    <2>2. \E i \in places : \A j \in places : i <= j
      BY <2>1, <1>5, LeastPlace
    <2>3. (CHOOSE i \in places : \A j \in places : i <= j) \in places
      BY <2>2
    <2>. QED
      BY <1>1, <1>3, <1>5, <2>3
  <1>. QED
    BY <1>4, <1>5

-----------------------------------------------------------------------------
(* The loop over the connectors. *)

\* A round keeps to what is expected of the connectors it has come to.
LEMMA WeighExpected ==
  ASSUME NEW S, NEW sofar \in ExpectedOf(S), NEW status
  PROVE  Weigh(sofar, status) \in ExpectedOf(S \cup {status})
  BY DEF Weigh, ExpectedOf, Idle

\* The function of the loop is well-defined: there is one for the first m
\* rounds, whatever m, or there would be a least m without one.
LEMMA RoundsExist ==
  ASSUME NEW n \in Nat, NEW st
  PROVE  \E f : f = [i \in 0 .. n |-> IF i = 0 THEN "Available" ELSE Weigh(f[i - 1], st[i])]
  <1>. DEFINE Fits(m) ==
         \E f : f = [i \in 0 .. m |-> IF i = 0 THEN "Available" ELSE Weigh(f[i - 1], st[i])]
       Without == {m \in Nat : ~Fits(m)}
  <1>1. CASE Without = {}
    BY <1>1
  <1>2. CASE Without # {}
    <2>1. PICK m \in Without : \A k \in Without : m <= k
      BY <1>2, LeastPlace
    <2>2. m \in Nat /\ ~Fits(m)
      BY <2>1
    <2>3. m # 0
      <3>1. Fits(0)
        <4>1. [i \in 0 .. 0 |-> "Available"]
               = [i \in 0 .. 0 |-> IF i = 0 THEN "Available" ELSE Weigh([j \in 0 .. 0 |-> "Available"][i - 1], st[i])]
          OBVIOUS
        <4>. QED
          BY <4>1
      <3>. QED
        BY <2>2, <3>1
    <2>4. m - 1 \in Nat /\ Fits(m - 1)
      <3>1. m - 1 \in Nat /\ ~(m <= m - 1)
        BY <2>2, <2>3
      <3>. QED
        BY <2>1, <3>1
    <2>5. PICK g : g = [i \in 0 .. (m - 1) |-> IF i = 0 THEN "Available" ELSE Weigh(g[i - 1], st[i])]
      BY <2>4
    <2>. DEFINE f == [i \in 0 .. m |-> IF i = m THEN Weigh(g[m - 1], st[m]) ELSE g[i]]
    <2>6. ASSUME NEW i \in 0 .. m
          PROVE  f[i] = IF i = 0 THEN "Available" ELSE Weigh(f[i - 1], st[i])
      <3>1. CASE i = m
        <4>1. f[i] = Weigh(g[m - 1], st[m]) /\ i # 0
          BY <2>3, <3>1
        <4>2. f[i - 1] = g[m - 1]
          BY <2>2, <2>4, <3>1
        <4>. QED
          BY <3>1, <4>1, <4>2
      <3>2. CASE i # m
        <4>1. i \in 0 .. (m - 1) /\ f[i] = g[i]
          BY <2>2, <3>2
        <4>2. i # 0 => f[i - 1] = g[i - 1]
          BY <2>2, <3>2
        <4>3. g[i] = IF i = 0 THEN "Available" ELSE Weigh(g[i - 1], st[i])
          BY <2>5, <4>1
        <4>. QED
          BY <4>1, <4>2, <4>3
      <3>. QED
        BY <3>1, <3>2
    <2>7. f = [i \in 0 .. m |-> IF i = 0 THEN "Available" ELSE Weigh(f[i - 1], st[i])]
      BY <2>6
    <2>. QED
      BY <2>2, <2>7
  <1>. QED
    BY <1>1, <1>2

\* The rounds, as the loop goes through them.
LEMMA WeighedRounds ==
  ASSUME NEW order, Len(order) \in Nat
  PROVE  \E f : /\ Weighed(order) = f[Len(order)]
                /\ f[0] = "Available"
                /\ \A i \in 1 .. Len(order) : f[i] = Weigh(f[i - 1], rows[order[i]].status)
  <1>. DEFINE n == Len(order)
       st == [i \in 1 .. n |-> rows[order[i]].status]
       F == CHOOSE f : f = [i \in 0 .. n |-> IF i = 0 THEN "Available" ELSE Weigh(f[i - 1], rows[order[i]].status)]
  <1>1. PICK f : f = [i \in 0 .. n |-> IF i = 0 THEN "Available" ELSE Weigh(f[i - 1], st[i])]
    BY RoundsExist
  <1>2. f = [i \in 0 .. n |-> IF i = 0 THEN "Available" ELSE Weigh(f[i - 1], rows[order[i]].status)]
    <2>1. ASSUME NEW i \in 0 .. n
          PROVE  (IF i = 0 THEN "Available" ELSE Weigh(f[i - 1], st[i]))
                   = IF i = 0 THEN "Available" ELSE Weigh(f[i - 1], rows[order[i]].status)
      <3>1. i # 0 => i \in 1 .. n
        OBVIOUS
      <3>. QED
        BY <3>1
    <2>. HIDE DEF st
    <2>2. [i \in 0 .. n |-> IF i = 0 THEN "Available" ELSE Weigh(f[i - 1], st[i])]
           = [i \in 0 .. n |-> IF i = 0 THEN "Available" ELSE Weigh(f[i - 1], rows[order[i]].status)]
      BY <2>1
    <2>. QED
      BY <1>1, <2>2
  <1>3. F = [i \in 0 .. n |-> IF i = 0 THEN "Available" ELSE Weigh(F[i - 1], rows[order[i]].status)]
    BY <1>2
  <1>4. Weighed(order) = F[n]
    BY DEF Weighed
  <1>. HIDE DEF F
  <1>5. F[0] = "Available" /\ \A i \in 1 .. n : F[i] = Weigh(F[i - 1], rows[order[i]].status)
    BY <1>3
  <1>. QED
    BY <1>4, <1>5

\* An order goes through all rows.
LEMMA OrderFits ==
  ASSUME rows \in Seq(Row), NEW order \in Orders
  PROVE  /\ Len(order) = Len(rows) /\ Len(rows) \in Nat
         /\ \A i \in 1 .. Len(rows) : order[i] \in DOMAIN rows
         /\ \A k \in DOMAIN rows : \E i \in 1 .. Len(rows) : order[i] = k
  <1>. DEFINE S == DOMAIN rows
  <1>1. Len(rows) \in Nat /\ S = 1 .. Len(rows)
    OBVIOUS
  <1>2. IsFiniteSet(S) /\ Cardinality(S) = Len(rows)
    BY <1>1, FS_Interval
  <1>3. /\ order \in [1 .. Len(rows) -> S]
        /\ \A i, j \in 1 .. Len(rows) : i # j => order[i] # order[j]
    BY <1>2 DEF Orders, SetToSeqs
  <1>4. order \in Injection(S, S)
    BY <1>1, <1>3 DEF Injection, IsInjective
  <1>5. order \in Surjection(S, S)
    BY <1>2, <1>4, FS_Injection
  <1>6. Len(order) = Len(rows)
    BY <1>1, <1>3
  <1>. QED
    BY <1>1, <1>3, <1>5, <1>6 DEF Surjection

\* Whatever the order, the loop ends with what is expected of all rows.
LEMMA WeighedIsExpected ==
  ASSUME rows \in Seq(Row), NEW order \in Orders
  PROVE  Weighed(order) \in Expected
  <1>. DEFINE n == Len(rows)
              Seen(i) == {rows[order[j]].status : j \in 1 .. i}
  <1>1. Len(order) = n /\ n \in Nat /\ DOMAIN rows = 1 .. n
    BY OrderFits
  <1>2. PICK f : /\ Weighed(order) = f[n]
                 /\ f[0] = "Available"
                 /\ \A i \in 1 .. n : f[i] = Weigh(f[i - 1], rows[order[i]].status)
    BY <1>1, WeighedRounds
  <1>3. Seen(0) = {}
    OBVIOUS
  <1>4. ASSUME NEW i \in 1 .. n
        PROVE  Seen(i) = Seen(i - 1) \cup {rows[order[i]].status}
    <2>1. 1 .. i = (1 .. (i - 1)) \cup {i}
      BY <1>1
    <2>. QED
      BY <2>1
  <1>5. Seen(n) = Reported
    BY <1>1, OrderFits DEF Reported
  <1>. HIDE DEF n, Seen
  <1>. DEFINE Bad == {i \in 0 .. n : f[i] \notin ExpectedOf(Seen(i))}
  <1>6. Bad \in SUBSET Nat
    BY <1>1
  <1>7. ASSUME NEW i \in Bad, \A j \in Bad : i <= j
        PROVE  FALSE
    <2>1. i \in 0 .. n /\ f[i] \notin ExpectedOf(Seen(i))
      OBVIOUS
    <2>2. i # 0
      <3>1. "Available" \in ExpectedOf({})
        BY DEF ExpectedOf
      <3>. QED
        BY <1>2, <1>3, <2>1, <3>1
    <2>3. i - 1 \in 0 .. n /\ i \in 1 .. n /\ ~(i <= i - 1)
      BY <1>1, <2>1, <2>2
    <2>4. f[i - 1] \in ExpectedOf(Seen(i - 1))
      BY <1>7, <2>3
    <2>5. f[i] \in ExpectedOf(Seen(i))
      BY <1>2, <1>4, <2>3, <2>4, WeighExpected
    <2>. QED
      BY <2>1, <2>5
  <1>. HIDE DEF Bad
  <1>8. Bad = {}
    BY <1>6, <1>7, LeastPlace
  <1>9. f[n] \in ExpectedOf(Seen(n))
    BY <1>1, <1>8 DEF Bad
  <1>. QED
    BY <1>2, <1>5, <1>9 DEF Expected

\* What is expected is a status.
LEMMA ExpectedType ==
  ASSUME rows \in Seq(Row)
  PROVE  Expected \subseteq Statuses
  <1>1. \A i \in DOMAIN rows : rows[i] \in Row
    OBVIOUS
  <1>2. Reported \subseteq Statuses
    BY <1>1 DEF Reported, Row
  <1>. QED
    BY <1>2, StatusesAssumption DEF Expected, ExpectedOf

-----------------------------------------------------------------------------
(* Types, for any number of readers and monitors. *)

\* Where a copy of the charge point is held.
Pointing == {"comparing", "updating", "reporting", "keeping"}

ReaderPlaces == Saving \cup Pointing \cup {"idle", "listing"}

\* Where a process can be.
MayBe(p, here) ==
  /\ here \in ReaderPlaces
  /\ p \in Admins => here \in {"idle", "stopping"}
  /\ p \in Monitors => here \in {"idle", "keeping"}

Histories ==
  /\ missed \in [Connectors -> 0 .. MaxMisses]
  /\ current \subseteq Readers
  /\ fresh \in BOOLEAN

TInv ==
  /\ rows \in Seq(Row)
  /\ overall \in Statuses \cup {"Unknown"}
  /\ Histories
  /\ DOMAIN at = Processes
  /\ held \in [Processes -> Copy \cup PointCopy \cup {None}]
  /\ \A p \in Processes :
       /\ MayBe(p, at[p])
       /\ at[p] \in Saving => held[p] \in Copy
       /\ at[p] \in Pointing => held[p] \in PointCopy

LEMMA TypesFollow == TInv => TypeOK
  BY DEF TInv, Histories, TypeOK, MayBe, ReaderPlaces, Saving, Pointing, Processes

\* No step breaks the types of the history.
LEMMA HistoriesStay ==
  ASSUME Histories, [Next]_vars
  PROVE  Histories'
  <1>1. missed' \in [Connectors -> 0 .. MaxMisses]
    <2>1. ASSUME NEW r \in Readers, NEW k \in Connectors, NEW s \in Statuses, Notify(r, k, s)
          PROVE  missed' \in [Connectors -> 0 .. MaxMisses]
      <3>1. CASE UNCHANGED missed
        BY <3>1 DEF Histories
      <3>2. CASE missed[k] < MaxMisses /\ missed' = [missed EXCEPT ![k] = @ + 1]
        BY <3>2, MissesAssumption DEF Histories
      <3>. QED
        BY <2>1, <3>1, <3>2 DEF Notify
    <2>2. CASE UNCHANGED missed
      BY <2>2 DEF Histories
    <2>. QED
      BY <2>1, <2>2 DEF Next, Start, Stop, Meter, AdminClose, HoldConnector, NotifyPoint, Keep,
                        List, Compare, SaveConnector, SavePoint, CallFails, vars
  <1>2. current' \subseteq Readers
    BY DEF Histories, Next, Notify, Start, Stop, Meter, AdminClose, HoldConnector, NotifyPoint,
           Keep, Hold, List, Compare, SaveConnector, SavePoint, CallFails, vars
  <1>3. fresh' \in BOOLEAN
    <2>1. ASSUME NEW p \in Processes, SavePoint(p)
          PROVE  fresh' \in BOOLEAN
      <3>1. CASE at[p] = "updating"
        BY <2>1, <3>1 DEF SavePoint
      <3>2. CASE at[p] = "reporting"
        BY <2>1, <3>2 DEF SavePoint
      <3>3. CASE at[p] = "keeping"
        BY <2>1, <3>3 DEF SavePoint
      <3>. QED
        BY <2>1, <3>1, <3>2, <3>3 DEF SavePoint
    <2>2. CASE UNCHANGED fresh
      BY <2>2 DEF Histories
    <2>3. ASSUME NEW r \in Readers, Compare(r)
          PROVE  fresh' \in BOOLEAN
      <3>1. CASE overall = held[r].status
        BY <2>3, <3>1 DEF Compare
      <3>2. CASE overall # held[r].status
        BY <2>3, <3>2 DEF Compare, Histories
      <3>. QED
        BY <3>1, <3>2
    <2>4. ASSUME NEW p \in Processes, SaveConnector(p)
          PROVE  fresh' \in BOOLEAN
      BY <2>4 DEF SaveConnector
    <2>. QED
      BY <2>1, <2>2, <2>3, <2>4 DEF Next, Notify, Start, Stop, Meter, AdminClose, HoldConnector,
                                    NotifyPoint, Keep, Hold, List, CallFails, vars
  <1>. QED
    BY <1>1, <1>2, <1>3 DEF Histories

\* More rows leave a copy of a connector as good as it was.
LEMMA CopyStays ==
  ASSUME rows \in Seq(Row), rows' \in Seq(Row), Len(rows) <= Len(rows')
  PROVE  Copy \subseteq Copy' /\ PointCopy' = PointCopy
  <1>1. 0 .. Len(rows) \subseteq 0 .. Len(rows')
    <2>1. Len(rows) \in Nat /\ Len(rows') \in Nat
      OBVIOUS
    <2>. QED
      BY <2>1
  <1>. QED
    BY <1>1 DEF Copy, PointCopy

\* A step of one process that takes it where it may be with a fitting copy.
LEMMA TypeMoving ==
  ASSUME TInv, NEW p \in Processes, NEW here, NEW h \in Copy \cup PointCopy \cup {None},
         MayBe(p, here),
         here \in Saving => h \in Copy,
         here \in Pointing => h \in PointCopy,
         at' = [at EXCEPT ![p] = here],
         held' = [held EXCEPT ![p] = h],
         rows' \in Seq(Row), Len(rows) <= Len(rows'),
         overall' \in Statuses \cup {"Unknown"},
         Histories'
  PROVE  TInv'
  <1>1. Copy \subseteq Copy' /\ PointCopy' = PointCopy /\ None' = None
    BY CopyStays DEF TInv, None
  <1>2. DOMAIN at' = Processes /\ \A q \in Processes : at'[q] = IF q = p THEN here ELSE at[q]
    BY DEF TInv
  <1>3. held' \in [Processes -> Copy \cup PointCopy \cup {None}]
        /\ \A q \in Processes : held'[q] = IF q = p THEN h ELSE held[q]
    BY DEF TInv
  <1>4. \A q \in Processes : MayBe(q, at'[q])
    BY <1>2 DEF TInv
  <1>5. \A q \in Processes : at'[q] \in Saving => held'[q] \in Copy
    BY <1>2, <1>3 DEF TInv
  <1>6. \A q \in Processes : at'[q] \in Pointing => held'[q] \in PointCopy
    BY <1>2, <1>3 DEF TInv
  <1>. QED
    BY <1>1, <1>2, <1>3, <1>4, <1>5, <1>6 DEF TInv, MayBe

LEMMA TypeInitially == Init => TInv
  <1>. SUFFICES ASSUME Init PROVE TInv
    OBVIOUS
  <1>1. << >> \in Seq(Row)
    OBVIOUS
  <1>2. \A p \in Processes : MayBe(p, "idle")
    BY DEF MayBe, ReaderPlaces
  <1>3. Histories
    <2>1. missed \in [Connectors -> 0 .. MaxMisses]
      <3>1. 0 \in 0 .. MaxMisses
        BY MissesAssumption
      <3>. QED
        BY <3>1 DEF Init
    <2>2. current \subseteq Readers /\ fresh \in BOOLEAN
      BY DEF Init
    <2>. QED
      BY <2>1, <2>2 DEF Histories
  <1>. QED
    <2>1. /\ rows \in Seq(Row) /\ overall = "Unknown" /\ DOMAIN at = Processes
          /\ held \in [Processes -> {None}]
      BY <1>1 DEF Init
    <2>2. \A p \in Processes : at[p] = "idle"
      BY DEF Init
    <2>. QED
      BY <1>2, <1>3, <2>1, <2>2 DEF TInv, Saving, Pointing

\* Taking a copy.
LEMMA TypeHolding ==
  ASSUME TInv, NEW p \in Processes, NEW here, NEW h,
         Hold(p, here, h), MayBe(p, here), Histories',
         \/ here \in Saving /\ h \in Copy
         \/ here \in {"reporting", "keeping"} /\ h \in PointCopy
  PROVE  TInv'
  <1>1. /\ at' = [at EXCEPT ![p] = here]
        /\ held' = [held EXCEPT ![p] = h]
        /\ UNCHANGED <<rows, overall>>
    BY DEF Hold
  <1>2. /\ rows' \in Seq(Row) /\ Len(rows) <= Len(rows')
        /\ overall' \in Statuses \cup {"Unknown"}
    BY <1>1 DEF TInv
  <1>3. here \in Saving => h \in Copy
    BY DEF Saving
  <1>4. here \in Pointing => h \in PointCopy
    BY DEF Saving, Pointing
  <1>. QED
    BY <1>1, <1>2, <1>3, <1>4, TypeMoving

LEMMA RowOfType ==
  ASSUME rows \in Seq(Row), NEW k \in Connectors
  PROVE  /\ RowOf(k) \in 0 .. Len(rows)
         /\ RowOf(k) # 0 => rows[RowOf(k)].status \in Statuses
  <1>1. RowOf(k) \in 1 .. Len(rows) \/ RowOf(k) = 0
    BY RowOfFinds
  <1>2. RowOf(k) \in 1 .. Len(rows) => rows[RowOf(k)] \in Row
    OBVIOUS
  <1>. QED
    BY <1>1, <1>2 DEF Row

LEMMA CopyType ==
  ASSUME rows \in Seq(Row), NEW k \in Connectors, NEW s \in Statuses
  PROVE  [place |-> RowOf(k), connector |-> k, status |-> s] \in Copy
  BY RowOfType DEF Copy

LEMMA TypeSaving ==
  ASSUME TInv, NEW p \in Processes, SaveConnector(p), Histories'
  PROVE  TInv'
  <1>. DEFINE h == held[p]
              row == [connector |-> h.connector, status |-> h.status]
  <1>1. at[p] \in Saving /\ h \in Copy
    BY DEF SaveConnector, Saving, TInv
  <1>2. row \in Row /\ h.place \in 0 .. Len(rows)
    BY <1>1 DEF Copy, Row
  <1>3. rows' = IF h.place = 0 THEN Append(rows, row) ELSE [rows EXCEPT ![h.place] = row]
    BY DEF SaveConnector, SaveRow
  <1>4. rows' \in Seq(Row) /\ Len(rows) <= Len(rows')
    <2>. HIDE DEF h, row
    <2>1. rows \in Seq(Row)
      BY DEF TInv
    <2>2. CASE h.place = 0
      BY <1>2, <1>3, <2>1, <2>2
    <2>3. CASE h.place # 0
      BY <1>2, <1>3, <2>1, <2>3
    <2>. QED
      BY <2>2, <2>3
  <1>5. at' = [at EXCEPT ![p] = AfterSave(p)] /\ held' = [held EXCEPT ![p] = None]
        /\ overall' \in Statuses \cup {"Unknown"}
    BY DEF SaveConnector, Release, TInv
  <1>6. MayBe(p, AfterSave(p)) /\ AfterSave(p) \notin Saving \cup Pointing
    BY DEF AfterSave, Saving, Pointing, MayBe, ReaderPlaces, TInv
  <1>. QED
    BY <1>4, <1>5, <1>6, TypeMoving

LEMMA TypeStep ==
  ASSUME TInv, [Next]_vars
  PROVE  TInv'
  <1>1. rows \in Seq(Row) /\ {"Available", "Charging"} \subseteq Statuses
    BY StatusesAssumption DEF TInv
  <1>2. ASSUME NEW r \in Readers
        PROVE  r \in Processes /\ \A here \in ReaderPlaces : MayBe(r, here)
    BY <1>2, ProcessesAssumption DEF Processes, MayBe
  <1>3. Histories'
    BY HistoriesStay DEF TInv
  <1>4. ASSUME NEW r \in Readers, NEW k \in Connectors, NEW s \in Statuses, Notify(r, k, s)
        PROVE  TInv'
    <2>1. PICK i \in {0, RowOf(k)} : Hold(r, "notifying", [place |-> i, connector |-> k, status |-> s])
      BY <1>4 DEF Notify
    <2>2. [place |-> i, connector |-> k, status |-> s] \in Copy
      <3>1. i \in 0 .. Len(rows)
        BY <1>1, RowOfType
      <3>. QED
        BY <3>1 DEF Copy
    <2>3. "notifying" \in Saving /\ MayBe(r, "notifying") /\ r \in Processes
      BY <1>2 DEF ReaderPlaces, Saving
    <2>. QED
      BY <1>3, <2>1, <2>2, <2>3, TypeHolding
  <1>5. ASSUME NEW p \in Processes, NEW k \in Connectors, NEW s \in Statuses,
               NEW here \in {"starting", "stopping", "metering"}, MayBe(p, here),
               HoldConnector(p, k, here, s)
        PROVE  TInv'
    BY <1>3, <1>1, <1>5, CopyType, TypeHolding DEF HoldConnector, Saving
  <1>6. ASSUME NEW r \in Readers, NEW k \in Connectors, Start(r, k) \/ Stop(r, k) \/ Meter(r, k)
        PROVE  TInv'
    <2>1. r \in Processes /\ MayBe(r, "starting") /\ MayBe(r, "stopping") /\ MayBe(r, "metering")
      BY <1>2 DEF ReaderPlaces, Saving
    <2>2. RowOf(k) # 0 => rows[RowOf(k)].status \in Statuses
      BY <1>1, RowOfType
    <2>. QED
      BY <1>1, <1>5, <1>6, <2>1, <2>2 DEF Start, Stop, Meter
  <1>7. ASSUME NEW a \in Admins, NEW k \in Connectors, AdminClose(a, k)
        PROVE  TInv'
    <2>1. a \in Processes /\ MayBe(a, "stopping")
      BY <1>7, ProcessesAssumption DEF Processes, MayBe, ReaderPlaces, Saving
    <2>. QED
      BY <1>1, <1>5, <1>7, <2>1 DEF AdminClose
  <1>8. ASSUME NEW r \in Readers, NEW s \in Statuses, NotifyPoint(r, s)
        PROVE  TInv'
    <2>1. [place |-> 0, status |-> s] \in PointCopy
      BY DEF PointCopy
    <2>. QED
      BY <1>3, <1>2, <1>8, <2>1, TypeHolding DEF NotifyPoint, ReaderPlaces, Pointing
  <1>9. ASSUME NEW p \in Readers \cup Monitors, Keep(p)
        PROVE  TInv'
    <2>1. [place |-> 0, status |-> overall] \in PointCopy
      BY DEF PointCopy, TInv
    <2>2. p \in Processes /\ MayBe(p, "keeping")
      BY <1>9, ProcessesAssumption DEF Processes, MayBe, ReaderPlaces, Pointing
    <2>. QED
      BY <1>3, <1>9, <2>1, <2>2, TypeHolding DEF Keep
  <1>10. ASSUME NEW r \in Readers, List(r)
        PROVE  TInv'
    <2>1. PICK order \in Orders : held' = [held EXCEPT ![r] = [place |-> 0, status |-> Weighed(order)]]
      BY <1>10 DEF List
    <2>2. Weighed(order) \in Statuses
      BY <1>1, WeighedIsExpected, ExpectedType
    <2>. DEFINE h == [place |-> 0, status |-> Weighed(order)]
    <2>3. h \in PointCopy
      BY <2>2 DEF PointCopy
    <2>. HIDE DEF h
    <2>4. held' = [held EXCEPT ![r] = h]
      BY <2>1 DEF h
    <2>5. /\ at' = [at EXCEPT ![r] = "comparing"] /\ rows' \in Seq(Row) /\ Len(rows) <= Len(rows')
          /\ overall' \in Statuses \cup {"Unknown"}
      BY <1>1, <1>10 DEF List, TInv
    <2>6. MayBe(r, "comparing") /\ r \in Processes /\ "comparing" \notin Saving
      BY <1>2 DEF ReaderPlaces, Pointing, Saving
    <2>. QED
      BY <1>3, <2>3, <2>4, <2>5, <2>6, TypeMoving
  <1>11. ASSUME NEW r \in Readers, Compare(r)
         PROVE  TInv'
    <2>1. /\ rows' \in Seq(Row) /\ Len(rows) <= Len(rows')
          /\ overall' \in Statuses \cup {"Unknown"}
      BY <1>1, <1>11 DEF Compare, TInv
    <2>2. MayBe(r, "idle") /\ MayBe(r, "updating") /\ r \in Processes
          /\ {"idle", "updating"} \cap Saving = {} /\ "idle" \notin Pointing
      BY <1>2 DEF ReaderPlaces, Pointing, Saving
    <2>3. held[r] \in PointCopy
      BY <1>11, <2>2 DEF TInv, Compare, Pointing
    <2>4. CASE overall = held[r].status
      BY <1>3, <1>11, <2>1, <2>2, <2>4, TypeMoving DEF Compare, Release
    <2>5. CASE overall # held[r].status
      <3>1. at' = [at EXCEPT ![r] = "updating"] /\ held' = [held EXCEPT ![r] = held[r]]
        BY <1>11, <2>5 DEF Compare, TInv
      <3>. QED
        BY <1>3, <2>1, <2>2, <2>3, <3>1, TypeMoving
    <2>. QED
      BY <2>4, <2>5
  <1>12. ASSUME NEW p \in Processes
         PROVE  MayBe(p, "idle") /\ "idle" \notin Saving \cup Pointing
    BY DEF MayBe, ReaderPlaces, Saving, Pointing
  <1>13. ASSUME NEW p \in Processes, SavePoint(p)
         PROVE  TInv'
    <2>1. held[p] \in PointCopy
      BY <1>13 DEF SavePoint, TInv, Pointing
    <2>2. /\ at' = [at EXCEPT ![p] = "idle"] /\ held' = [held EXCEPT ![p] = None]
          /\ rows' \in Seq(Row) /\ Len(rows) <= Len(rows')
      BY <1>1, <1>13 DEF SavePoint, Release
    <2>3. overall' \in Statuses \cup {"Unknown"}
      BY <1>13, <2>1 DEF SavePoint, PointCopy
    <2>. QED
      BY <1>3, <1>12, <2>2, <2>3, TypeMoving
  <1>14. ASSUME NEW p \in Processes, SaveConnector(p)
         PROVE  TInv'
    BY <1>3, <1>14, TypeSaving
  <1>15. ASSUME NEW p \in Processes, CallFails(p)
         PROVE  TInv'
    <2>1. /\ at' = [at EXCEPT ![p] = "idle"] /\ held' = [held EXCEPT ![p] = None]
          /\ rows' \in Seq(Row) /\ Len(rows) <= Len(rows')
          /\ overall' \in Statuses \cup {"Unknown"}
      BY <1>1, <1>15 DEF CallFails, Release, TInv
    <2>. QED
      BY <1>3, <1>12, <2>1, TypeMoving
  <1>16. CASE UNCHANGED vars
    BY <1>3, <1>16 DEF vars, TInv, MayBe, Copy, PointCopy, None
  <1>. QED
    BY <1>4, <1>6, <1>7, <1>8, <1>9, <1>10, <1>11, <1>13, <1>14, <1>16, <1>15 DEF Next

-----------------------------------------------------------------------------
(* The overall status. *)

\* A reader that holds a status computed from the rows as they are holds one
\* that is expected.
Good(r) == at[r] \in {"comparing", "updating"} => held[r].status \in Expected

FreshFits ==
  /\ fresh => overall \in Expected
  /\ \A r \in current : Good(r)

\* The same rows, the same expectation.
LEMMA ExpectedStays ==
  ASSUME rows' = rows
  PROVE  Expected' = Expected
  BY DEF Expected, Reported

\* A step of one process that leaves the rows alone spoils no copy of another.
LEMMA OthersStayGood ==
  ASSUME TInv, FreshFits, NEW p \in Processes, NEW here, NEW r \in current, r # p,
         rows' = rows,
         at' = [at EXCEPT ![p] = here],
         \A q \in Processes : q # p => held'[q] = held[q]
  PROVE  Good(r)'
  <1>1. r \in Processes /\ Good(r)
    BY DEF TInv, Histories, Processes, FreshFits
  <1>2. at'[r] = at[r] /\ held'[r] = held[r]
    BY <1>1 DEF TInv
  <1>3. Expected' = Expected
    BY ExpectedStays
  <1>. QED
    BY <1>1, <1>2, <1>3 DEF Good

\* Taking a copy.
LEMMA FreshHolding ==
  ASSUME TInv, FreshFits, NEW p \in Processes, NEW here, NEW h, Hold(p, here, h),
         here \notin {"comparing", "updating"}
  PROVE  FreshFits'
  <1>1. /\ at' = [at EXCEPT ![p] = here] /\ \A q \in Processes : q # p => held'[q] = held[q]
        /\ rows' = rows /\ overall' = overall /\ fresh' = fresh /\ current' = current
    BY DEF Hold, TInv
  <1>2. Expected' = Expected
    BY <1>1, ExpectedStays
  <1>3. at'[p] = here
    BY <1>1 DEF TInv
  <1>4. ASSUME NEW r \in current'
        PROVE  Good(r)'
    <2>1. CASE r = p
      BY <1>3, <2>1 DEF Good
    <2>2. CASE r # p
      BY <1>1, <1>4, <2>2, OthersStayGood
    <2>. QED
      BY <2>1, <2>2
  <1>. QED
    BY <1>1, <1>2, <1>4 DEF FreshFits

\* p is done with a copy of the charge point and no longer among the current.
LEMMA FreshLeaving ==
  ASSUME TInv, FreshFits, NEW p \in Processes, Release(p, "idle"),
         rows' = rows, current' = current \ {p},
         fresh' => overall' \in Expected
  PROVE  FreshFits'
  <1>1. /\ at' = [at EXCEPT ![p] = "idle"]
        /\ \A q \in Processes : q # p => held'[q] = held[q]
    BY DEF Release, TInv
  <1>2. \A r \in current' : Good(r)'
    BY <1>1, OthersStayGood
  <1>. QED
    BY <1>2, ExpectedStays DEF FreshFits

\* A connector is saved: when its row changes, no copy is current any more.
LEMMA FreshSaving ==
  ASSUME TInv, FreshFits, NEW p \in Processes, SaveConnector(p)
  PROVE  FreshFits'
  <1>1. /\ at' = [at EXCEPT ![p] = AfterSave(p)]
        /\ \A q \in Processes : q # p => held'[q] = held[q]
        /\ fresh' = (fresh /\ rows' = rows) /\ overall' = overall
        /\ current' = {r \in current : rows' = rows}
    BY DEF SaveConnector, Release, TInv
  <1>2. AfterSave(p) \notin {"comparing", "updating"}
    BY DEF AfterSave
  <1>3. CASE rows' = rows
    <2>1. Expected' = Expected
      BY <1>3, ExpectedStays
    <2>2. ASSUME NEW r \in current'
          PROVE  Good(r)'
      <3>1. r \in current /\ at'[p] = AfterSave(p)
        BY <1>1, <1>3, <2>2 DEF TInv
      <3>2. CASE r = p
        BY <1>2, <3>1, <3>2 DEF Good
      <3>3. CASE r # p
        BY <1>1, <1>3, <3>1, <3>3, OthersStayGood
      <3>. QED
        BY <3>2, <3>3
    <2>. QED
      BY <1>1, <2>1, <2>2 DEF FreshFits
  <1>4. CASE rows' # rows
    BY <1>1, <1>4 DEF FreshFits
  <1>. QED
    BY <1>3, <1>4

LEMMA FreshStep ==
  ASSUME TInv, FreshFits, [Next]_vars
  PROVE  FreshFits'
  <1>1. Readers \subseteq Processes /\ Admins \subseteq Processes /\ Monitors \subseteq Processes
        /\ current \subseteq Readers
    BY DEF Processes, TInv, Histories
  <1>2. ASSUME NEW r \in Readers, NEW k \in Connectors, NEW s \in Statuses, Notify(r, k, s)
        PROVE  FreshFits'
    BY <1>1, <1>2, FreshHolding DEF Notify
  <1>3. ASSUME NEW p \in Processes, NEW k \in Connectors, NEW s,
               NEW here \in {"starting", "stopping", "metering"}, HoldConnector(p, k, here, s)
        PROVE  FreshFits'
    BY <1>3, FreshHolding DEF HoldConnector
  <1>4. ASSUME NEW r \in Readers, NEW k \in Connectors, Start(r, k) \/ Stop(r, k) \/ Meter(r, k)
        PROVE  FreshFits'
    BY <1>1, <1>3, <1>4 DEF Start, Stop, Meter
  <1>5. ASSUME NEW a \in Admins, NEW k \in Connectors, AdminClose(a, k)
        PROVE  FreshFits'
    BY <1>1, <1>3, <1>5 DEF AdminClose
  <1>6. ASSUME NEW r \in Readers, NEW s \in Statuses, NotifyPoint(r, s)
        PROVE  FreshFits'
    BY <1>1, <1>6, FreshHolding DEF NotifyPoint
  <1>7. ASSUME NEW p \in Readers \cup Monitors, Keep(p)
        PROVE  FreshFits'
    BY <1>1, <1>7, FreshHolding DEF Keep
  <1>8. ASSUME NEW r \in Readers, List(r)
        PROVE  FreshFits'
    <2>1. PICK order \in Orders : held' = [held EXCEPT ![r] = [place |-> 0, status |-> Weighed(order)]]
      BY <1>8 DEF List
    <2>2. Weighed(order) \in Expected
      BY WeighedIsExpected DEF TInv
    <2>3. /\ at' = [at EXCEPT ![r] = "comparing"] /\ rows' = rows /\ Expected' = Expected
          /\ current' = current \cup {r} /\ fresh' = fresh /\ overall' = overall
      BY <1>8, ExpectedStays DEF List
    <2>4. held'[r].status = Weighed(order) /\ \A q \in Processes : q # r => held'[q] = held[q]
      BY <1>1, <2>1 DEF TInv
    <2>5. Good(r)'
      BY <2>2, <2>3, <2>4 DEF Good
    <2>6. ASSUME NEW q \in current, q # r
          PROVE  Good(q)'
      BY <1>1, <2>3, <2>4, <2>6, OthersStayGood
    <2>. QED
      BY <2>3, <2>5, <2>6 DEF FreshFits
  <1>9. ASSUME NEW r \in Readers, Compare(r)
        PROVE  FreshFits'
    <2>1. at[r] = "comparing" /\ overall' = overall /\ rows' = rows
      BY <1>9 DEF Compare
    <2>2. CASE overall = held[r].status
      <3>1. Release(r, "idle") /\ current' = current \ {r} /\ fresh' = (fresh \/ r \in current)
        BY <1>9, <2>2 DEF Compare
      <3>2. fresh' => overall' \in Expected
        BY <2>1, <2>2, <3>1 DEF FreshFits, Good
      <3>. QED
        BY <1>1, <2>1, <3>1, <3>2, FreshLeaving
    <2>3. CASE overall # held[r].status
      <3>1. /\ at' = [at EXCEPT ![r] = "updating"]
            /\ held' = held /\ current' = current /\ fresh' = fresh
        BY <1>9, <2>3 DEF Compare
      <3>2. Expected' = Expected
        BY <2>1, ExpectedStays
      <3>3. ASSUME NEW q \in current
            PROVE  Good(q)'
        <4>1. CASE q = r
          BY <2>1, <3>1, <3>2, <4>1 DEF FreshFits, Good
        <4>2. CASE q # r
          BY <1>1, <2>1, <3>1, <4>2, OthersStayGood
        <4>. QED
          BY <4>1, <4>2
      <3>. QED
        BY <2>1, <3>1, <3>2, <3>3 DEF FreshFits
    <2>. QED
      BY <2>2, <2>3
  <1>10. ASSUME NEW p \in Processes, SavePoint(p)
         PROVE  FreshFits'
    <2>1. /\ Release(p, "idle") /\ rows' = rows /\ current' = current \ {p}
          /\ at[p] \in {"updating", "reporting", "keeping"}
          /\ overall' = held[p].status
      BY <1>10 DEF SavePoint
    <2>2. CASE at[p] = "updating"
      <3>1. fresh' => overall' \in Expected
        BY <1>10, <2>1, <2>2 DEF SavePoint, FreshFits, Good
      <3>. QED
        BY <2>1, <3>1, FreshLeaving
    <2>3. CASE at[p] = "reporting"
      <3>1. fresh' = FALSE
        BY <1>10, <2>3 DEF SavePoint
      <3>. QED
        BY <2>1, <3>1, FreshLeaving
    <2>4. CASE at[p] = "keeping"
      <3>1. fresh' => overall' \in Expected
        BY <1>10, <2>4 DEF SavePoint, FreshFits
      <3>. QED
        BY <2>1, <3>1, FreshLeaving
    <2>. QED
      BY <2>1, <2>2, <2>3, <2>4
  <1>11. ASSUME NEW p \in Processes, SaveConnector(p)
         PROVE  FreshFits'
    BY <1>11, FreshSaving
  <1>12. ASSUME NEW p \in Processes, CallFails(p)
         PROVE  FreshFits'
    BY <1>12, FreshLeaving DEF CallFails, FreshFits
  <1>13. CASE UNCHANGED vars
    BY <1>13, ExpectedStays DEF vars, FreshFits, Good
  <1>. QED
    BY <1>2, <1>4, <1>5, <1>6, <1>7, <1>8, <1>9, <1>10, <1>11, <1>12, <1>13 DEF Next

-----------------------------------------------------------------------------
(* Rows, for any number of readers. *)

\* The rows of connector k, and the readers that are about to create one more.
RowsOf(k)   == {i \in 1 .. Len(rows) : rows[i].connector = k}
Creating(k) ==
  {r \in Readers : at[r] = "notifying" /\ held[r].place = 0 /\ held[r].connector = k}

\* A copy of an existing row has its connector, and only a reader that notifies
\* holds one without a primary key.
Rooted(R, p, here, h) ==
  IF h.place = 0
  THEN p \in Readers /\ here = "notifying"
  ELSE h.place \in 1 .. Len(R) /\ R[h.place].connector = h.connector

\* A reader that creates a row has found none, or its lookup failed: as soon as
\* there is one, no other reader sets out to create another.
FewInv ==
  /\ \A p \in Processes : at[p] \in Saving => Rooted(rows, p, at[p], held[p])
  /\ \A k \in Connectors :
       Cardinality(RowsOf(k)) + Cardinality(Creating(k)) <= Cardinality(Readers) + missed[k]

\* Both sets are finite.
LEMMA FewAreFinite ==
  ASSUME IsFiniteSet(Readers), TInv, NEW k \in Connectors
  PROVE  /\ IsFiniteSet(RowsOf(k)) /\ Cardinality(RowsOf(k)) \in Nat
         /\ IsFiniteSet(Creating(k)) /\ Cardinality(Creating(k)) \in Nat
         /\ Cardinality(Readers) \in Nat /\ Cardinality(Creating(k)) <= Cardinality(Readers)
        /\ missed[k] \in Nat
  <1>1. RowsOf(k) \in SUBSET (1 .. Len(rows)) /\ IsFiniteSet(1 .. Len(rows))
    <2>1. Len(rows) \in Int
      BY DEF TInv
    <2>. QED
      BY <2>1, FS_Interval DEF RowsOf
  <1>2. Creating(k) \in SUBSET Readers
    BY DEF Creating
  <1>3. IsFiniteSet(RowsOf(k)) /\ IsFiniteSet(Creating(k))
        /\ Cardinality(Creating(k)) <= Cardinality(Readers)
    BY <1>1, <1>2, FS_Subset
  <1>4. missed[k] \in Nat
    BY MissesAssumption DEF TInv, Histories
  <1>. QED
    BY <1>3, <1>4, FS_CardinalityType

\* A step that leaves the rows alone and puts one process somewhere.
LEMMA FewMoving ==
  ASSUME IsFiniteSet(Readers), TInv, TInv', FewInv, NEW p \in Processes, NEW here,
         rows' = rows,
         at' = [at EXCEPT ![p] = here],
         \A q \in Processes : q # p => held'[q] = held[q],
         here \in Saving => Rooted(rows, p, here, held'[p]),
         here = "notifying" /\ held'[p].place = 0 => RowsOf(held'[p].connector) = {},
         missed' = missed
  PROVE  FewInv'
  <1>1. \A q \in Processes : at'[q] = IF q = p THEN here ELSE at[q]
    BY DEF TInv
  <1>2. ASSUME NEW q \in Processes, at'[q] \in Saving
        PROVE  Rooted(rows', q, at'[q], held'[q])
    <2>1. CASE q = p
      BY <1>1, <1>2, <2>1
    <2>2. CASE q # p
      <3>1. at'[q] = at[q] /\ held'[q] = held[q]
        BY <1>1, <2>2
      <3>. QED
        BY <1>2, <3>1 DEF FewInv
    <2>. QED
      BY <2>1, <2>2
  <1>3. ASSUME NEW k \in Connectors
        PROVE  Cardinality(RowsOf(k)') + Cardinality(Creating(k)') <= Cardinality(Readers) + missed'[k]
    <2>1. RowsOf(k)' = RowsOf(k)
      BY DEF RowsOf
    <2>2. /\ Cardinality(RowsOf(k)) \in Nat /\ Cardinality(Creating(k)) \in Nat
          /\ IsFiniteSet(Creating(k)) /\ Cardinality(Readers) \in Nat /\ missed[k] \in Nat
          /\ Cardinality(Creating(k)') \in Nat /\ Cardinality(Creating(k)') <= Cardinality(Readers)
      <3>1. /\ Cardinality(Creating(k)') \in Nat /\ Cardinality(Creating(k)') <= Cardinality(Readers)
        <4>1. Creating(k)' \in SUBSET Readers
          BY DEF Creating
        <4>. QED
          BY <4>1, FS_Subset, FS_CardinalityType
      <3>. QED
        BY <3>1, FewAreFinite
    <2>3. CASE p \in Creating(k)'
      \* p has found no row.
      <3>1. RowsOf(k) = {}
        BY <1>1, <2>3 DEF Creating
      <3>2. Cardinality(RowsOf(k)) = 0
        BY <3>1, FS_EmptySet
      <3>. QED
        BY <2>1, <2>2, <3>2
    <2>4. CASE p \notin Creating(k)'
      <3>1. Creating(k)' \in SUBSET Creating(k)
        BY <1>1, <2>4 DEF Creating, Processes
      <3>2. Cardinality(Creating(k)') <= Cardinality(Creating(k))
        BY <2>2, <3>1, FS_Subset
      <3>3. Cardinality(RowsOf(k)) + Cardinality(Creating(k)) <= Cardinality(Readers) + missed[k]
        BY DEF FewInv
      <3>. QED
        BY <2>1, <2>2, <3>2, <3>3
    <2>. QED
      BY <2>3, <2>4
  <1>. QED
    BY <1>2, <1>3 DEF FewInv

\* A lookup that fails adds at most one reader that creates a row.
LEMMA FewMissing ==
  ASSUME IsFiniteSet(Readers), TInv, TInv', FewInv, NEW r \in Readers, NEW k \in Connectors,
         NEW s, Hold(r, "notifying", [place |-> 0, connector |-> k, status |-> s]),
         missed' = [missed EXCEPT ![k] = @ + 1]
  PROVE  FewInv'
  <1>. DEFINE h == [place |-> 0, connector |-> k, status |-> s]
  <1>1. r \in Processes /\ h.place = 0 /\ h.connector = k
    BY DEF Processes
  <1>. HIDE DEF h
  <1>2. /\ rows' = rows
        /\ \A q \in Processes : at'[q] = IF q = r THEN "notifying" ELSE at[q]
        /\ \A q \in Processes : held'[q] = IF q = r THEN h ELSE held[q]
    BY <1>1 DEF Hold, TInv, h
  <1>3. ASSUME NEW q \in Processes, at'[q] \in Saving
        PROVE  Rooted(rows', q, at'[q], held'[q])
    <2>1. CASE q = r
      BY <1>1, <1>2, <2>1 DEF Rooted
    <2>2. CASE q # r
      BY <1>2, <1>3, <2>2 DEF FewInv
    <2>. QED
      BY <2>1, <2>2
  <1>4. ASSUME NEW j \in Connectors
        PROVE  Cardinality(RowsOf(j)') + Cardinality(Creating(j)') <= Cardinality(Readers) + missed'[j]
    <2>1. RowsOf(j)' = RowsOf(j)
      BY <1>2 DEF RowsOf
    <2>2. /\ Cardinality(RowsOf(j)) \in Nat
          /\ IsFiniteSet(Creating(j)) /\ Cardinality(Creating(j)) \in Nat
          /\ Cardinality(Readers) \in Nat /\ missed[j] \in Nat
          /\ Cardinality(RowsOf(j)) + Cardinality(Creating(j)) <= Cardinality(Readers) + missed[j]
      BY FewAreFinite DEF FewInv
    <2>3. CASE j = k
      <3>1. missed'[j] = missed[j] + 1
        BY <2>3 DEF TInv, Histories
      <3>2. Creating(j)' \in SUBSET (Creating(j) \cup {r})
        BY <1>2 DEF Creating, Processes
      <3>3. /\ IsFiniteSet(Creating(j) \cup {r})
            /\ Cardinality(Creating(j) \cup {r}) \in {Cardinality(Creating(j)), Cardinality(Creating(j)) + 1}
        BY <2>2, FS_AddElement
      <3>4. /\ Cardinality(Creating(j)') \in Nat
            /\ Cardinality(Creating(j)') <= Cardinality(Creating(j) \cup {r})
        BY <3>2, <3>3, FS_Subset, FS_CardinalityType
      <3>. QED
        BY <2>1, <2>2, <3>1, <3>3, <3>4
    <2>4. CASE j # k
      <3>1. missed'[j] = missed[j]
        BY <2>4 DEF TInv, Histories
      <3>2. Creating(j)' \in SUBSET Creating(j)
        BY <1>1, <1>2, <2>4 DEF Creating, Processes
      <3>3. Cardinality(Creating(j)') \in Nat /\ Cardinality(Creating(j)') <= Cardinality(Creating(j))
        BY <2>2, <3>2, FS_Subset, FS_CardinalityType
      <3>. QED
        BY <2>1, <2>2, <3>1, <3>3
    <2>. QED
      BY <2>3, <2>4
  <1>. QED
    BY <1>3, <1>4 DEF FewInv

\* A row that is created takes the place of the reader that creates it.
LEMMA FewSaving ==
  ASSUME IsFiniteSet(Readers), TInv, FewInv, NEW p \in Processes, SaveConnector(p)
  PROVE  FewInv'
  <1>. DEFINE h == held[p]
              row == [connector |-> h.connector, status |-> h.status]
  <1>1. at[p] \in Saving /\ h \in Copy /\ Rooted(rows, p, at[p], h)
    BY DEF SaveConnector, Saving, TInv, FewInv
  <1>2. row \in Row /\ row.connector = h.connector
    BY <1>1 DEF Copy, Row
  <1>3. rows' = IF h.place = 0 THEN Append(rows, row) ELSE [rows EXCEPT ![h.place] = row]
    BY DEF SaveConnector, SaveRow
  <1>4. rows \in Seq(Row) /\ Len(rows) \in Nat
    BY DEF TInv
  <1>5. \A q \in Processes : at'[q] = IF q = p THEN AfterSave(p) ELSE at[q]
    BY DEF SaveConnector, Release, TInv
  <1>6. AfterSave(p) \notin Saving
    BY DEF AfterSave, Saving
  <1>7. \A q \in Processes : q # p => held'[q] = held[q]
    BY DEF SaveConnector, Release, TInv
  <1>. HIDE DEF h, row
  <1>8. /\ Len(rows') \in Nat /\ Len(rows) <= Len(rows')
        /\ \A i \in 1 .. Len(rows) : rows'[i].connector = rows[i].connector
        /\ h.place = 0 => Len(rows') = Len(rows) + 1 /\ rows'[Len(rows) + 1] = row
        /\ h.place # 0 => Len(rows') = Len(rows)
    <2>1. CASE h.place = 0
      BY <1>2, <1>3, <1>4, <2>1
    <2>2. CASE h.place # 0
      <3>1. h.place \in 1 .. Len(rows) /\ rows[h.place].connector = h.connector
        BY <1>1, <2>2 DEF Rooted
      <3>. QED
        BY <1>2, <1>3, <1>4, <2>2, <3>1
    <2>. QED
      BY <2>1, <2>2
  <1>9. ASSUME NEW q \in Processes, at'[q] \in Saving
        PROVE  Rooted(rows', q, at'[q], held'[q])
    <2>1. at'[q] = at[q] /\ held'[q] = held[q]
      BY <1>5, <1>6, <1>7, <1>9
    <2>2. Rooted(rows, q, at[q], held[q])
      BY <1>9, <2>1 DEF FewInv
    <2>3. 1 .. Len(rows) \subseteq 1 .. Len(rows')
      BY <1>4, <1>8
    <2>. QED
      BY <1>8, <2>1, <2>2, <2>3 DEF Rooted
  <1>10. ASSUME NEW k \in Connectors
         PROVE  Cardinality(RowsOf(k)') + Cardinality(Creating(k)') <= Cardinality(Readers) + missed'[k]
    <2>1. /\ IsFiniteSet(RowsOf(k)) /\ Cardinality(RowsOf(k)) \in Nat
          /\ IsFiniteSet(Creating(k)) /\ Cardinality(Creating(k)) \in Nat
          /\ Cardinality(RowsOf(k)) + Cardinality(Creating(k)) <= Cardinality(Readers) + missed[k]
          /\ Cardinality(Readers) \in Nat /\ missed'[k] = missed[k] /\ missed[k] \in Nat
      BY FewAreFinite DEF FewInv, SaveConnector
    <2>2. Creating(k)' = Creating(k) \ {p}
      BY <1>5, <1>6, <1>7 DEF Creating, Processes, Saving
    <2>3. CASE h.place = 0 /\ h.connector = k
      <3>1. p \in Creating(k)
        BY <1>1, <2>3 DEF Creating, Rooted, h
      <3>2. RowsOf(k)' = RowsOf(k) \cup {Len(rows) + 1} /\ Len(rows) + 1 \notin RowsOf(k)
        BY <1>2, <1>4, <1>8, <2>3 DEF RowsOf
      <3>3. Cardinality(RowsOf(k)') = Cardinality(RowsOf(k)) + 1
        BY <2>1, <3>2, FS_AddElement
      <3>4. Cardinality(Creating(k)') = Cardinality(Creating(k)) - 1
        BY <2>1, <2>2, <3>1, FS_RemoveElement
      <3>. QED
        BY <2>1, <3>3, <3>4
    <2>4. CASE ~(h.place = 0 /\ h.connector = k)
      <3>1. p \notin Creating(k)
        BY <2>4 DEF Creating, h
      <3>2. RowsOf(k)' = RowsOf(k)
        <4>1. CASE h.place = 0
          BY <1>2, <1>4, <1>8, <2>4, <4>1 DEF RowsOf
        <4>2. CASE h.place # 0
          BY <1>8, <4>2 DEF RowsOf
        <4>. QED
          BY <4>1, <4>2
      <3>. QED
        BY <2>1, <2>2, <3>1, <3>2
    <2>. QED
      BY <2>3, <2>4
  <1>. QED
    BY <1>9, <1>10 DEF FewInv

LEMMA FewStep ==
  ASSUME IsFiniteSet(Readers), TInv, FewInv, [Next]_vars
  PROVE  FewInv'
  <1>1. TInv' /\ rows \in Seq(Row) /\ DOMAIN held = Processes
        /\ Readers \subseteq Processes /\ Admins \subseteq Processes /\ Monitors \subseteq Processes
    BY TypeStep DEF TInv, Processes
  \* A copy is taken of the row that First finds, if any.
  <1>2. ASSUME NEW k \in Connectors
        PROVE  \/ RowOf(k) \in 1 .. Len(rows) /\ rows[RowOf(k)].connector = k
               \/ RowOf(k) = 0 /\ RowsOf(k) = {}
    BY <1>1, RowOfFinds DEF RowsOf
  <1>3. ASSUME NEW p \in Processes, NEW here, NEW h, Hold(p, here, h),
               here \in Saving => Rooted(rows, p, here, h),
               here = "notifying" /\ h.place = 0 => RowsOf(h.connector) = {},
               missed' = missed
        PROVE  FewInv'
    <2>1. rows' = rows /\ at' = [at EXCEPT ![p] = here] /\ held'[p] = h
          /\ \A q \in Processes : q # p => held'[q] = held[q]
      BY <1>1, <1>3 DEF Hold
    <2>. QED
      BY <1>1, <1>3, <2>1, FewMoving
  <1>4. ASSUME NEW r \in Readers, NEW k \in Connectors, NEW s \in Statuses, Notify(r, k, s)
        PROVE  FewInv'
    <2>. DEFINE h == [place |-> RowOf(k), connector |-> k, status |-> s]
    <2>1. Rooted(rows, r, "notifying", h) /\ (h.place = 0 => RowsOf(h.connector) = {})
      BY <1>1, <1>2 DEF Rooted
    <2>2. CASE Hold(r, "notifying", h) /\ UNCHANGED missed
      <3>. HIDE DEF h
      <3>. QED
        BY <1>1, <1>3, <2>1, <2>2
    <2>3. CASE /\ Hold(r, "notifying", [place |-> 0, connector |-> k, status |-> s])
               /\ missed' = [missed EXCEPT ![k] = @ + 1]
      BY <1>1, <2>3, FewMissing
    <2>. QED
      BY <1>4, <2>2, <2>3 DEF Notify
  <1>5. ASSUME NEW p \in Processes, NEW k \in Connectors, NEW s,
               NEW here \in {"starting", "stopping", "metering"}, HoldConnector(p, k, here, s)
        PROVE  FewInv'
    <2>. DEFINE h == [place |-> RowOf(k), connector |-> k, status |-> s]
    <2>1. Rooted(rows, p, here, h)
      BY <1>1, <1>2, <1>5 DEF Rooted, HoldConnector
    <2>2. Hold(p, here, h) /\ here # "notifying" /\ missed' = missed
      BY <1>5 DEF HoldConnector
    <2>. HIDE DEF h
    <2>. QED
      BY <1>1, <1>3, <2>1, <2>2
  <1>6. ASSUME NEW r \in Readers, NEW k \in Connectors, Start(r, k) \/ Stop(r, k) \/ Meter(r, k)
        PROVE  FewInv'
    BY <1>1, <1>5, <1>6 DEF Start, Stop, Meter
  <1>7. ASSUME NEW a \in Admins, NEW k \in Connectors, AdminClose(a, k)
        PROVE  FewInv'
    BY <1>1, <1>5, <1>7 DEF AdminClose
  <1>8. ASSUME NEW p \in Processes, NEW here, here \notin Saving,
               rows' = rows, missed' = missed, at' = [at EXCEPT ![p] = here],
               \A q \in Processes : q # p => held'[q] = held[q]
        PROVE  FewInv'
    <2>1. here # "notifying"
      BY <1>8 DEF Saving
    <2>. QED
      BY <1>1, <1>8, <2>1, FewMoving
  <1>9. ASSUME NEW p \in Readers \cup Monitors, (\E s \in Statuses : NotifyPoint(p, s)) \/ Keep(p)
        PROVE  FewInv'
    <2>1. \/ at' = [at EXCEPT ![p] = "reporting"]
          \/ at' = [at EXCEPT ![p] = "keeping"]
      BY <1>9 DEF NotifyPoint, Keep, Hold
    <2>2. rows' = rows /\ missed' = missed /\ \A q \in Processes : q # p => held'[q] = held[q]
      BY <1>1, <1>9 DEF NotifyPoint, Keep, Hold
    <2>. QED
      BY <1>1, <1>8, <2>1, <2>2 DEF Saving
  <1>10. ASSUME NEW r \in Readers, List(r) \/ Compare(r)
         PROVE  FewInv'
    <2>1. \/ at' = [at EXCEPT ![r] = "comparing"]
          \/ at' = [at EXCEPT ![r] = "idle"]
          \/ at' = [at EXCEPT ![r] = "updating"]
      BY <1>10 DEF List, Compare, Release
    <2>2. rows' = rows /\ missed' = missed /\ \A q \in Processes : q # r => held'[q] = held[q]
      BY <1>1, <1>10 DEF List, Compare, Release
    <2>. QED
      BY <1>1, <1>8, <2>1, <2>2 DEF Saving
  <1>11. ASSUME NEW p \in Processes, SavePoint(p) \/ CallFails(p)
         PROVE  FewInv'
    <2>1. /\ at' = [at EXCEPT ![p] = "idle"] /\ rows' = rows /\ missed' = missed
          /\ \A q \in Processes : q # p => held'[q] = held[q]
      BY <1>1, <1>11 DEF SavePoint, CallFails, Release
    <2>. QED
      BY <1>8, <2>1 DEF Saving
  <1>12. ASSUME NEW p \in Processes, SaveConnector(p)
         PROVE  FewInv'
    BY <1>12, FewSaving
  <1>13. CASE UNCHANGED vars
    BY <1>13 DEF vars, FewInv, RowsOf, Creating, Rooted
  <1>. QED
    BY <1>4, <1>6, <1>7, <1>9, <1>10, <1>11, <1>12, <1>13 DEF Next

LEMMA FewInitially ==
  ASSUME IsFiniteSet(Readers), Init
  PROVE  FewInv
  <1>1. ASSUME NEW k \in Connectors
        PROVE  RowsOf(k) = {} /\ Creating(k) = {}
    BY DEF Init, RowsOf, Creating, Processes
  <1>2. Cardinality({}) = 0 /\ Cardinality(Readers) \in Nat
    BY FS_EmptySet, FS_CardinalityType
  <1>3. \A p \in Processes : at[p] \notin Saving
    BY DEF Init, Saving
  <1>4. \A k \in Connectors : missed[k] = 0
    BY DEF Init
  <1>5. ASSUME NEW k \in Connectors
        PROVE  Cardinality(RowsOf(k)) + Cardinality(Creating(k)) <= Cardinality(Readers) + missed[k]
    <2>1. Cardinality(RowsOf(k)) = 0 /\ Cardinality(Creating(k)) = 0 /\ missed[k] = 0
      BY <1>1, <1>2, <1>4
    <2>. QED
      BY <1>2, <2>1
  <1>. QED
    BY <1>3, <1>5 DEF FewInv

-----------------------------------------------------------------------------
\* Every variable of the model keeps its type, the copies that are held while
\* others save included: what the loop over the connectors (handlers_db.go:961)
\* makes of their statuses, rows in any order, is always a status.
THEOREM TypeCorrect == Spec => []TypeOK
  <1>1. TInv /\ [Next]_vars => TInv'
    BY TypeStep
  <1>. QED
    BY <1>1, TypeInitially, TypesFollow, PTL DEF Spec

\* "Now update the overall charge point status based on connector statuses"
\* (handlers_db.go:948) is done right, in whatever order the rows come, for any
\* number of connectors, read loops, administrators and monitors: what a reader
\* has computed from rows that have not changed since is a status that they
\* call for, and stays so until a connector changes or someone saves another.
THEOREM OverallAlwaysFresh == Spec => []OverallIsFresh
  <1>1. Init => TInv /\ FreshFits
    <2>1. Init => FreshFits
      BY DEF Init, FreshFits
    <2>. QED
      BY <2>1, TypeInitially
  <1>2. TInv /\ FreshFits /\ [Next]_vars => TInv' /\ FreshFits'
    BY TypeStep, FreshStep
  <1>3. FreshFits => OverallIsFresh
    BY DEF FreshFits, OverallIsFresh
  <1>. QED
    BY <1>1, <1>2, <1>3, PTL DEF Spec

\* "Update or create connector" (handlers_db.go:926): however often the charge
\* point notifies and reconnects, a connector gets a row for each lookup that
\* failed and, besides, at most as many as read loops were running at once.
THEOREM RowsStayFew ==
  ASSUME IsFiniteSet(Readers)
  PROVE  Spec => []RowsAreFew
  <1>1. Init => TInv /\ FewInv
    BY TypeInitially, FewInitially
  <1>2. TInv /\ FewInv /\ [Next]_vars => TInv' /\ FewInv'
    BY TypeStep, FewStep
  <1>3. TInv /\ FewInv => RowsAreFew
    <2>. SUFFICES ASSUME TInv, FewInv, NEW k \in Connectors
                  PROVE  Cardinality({i \in DOMAIN rows : rows[i].connector = k})
                           <= Cardinality(Readers) + missed[k]
      BY DEF RowsAreFew
    <2>1. {i \in DOMAIN rows : rows[i].connector = k} = RowsOf(k)
      BY DEF RowsOf, TInv
    <2>2. /\ Cardinality(RowsOf(k)) \in Nat /\ Cardinality(Creating(k)) \in Nat
          /\ Cardinality(Readers) \in Nat /\ missed[k] \in Nat
      BY FewAreFinite
    <2>3. Cardinality(RowsOf(k)) + Cardinality(Creating(k)) <= Cardinality(Readers) + missed[k]
      BY DEF FewInv
    <2>4. Cardinality(RowsOf(k)) <= Cardinality(Readers) + missed[k]
      BY <2>2, <2>3
    <2>. QED
      BY <2>1, <2>4
  <1>. QED
    BY <1>1, <1>2, <1>3, PTL DEF Spec

=============================================================================
