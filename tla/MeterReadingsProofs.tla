------------------------- MODULE MeterReadingsProofs -------------------------
(***************************************************************************)
(* Proofs about MeterReadings, for any values, window and bounds.          *)
(*                                                                         *)
(* Two arguments.  A window is the beginning of an order of all readings,  *)
(* so whatever is later than its i-th reading comes before it: fewer       *)
(* readings than a window has places.  And a backup is a copy of a reading *)
(* that a charge point has sent, through any number of copies of copies.   *)
(***************************************************************************)
EXTENDS MeterReadings, FiniteSetTheorems, TLAPS

\* A reading is worth what the charge point has reported, in the same unit.
Repeats(r) ==
  /\ r.measurand = "Register"
  /\ \E j \in Registers : readings[j].value = r.value /\ readings[j].unit = r.unit

\* The copies that were saved, and the one about to be, repeat a report.
CopiesRepeat ==
  Uniform =>
    /\ \A i \in DOMAIN readings \ Reported : Repeats(readings[i])
    /\ backup # Nothing => Repeats(backup)

IInv == TypeOK /\ CopiesRepeat /\ StopIsReported

-----------------------------------------------------------------------------
(* Orders and windows. *)

LEMMA DomainOfReadings ==
  ASSUME TypeOK
  PROVE  /\ Len(readings) \in Nat
         /\ DOMAIN readings = 1 .. Len(readings)
         /\ \A i \in DOMAIN readings : readings[i] \in Reading
BY DEF TypeOK

\* There are n numbers from 1 to n.
LEMMA OneTo ==
  ASSUME NEW n \in Nat
  PROVE  IsFiniteSet(1 .. n) /\ Cardinality(1 .. n) = n
<1>1. 1 \in Int /\ n \in Int
  OBVIOUS
<1>2. IsFiniteSet(1 .. n) /\ Cardinality(1 .. n) = IF 1 > n THEN 0 ELSE n - 1 + 1
  BY <1>1, FS_Interval
<1>3. (IF 1 > n THEN 0 ELSE n - 1 + 1) = n
  OBVIOUS
<1> QED
  BY <1>2, <1>3

\* An order goes through all readings, each once, from the latest on.
LEMMA OrderFits ==
  ASSUME TypeOK, NEW order \in Orders
  PROVE  /\ order \in [DOMAIN readings -> DOMAIN readings]
         /\ order \in Surjection(DOMAIN readings, DOMAIN readings)
         /\ \A i, j \in DOMAIN readings :
              i < j => readings[order[i]].time >= readings[order[j]].time
<1> DEFINE S == DOMAIN readings
<1>0. Len(readings) \in Nat /\ S = 1 .. Len(readings)
  BY DomainOfReadings
<1>1. IsFiniteSet(S) /\ Cardinality(S) = Len(readings)
  BY <1>0, OneTo
<1>2. /\ order \in [S -> S]
      /\ \A i, j \in S : i # j => order[i] # order[j]
      /\ \A i, j \in S : i < j => readings[order[i]].time >= readings[order[j]].time
  BY <1>0, <1>1 DEF Orders, SetToSeqs
<1>3. order \in Injection(S, S)
  BY <1>2 DEF Injection, IsInjective
<1>4. order \in Surjection(S, S)
  BY <1>1, <1>3, FS_Injection
<1> QED
  BY <1>2, <1>4

\* A window is the beginning of its order, and at most Limit long.
LEMMA WindowFits ==
  ASSUME TypeOK, NEW order \in Orders
  PROVE  /\ DOMAIN Window(order) \subseteq 1 .. Limit
         /\ DOMAIN Window(order) \subseteq DOMAIN readings
         /\ \A i \in DOMAIN Window(order) :
              Window(order)[i] = order[i] /\ order[i] \in DOMAIN readings
         /\ \A i \in DOMAIN Window(order) : 1 \in DOMAIN Window(order)
<1> DEFINE n == Len(readings)
           m == IF n < Limit THEN n ELSE Limit
<1>1. n \in Nat /\ DOMAIN readings = 1 .. n /\ m \in 0 .. n /\ m <= Limit
  BY DomainOfReadings, BoundsAssumption
<1>2. order \in [1 .. n -> 1 .. n]
  BY <1>1, OrderFits
<1>3. order \in Seq(1 .. n) /\ Len(order) = n
  BY <1>1, <1>2
<1>4. Window(order) = SubSeq(order, 1, m)
  BY <1>3 DEF Window
<1> HIDE DEF n, m
<1>5. Len(SubSeq(order, 1, m)) = m /\ \A i \in 1 .. m : SubSeq(order, 1, m)[i] = order[i]
  BY <1>1, <1>3
<1>6. DOMAIN Window(order) = 1 .. m
  BY <1>1, <1>3, <1>4
<1>7. 1 .. m \subseteq 1 .. Limit /\ 1 .. m \subseteq 1 .. n
  BY <1>1, BoundsAssumption
<1>8. ASSUME NEW i \in 1 .. m
      PROVE  /\ Window(order)[i] = order[i] /\ order[i] \in 1 .. n
             /\ 1 \in 1 .. m
  <2>1. Window(order)[i] = order[i]
    BY <1>4, <1>5
  <2>2. order[i] \in 1 .. n
    BY <1>2, <1>7
  <2>3. 1 \in 1 .. m
    BY <1>1
  <2> QED
    BY <2>1, <2>2, <2>3
<1> QED
  BY <1>1, <1>6, <1>7, <1>8

\* Fewer than Limit readings are later than a reading of a window.
LEMMA FewAreLater ==
  ASSUME TypeOK, NEW order \in Orders, NEW i \in DOMAIN Window(order)
  PROVE  Cardinality({k \in DOMAIN readings : readings[k].time > readings[order[i]].time}) < Limit
<1> DEFINE Later == {k \in DOMAIN readings : readings[k].time > readings[order[i]].time}
           Before == {order[p] : p \in 1 .. (i - 1)}
           f == [p \in 1 .. (i - 1) |-> order[p]]
<1>1. i \in Nat /\ 1 <= i /\ i <= Limit /\ i \in DOMAIN readings /\ Limit \in Nat
  BY WindowFits, BoundsAssumption
<1>2. DOMAIN readings = 1 .. Len(readings) /\ Len(readings) \in Nat
  BY DomainOfReadings
<1>3. \A k \in DOMAIN readings : readings[k].time \in Int
  BY DomainOfReadings DEF Reading, Times
<1>4. Later \subseteq Before
  <2> SUFFICES ASSUME NEW k \in Later PROVE k \in Before
    OBVIOUS
  <2>1. PICK p \in DOMAIN readings : order[p] = k
    BY OrderFits DEF Surjection
  <2>2. p < i
    <3>1. p # i
      BY <1>3, <2>1
    <3>2. ~(i < p)
      BY <1>1, <1>3, <2>1, OrderFits
    <3> QED
      BY <1>1, <1>2, <2>1, <3>1, <3>2
  <2>3. p \in 1 .. (i - 1)
    BY <1>1, <1>2, <2>2
  <2> QED
    BY <2>1, <2>3
<1>5. IsFiniteSet(1 .. (i - 1)) /\ Cardinality(1 .. (i - 1)) = i - 1
  <2>1. i - 1 \in Nat
    BY <1>1
  <2> QED
    BY <2>1, OneTo
<1>6. f \in Surjection(1 .. (i - 1), Before)
  BY DEF Surjection
<1>7. IsFiniteSet(Before) /\ Cardinality(Before) <= i - 1 /\ Cardinality(Before) \in Nat
  BY <1>1, <1>5, <1>6, FS_Surjection, FS_CardinalityType
<1>8. IsFiniteSet(Later) /\ Cardinality(Later) <= Cardinality(Before) /\ Cardinality(Later) \in Nat
  BY <1>4, <1>7, FS_Subset, FS_CardinalityType
<1> HIDE DEF Later, Before
<1>9. Cardinality(Later) < Limit
  BY <1>1, <1>7, <1>8
<1> QED
  BY <1>9 DEF Later

-----------------------------------------------------------------------------
(* What the steps do to the readings. *)

\* A new reading is added at the end of those there are.
LEMMA InsertAdds ==
  ASSUME TypeOK, NEW r \in Reading, Insert(r)
  PROVE  /\ readings' \in Seq(Reading)
         /\ Len(readings') = Len(readings) + 1
         /\ DOMAIN readings' = DOMAIN readings \cup {Len(readings')}
         /\ \A i \in DOMAIN readings : readings'[i] = readings[i]
         /\ readings'[Len(readings')] = r
BY DEF TypeOK, Insert

\* The reading that a close takes, and the copy that a backup makes, are of a
\* place in the window of an order.
Picks(order, i) == order \in Orders /\ i \in DOMAIN Window(order)

LEMMA BackupReads ==
  ASSUME TypeOK, BackupRead
  PROVE  \E order, i :
           /\ Picks(order, i)
           /\ backup' = BackupOf(Window(order), i)
           /\ readings[Window(order)[i]].measurand \in {"Register", "Interval"}
BY DEF BackupRead, Places, Picks

LEMMA CloseReads ==
  ASSUME TypeOK, ServerClose \/ AdminClose
  PROVE  \/ UNCHANGED <<stop, used>>
         \/ \E order, i :
              /\ Picks(order, i)
              /\ readings[Window(order)[i]].measurand = "Register"
              /\ stop' \in {ServerStop(Window(order), i), AdminStop(Window(order), i)}
              /\ used' = Window(order)[i]
BY DEF ServerClose, AdminClose, Close, Places, Picks

\* What was picked is a reading, and so is the first of its window.
LEMMA PickFits ==
  ASSUME TypeOK, NEW order, NEW i, Picks(order, i)
  PROVE  /\ Window(order)[i] = order[i]
         /\ Window(order)[i] \in DOMAIN readings /\ readings[Window(order)[i]] \in Reading
         /\ Window(order)[1] \in DOMAIN readings /\ readings[Window(order)[1]] \in Reading
<1>1. 1 \in DOMAIN Window(order) /\ i \in DOMAIN Window(order)
  BY WindowFits DEF Picks
<1>2. /\ Window(order)[i] = order[i] /\ order[i] \in DOMAIN readings
      /\ Window(order)[1] = order[1] /\ order[1] \in DOMAIN readings
  BY <1>1, WindowFits DEF Picks
<1> QED
  BY <1>2, DomainOfReadings

LEMMA TypeStep ==
  ASSUME TypeOK, [Next]_vars
  PROVE  TypeOK'
<1>1. ASSUME NEW time \in Times \cup {0}, NEW value \in Values, NEW unit \in {"Wh", "kWh"},
             NEW measurand \in {"Register", "Interval", "Power"},
             Report(time, value, unit, measurand)
      PROVE  TypeOK'
  <2> DEFINE r == [time |-> Stamp(time), value |-> value, unit |-> unit,
                   measurand |-> measurand, source |-> "point"]
  <2>1. r \in Reading
    BY DEF Reading, Stamp, TypeOK
  <2>2. Insert(r) /\ UNCHANGED <<now, backup, complete, stop, used>>
    BY <1>1 DEF Report
  <2> HIDE DEF r
  <2> QED
    BY <2>1, <2>2, InsertAdds DEF TypeOK
<1>2. CASE BackupRead
  <2>1. PICK order, i : Picks(order, i) /\ backup' = BackupOf(Window(order), i)
    BY <1>2, BackupReads
  <2>2. backup' \in Reading
    BY <2>1, PickFits DEF BackupOf, Reading, TypeOK
  <2> QED
    BY <1>2, <2>2 DEF BackupRead, TypeOK
<1>3. CASE BackupSave
  <2>1. backup \in Reading /\ Insert(backup) /\ backup' = Nothing
        /\ UNCHANGED <<now, complete, stop, used>>
    BY <1>3 DEF BackupSave, TypeOK
  <2> QED
    BY <2>1, InsertAdds DEF TypeOK
<1>4. CASE ServerClose \/ AdminClose
  <2>1. UNCHANGED <<now, readings, backup>> /\ complete' = TRUE
    BY <1>4 DEF ServerClose, AdminClose, Close
  <2>2. stop' \in Nat /\ used' \in 0 .. Len(readings)
    <3>1. CASE UNCHANGED <<stop, used>>
      BY <3>1 DEF TypeOK
    <3>2. ASSUME NEW order, NEW i, Picks(order, i),
                 stop' \in {ServerStop(Window(order), i), AdminStop(Window(order), i)},
                 used' = Window(order)[i]
          PROVE  stop' \in Nat /\ used' \in 0 .. Len(readings)
      <4>1. readings[Window(order)[i]].value \in Nat
        BY <3>2, PickFits, ValuesAssumption DEF Reading
      <4>2. Window(order)[i] \in 1 .. Len(readings)
        BY <3>2, PickFits, DomainOfReadings
      <4> QED
        BY <3>2, <4>1, <4>2, DomainOfReadings DEF ServerStop, AdminStop, InWh
    <3> QED
      BY <1>4, <3>1, <3>2, CloseReads
  <2> QED
    BY <2>1, <2>2 DEF TypeOK
<1>5. CASE Tick
  BY <1>5, BoundsAssumption DEF Tick, TypeOK, Times
<1>6. CASE UNCHANGED vars
  BY <1>6 DEF vars, TypeOK
<1> QED
  BY <1>1, <1>2, <1>3, <1>4, <1>5, <1>6 DEF Next

-----------------------------------------------------------------------------
(* Copies of copies. *)

\* If a charge point uses one unit, every reading has it, and every energy
\* reading is worth what it has reported.
LEMMA AllInOneUnit ==
  ASSUME TypeOK, CopiesRepeat, Uniform
  PROVE  /\ \A i, j \in DOMAIN readings : readings[i].unit = readings[j].unit
         /\ \A i \in DOMAIN readings :
              readings[i].measurand \in {"Register", "Interval"} => Repeats(readings[i])
<1>1. Registers \subseteq Reported /\ Reported \subseteq DOMAIN readings
  BY DEF Registers, Reported
<1>2. ASSUME NEW i \in DOMAIN readings
      PROVE  \E j \in Reported : readings[j].unit = readings[i].unit
  BY <1>1 DEF CopiesRepeat, Repeats
<1>3. ASSUME NEW i \in DOMAIN readings, readings[i].measurand \in {"Register", "Interval"}
      PROVE  Repeats(readings[i])
  BY <1>3 DEF CopiesRepeat, Repeats, Uniform, Registers
<1> QED
  BY <1>2, <1>3 DEF Uniform

\* A reading that was repeated is repeated for good.
LEMMA RepeatsStays ==
  ASSUME NEW r, Repeats(r),
         \A i \in DOMAIN readings : i \in DOMAIN readings' /\ readings'[i] = readings[i]
  PROVE  /\ r.measurand = "Register"
         /\ \E j \in Registers' : readings'[j].value = r.value /\ readings'[j].unit = r.unit
BY DEF Repeats, Registers, Reported

\* More readings make a charge point no more uniform than it was.
LEMMA UniformWas ==
  ASSUME Uniform', \A i \in DOMAIN readings : i \in DOMAIN readings' /\ readings'[i] = readings[i]
  PROVE  Uniform /\ Reported \subseteq Reported' /\ Registers \subseteq Registers'
         /\ Reported' \cap DOMAIN readings \subseteq Reported
BY DEF Uniform, Reported, Registers

\* A step adds a reading of the charge point, adds the copy that was made
\* before, or leaves the readings as they are.
LEMMA NewReading ==
  ASSUME TypeOK, [Next]_vars
  PROVE  \/ readings' = readings
         \/ \E r \in Reading : Insert(r) /\ (r.source = "point" \/ (backup # Nothing /\ r = backup))
<1>1. ASSUME NEW time \in Times \cup {0}, NEW value \in Values, NEW unit \in {"Wh", "kWh"},
             NEW measurand \in {"Register", "Interval", "Power"},
             Report(time, value, unit, measurand)
      PROVE  \E r \in Reading : Insert(r) /\ r.source = "point"
  <2> DEFINE r == [time |-> Stamp(time), value |-> value, unit |-> unit,
                   measurand |-> measurand, source |-> "point"]
  <2>1. r \in Reading /\ r.source = "point"
    BY DEF Reading, Stamp, TypeOK
  <2>2. Insert(r)
    BY <1>1 DEF Report
  <2> QED
    BY <2>1, <2>2
<1>2. CASE BackupSave
  BY <1>2 DEF BackupSave, TypeOK
<1>3. CASE BackupRead \/ ServerClose \/ AdminClose \/ Tick \/ UNCHANGED vars
  BY <1>3 DEF BackupRead, ServerClose, AdminClose, Close, Tick, vars
<1> QED
  BY <1>1, <1>2, <1>3 DEF Next

\* No step changes or removes a reading.
LEMMA ReadingsStay ==
  ASSUME TypeOK, [Next]_vars
  PROVE  \A i \in DOMAIN readings : i \in DOMAIN readings' /\ readings'[i] = readings[i]
BY NewReading, InsertAdds

LEMMA CopiesStep ==
  ASSUME IInv, [Next]_vars
  PROVE  CopiesRepeat'
<1> SUFFICES ASSUME Uniform'
             PROVE  /\ \A i \in DOMAIN readings' \ Reported' : Repeats(readings[i])'
                    /\ backup' # Nothing => Repeats(backup)'
  BY DEF CopiesRepeat
<1>1. TypeOK /\ CopiesRepeat
  BY DEF IInv
<1>2. \A i \in DOMAIN readings : i \in DOMAIN readings' /\ readings'[i] = readings[i]
  BY <1>1, ReadingsStay
<1>3. Uniform /\ Reported \subseteq Reported'
  BY <1>2, UniformWas
<1>4. ASSUME NEW i \in DOMAIN readings' \ Reported'
      PROVE  Repeats(readings[i])'
  <2>1. CASE i \in DOMAIN readings
    BY <1>1, <1>2, <1>3, <1>4, <2>1, RepeatsStays DEF CopiesRepeat, Repeats
  <2>2. CASE i \notin DOMAIN readings
    <3>1. PICK r \in Reading : Insert(r) /\ (r.source = "point" \/ (backup # Nothing /\ r = backup))
      BY <1>1, <1>4, <2>2, NewReading
    <3>2. readings'[i] = r
      BY <1>1, <1>4, <2>2, <3>1, InsertAdds
    <3>3. backup # Nothing /\ r = backup
      BY <1>4, <3>1, <3>2 DEF Reported
    <3>4. Repeats(r)
      BY <1>1, <1>3, <3>3 DEF CopiesRepeat
    <3> QED
      BY <1>2, <3>2, <3>4, RepeatsStays DEF Repeats
  <2> QED
    BY <2>1, <2>2
<1>5. ASSUME backup' # Nothing
      PROVE  Repeats(backup)'
  <2>1. CASE backup' = backup
    <3>1. Repeats(backup)
      BY <1>1, <1>3, <1>5, <2>1 DEF CopiesRepeat
    <3> QED
      BY <1>2, <2>1, <3>1, RepeatsStays DEF Repeats
  <2>2. CASE BackupRead
    <3>1. PICK order, i :
            /\ Picks(order, i)
            /\ backup' = BackupOf(Window(order), i)
            /\ readings[Window(order)[i]].measurand \in {"Register", "Interval"}
      BY <1>1, <2>2, BackupReads
    <3> DEFINE q == readings[Window(order)[i]]
    <3>2. Repeats(q) /\ readings[Window(order)[1]].unit = q.unit
      BY <1>1, <1>3, <3>1, PickFits, AllInOneUnit
    <3>3. backup'.value = q.value /\ backup'.unit = q.unit /\ backup'.measurand = "Register"
      BY <3>1, <3>2 DEF BackupOf
    <3> HIDE DEF q
    <3>4. Repeats(backup')
      BY <3>2, <3>3 DEF Repeats
    <3> QED
      BY <1>2, <3>4, RepeatsStays DEF Repeats
  <2>3. CASE ~BackupRead /\ backup' # backup
    BY <1>5, <2>3 DEF Next, Report, BackupSave, ServerClose, AdminClose, Close, Tick, vars
  <2> QED
    BY <2>1, <2>2, <2>3
<1> QED
  BY <1>4, <1>5

LEMMA StopStep ==
  ASSUME IInv, [Next]_vars
  PROVE  StopIsReported'
<1> SUFFICES ASSUME Uniform', used' # 0
             PROVE  \E i \in Registers' : stop' = (InWh(readings[i]))'
  BY DEF StopIsReported
<1>1. TypeOK /\ CopiesRepeat /\ StopIsReported
  BY DEF IInv
<1>2. \A i \in DOMAIN readings : i \in DOMAIN readings' /\ readings'[i] = readings[i]
  BY <1>1, ReadingsStay
<1>3. Uniform /\ Registers \subseteq Registers' /\ Registers \subseteq DOMAIN readings
  BY <1>2, UniformWas DEF Registers, Reported
<1>4. CASE UNCHANGED <<stop, used>>
  BY <1>1, <1>2, <1>3, <1>4 DEF StopIsReported, InWh
<1>5. ASSUME NEW order, NEW i, Picks(order, i),
             readings[Window(order)[i]].measurand = "Register",
             stop' \in {ServerStop(Window(order), i), AdminStop(Window(order), i)}
      PROVE  \E j \in Registers' : stop' = (InWh(readings[j]))'
  <2> DEFINE q == readings[Window(order)[i]]
  <2>1. Repeats(q) /\ readings[Window(order)[1]].unit = q.unit
    BY <1>1, <1>3, <1>5, PickFits, AllInOneUnit
  <2>2. stop' = InWh(q)
    BY <1>5, <2>1 DEF ServerStop, AdminStop, InWh
  <2> HIDE DEF q
  <2>3. PICK j \in Registers : readings[j].value = q.value /\ readings[j].unit = q.unit
    BY <2>1 DEF Repeats
  <2> QED
    BY <1>2, <1>3, <2>2, <2>3 DEF InWh
<1>6. ServerClose \/ AdminClose \/ UNCHANGED <<stop, used>>
  BY DEF Next, Report, BackupRead, BackupSave, Tick, vars
<1> QED
  BY <1>1, <1>4, <1>5, <1>6, CloseReads

-----------------------------------------------------------------------------
(* The theorems. *)

LEMMA Initially == Init => IInv
<1> SUFFICES ASSUME Init PROVE IInv
  OBVIOUS
<1>1. TypeOK
  <2>1. 1 \in Times
    BY BoundsAssumption DEF Times
  <2>2. << >> \in Seq(Reading) /\ Len(<< >>) = 0
    OBVIOUS
  <2>3. readings \in Seq(Reading) /\ used \in 0 .. Len(readings)
    BY <2>2 DEF Init
  <2>4. now \in Times /\ backup = Nothing /\ complete \in BOOLEAN /\ stop \in Nat
    BY <2>1 DEF Init
  <2> QED
    BY <2>3, <2>4 DEF TypeOK
<1> QED
  BY <1>1 DEF Init, IInv, CopiesRepeat, StopIsReported, Reported

\* Every behaviour keeps the inductive invariant.
LEMMA Invariance == Spec => []IInv
<1>1. IInv /\ [Next]_vars => IInv'
  BY TypeStep, CopiesStep, StopStep DEF IInv
<1> QED
  BY Initially, <1>1, PTL DEF Spec

\* Readings, the copy on its way and the stop value keep their types.
THEOREM TypeCorrect == Spec => []TypeOK
<1>1. IInv => TypeOK
  BY DEF IInv
<1> QED
  BY Invariance, <1>1, PTL

\* The meter value of a closed transaction is one that its charge point has
\* reported, for any number of reports, copies and closes.
THEOREM StopAlwaysReported == Spec => []StopIsReported
<1>1. IInv => StopIsReported
  BY DEF IInv
<1> QED
  BY Invariance, <1>1, PTL

\* However often a backup was copied again, it is worth what a charge point has
\* reported.
THEOREM BackupsAlwaysRepeat == Spec => []BackupsRepeat
<1>1. IInv => BackupsRepeat
  BY DEF IInv, CopiesRepeat, Repeats, BackupsRepeat, InWh
<1> QED
  BY Invariance, <1>1, PTL

\* Whichever order the database returns readings of one time in, fewer readings
\* than a window holds are later than the one that is used.
THEOREM LagAlwaysBounded == Spec => LagIsBounded
<1> DEFINE Behind ==
             used' # used =>
               Cardinality({i \in DOMAIN readings : readings[i].time > readings[used'].time}) < Limit
<1>1. ASSUME TypeOK, Next, used' # used
      PROVE  Cardinality({i \in DOMAIN readings : readings[i].time > readings[used'].time}) < Limit
  <2>1. ServerClose \/ AdminClose
    BY <1>1 DEF Next, Report, BackupRead, BackupSave, Tick
  <2>2. PICK order, i : Picks(order, i) /\ used' = Window(order)[i]
    BY <1>1, <2>1, CloseReads
  <2>3. used' = order[i]
    BY <1>1, <2>2, PickFits
  <2> QED
    BY <1>1, <2>2, <2>3, FewAreLater DEF Picks
<1>2. IInv /\ [Next]_vars => [Behind]_vars
  BY <1>1 DEF IInv
<1> QED
  BY Invariance, <1>2, PTL DEF Spec, LagIsBounded

=============================================================================
