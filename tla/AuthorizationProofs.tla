------------------------- MODULE AuthorizationProofs -------------------------
(***************************************************************************)
(* Proofs about Authorization, for any requests, tags and bounds.          *)
(*                                                                         *)
(* The argument is about one request at a time: between the read and the   *)
(* check the row it holds can only expire, so what is accepted at the      *)
(* check was accepted at the read; and whoever else touches the table, the *)
(* request that inserts its tag, or is refused the insert, leaves a row.   *)
(***************************************************************************)
EXTENDS Authorization, TLAPS

\* A row that was read was shown to the request, and if it can still be
\* accepted it could be when it was read.
SeenFits(r) ==
  pc[r] = "check" =>
    /\ held[r] \in Row
    /\ ~(seen[r] \subseteq {"Unknown"})
    /\ StatusOfHeld(r) = "Accepted" => "Accepted" \in seen[r]

IInv ==
  /\ TypeOK
  /\ \A r \in Requests : SeenFits(r)
  /\ AcceptedWasValid
  /\ AcceptedIsKnown

-----------------------------------------------------------------------------
(* The table. *)

\* What the table says is a status or that the tag is unknown.
LEMMA StatusType ==
  ASSUME NEW row \in Row, NEW time
  PROVE  StatusAt(row, time) \in Statuses \cup {"Expired"}
BY DEF StatusAt, Row

\* A larger next id leaves room for all ids there were.
LEMMA IdsGrow ==
  ASSUME NEW m \in Nat, NEW n \in Nat, m <= n
  PROVE  1..(m - 1) \subseteq 1..(n - 1)
OBVIOUS

\* A save keeps the table well-formed, whichever way it goes.
LEMMA SaveType ==
  ASSUME TypeOK, NEW row \in Row, NEW i \in 0..(nextId - 1), SaveAuthorization(i, row)
  PROVE  /\ nextId' \in Nat /\ nextId <= nextId'
         /\ DOMAIN rows' \subseteq 1..(nextId' - 1)
         /\ \A j \in DOMAIN rows' : rows'[j] \in Row
<1>1. nextId' \in Nat /\ nextId <= nextId'
  BY DEF TypeOK, SaveAuthorization
<1>2. CASE ~(IdsOf(row.tag) \subseteq {i})
  BY <1>1, <1>2 DEF TypeOK, SaveAuthorization
<1>3. CASE IdsOf(row.tag) \subseteq {i}
  <2> DEFINE at == IF i = 0 THEN nextId ELSE i
  <2>1. Put(at, row)
    BY <1>3 DEF SaveAuthorization
  <2>2. at \in 1..(nextId' - 1)
    <3>1. nextId' = IF i = 0 THEN nextId + 1 ELSE nextId
      BY DEF SaveAuthorization
    <3>2. nextId \in Nat
      BY DEF TypeOK
    <3> QED
      BY <3>1, <3>2
  <2> HIDE DEF at
  <2>3. DOMAIN rows' = DOMAIN rows \cup {at}
        /\ \A j \in DOMAIN rows' : rows'[j] = IF j = at THEN row ELSE rows[j]
    BY <2>1 DEF Put
  <2>4. nextId \in Nat /\ DOMAIN rows \subseteq 1..(nextId - 1)
        /\ \A j \in DOMAIN rows : rows[j] \in Row
    BY DEF TypeOK
  <2>5. 1..(nextId - 1) \subseteq 1..(nextId' - 1)
    BY <1>1, <2>4, IdsGrow
  <2>6. DOMAIN rows' \subseteq 1..(nextId' - 1)
    BY <2>2, <2>3, <2>4, <2>5
  <2> QED
    BY <1>1, <2>3, <2>4, <2>6
<1> QED
  BY <1>2, <1>3

\* The insert of a handler leaves every row as it is and the tag in the table.
LEMMA InsertAdds ==
  ASSUME TypeOK, NEW row \in Row, SaveAuthorization(0, row)
  PROVE  /\ \A j \in DOMAIN rows : j \in DOMAIN rows' /\ rows'[j] = rows[j]
         /\ \E j \in DOMAIN rows' : rows'[j].tag = row.tag
<1>1. nextId \notin DOMAIN rows /\ 0 \notin DOMAIN rows
  BY DEF TypeOK
<1>2. CASE IdsOf(row.tag) \subseteq {0}
  <2>1. rows' = [j \in DOMAIN rows \cup {nextId} |-> IF j = nextId THEN row ELSE rows[j]]
    BY <1>2 DEF SaveAuthorization, Put
  <2> QED
    BY <1>1, <2>1
<1>3. CASE ~(IdsOf(row.tag) \subseteq {0})
  BY <1>1, <1>3 DEF SaveAuthorization, IdsOf
<1> QED
  BY <1>2, <1>3

LEMMA NewRowType ==
  ASSUME NEW r \in Requests
  PROVE  NewRow(r) \in Row /\ NewRow(r).tag = TagOf[r]
BY TagAssumption, BoundAssumption DEF NewRow, Row, Statuses

-----------------------------------------------------------------------------
(* What the requests are shown. *)

\* Every step is one after which the requests see the table.
LEMMA EveryStepWatches == Next => Watch
BY DEF Next, Handle, AdminStep, Receive, GetAuthorization, GetAuthorizationFails, Check,
       InsertTag, InsertTagFails, AdminGet, AdminPost, AdminDelete, Tick

\* A request forgets nothing it has seen, and sees the table after each of its
\* steps.
LEMMA SeenGrows ==
  ASSUME TypeOK, Watch, \A j \in DOMAIN rows' : rows'[j] \in Row
  PROVE  /\ seen' \in [Requests -> SUBSET (Statuses \cup {"Expired", "Unknown"})]
         /\ \A r \in Requests :
              /\ seen[r] \subseteq seen'[r]
              /\ pc'[r] # "idle" /\ pc[r] # "done" => (Verdicts(TagOf[r]))' \subseteq seen'[r]
              /\ pc[r] = "done" => seen'[r] = seen[r]
<1>1. ASSUME NEW r \in Requests
      PROVE  (Verdicts(TagOf[r]))' \subseteq Statuses \cup {"Expired", "Unknown"}
  BY StatusType DEF Verdicts, IdsOf
<1> QED
  BY <1>1 DEF Watch, TypeOK

-----------------------------------------------------------------------------
(* The invariant. *)

LEMMA Initially == Init => IInv
<1> SUFFICES ASSUME Init PROVE IInv
  OBVIOUS
<1>1. TypeOK
  <2>1. DOMAIN rows = 1..(nextId - 1) /\ \A i \in DOMAIN rows : rows[i] \in Row
    BY DEF Init
  <2> QED
    BY <2>1, BoundAssumption DEF Init, TypeOK, NoAnswer
<1> QED
  BY <1>1 DEF Init, IInv, SeenFits, AcceptedWasValid, AcceptedIsKnown, NoAnswer

\* A step keeps the table well-formed.
LEMMA RowsStep ==
  ASSUME TypeOK, [Next]_vars
  PROVE  /\ nextId' \in Nat /\ nextId <= nextId'
         /\ DOMAIN rows' \subseteq 1..(nextId' - 1)
         /\ \A j \in DOMAIN rows' : rows'[j] \in Row
<1>1. ASSUME NEW r \in Requests, InsertTag(r)
      PROVE  SaveAuthorization(0, NewRow(r)) /\ 0 \in 0..(nextId - 1)
  BY <1>1 DEF InsertTag, TypeOK
<1>2. ASSUME NEW i \in 0..(nextId - 1), NEW row \in Row, AdminPost(i, row)
      PROVE  SaveAuthorization(i, row)
  BY <1>2 DEF AdminPost
<1>3. ASSUME NEW t \in Tags, AdminDelete(t)
      PROVE  /\ nextId' = nextId
             /\ DOMAIN rows' \subseteq DOMAIN rows
             /\ \A j \in DOMAIN rows' : rows'[j] = rows[j]
  BY <1>3 DEF AdminDelete
<1>4. ASSUME UNCHANGED <<rows, nextId>>
      PROVE  /\ nextId' \in Nat /\ nextId <= nextId'
             /\ DOMAIN rows' \subseteq 1..(nextId' - 1)
             /\ \A j \in DOMAIN rows' : rows'[j] \in Row
  BY <1>4 DEF TypeOK
<1>5. CASE \E r \in Requests : InsertTag(r)
  BY <1>1, <1>5, NewRowType, SaveType
<1>6. CASE \E i \in 0..(nextId - 1), row \in Row : AdminPost(i, row)
  BY <1>2, <1>6, SaveType
<1>7. CASE \E t \in Tags : AdminDelete(t)
  BY <1>3, <1>7 DEF TypeOK
<1>8. ASSUME NEW r \in Requests, Handle(r), ~InsertTag(r)
      PROVE  UNCHANGED <<rows, nextId>>
  BY <1>8 DEF Handle, Receive, GetAuthorization, GetAuthorizationFails, Check, InsertTagFails
<1>9. CASE (\E i \in DOMAIN rows : AdminGet(i)) \/ Tick \/ UNCHANGED vars
  BY <1>4, <1>9 DEF AdminGet, Tick, vars
<1> QED
  BY <1>4, <1>5, <1>6, <1>7, <1>8, <1>9 DEF Next, AdminStep

\* The requests after a step, by what they have seen.
LEMMA SeenStep ==
  ASSUME TypeOK, [Next]_vars
  PROVE  /\ seen' \in [Requests -> SUBSET (Statuses \cup {"Expired", "Unknown"})]
         /\ \A r \in Requests :
              /\ seen[r] \subseteq seen'[r]
              /\ Next /\ pc'[r] # "idle" /\ pc[r] # "done"
                   => (Verdicts(TagOf[r]))' \subseteq seen'[r]
              /\ pc[r] = "done" => seen'[r] = seen[r]
<1>1. CASE Next
  BY <1>1, RowsStep, EveryStepWatches, SeenGrows
<1>2. CASE ~Next
  BY <1>2 DEF TypeOK, vars
<1> QED
  BY <1>1, <1>2

LEMMA TypeStep ==
  ASSUME IInv, [Next]_vars
  PROVE  TypeOK'
<1> DEFINE RequestsType ==
             /\ kind \in [Requests -> {"none", "Authorize", "StartTransaction"}]
             /\ pc \in [Requests -> {"idle", "read", "check", "save", "done"}]
             /\ held \in [Requests -> Row \cup {NoRow}]
             /\ answer \in [Requests -> Statuses \cup {"Expired", NoAnswer}]
             /\ failed \subseteq Requests
           OthersType ==
             /\ now \in 1..(MaxTime + 1)
             /\ copy.id \in 0..(nextId - 1) /\ copy.row \in Row \cup {NoRow}
             /\ posts \in 0..MaxPosts
<1>1. TypeOK /\ RequestsType /\ OthersType
  BY DEF IInv, TypeOK
<1>2. nextId \in Nat /\ nextId' \in Nat /\ nextId <= nextId'
  BY <1>1, RowsStep DEF TypeOK
<1>3. ASSUME UNCHANGED <<now, adminVars>>
      PROVE  OthersType'
  BY <1>1, <1>2, <1>3 DEF adminVars
<1>4. ASSUME UNCHANGED requestVars
      PROVE  RequestsType'
  BY <1>1, <1>4 DEF requestVars
<1>5. ASSUME NEW r \in Requests, Receive(r)
      PROVE  RequestsType' /\ OthersType'
  BY <1>1, <1>3, <1>5 DEF Receive, Goto
<1>6. ASSUME NEW r \in Requests, GetAuthorization(r)
      PROVE  RequestsType' /\ OthersType'
  <2>1. \A i \in IdsOf(TagOf[r]) : rows[i] \in Row
    BY <1>1 DEF IdsOf, TypeOK
  <2> QED
    BY <1>1, <1>3, <1>6, <2>1 DEF GetAuthorization, AcceptUnknown, Goto, Statuses
<1>7. ASSUME NEW r \in Requests, GetAuthorizationFails(r)
      PROVE  RequestsType' /\ OthersType'
  BY <1>1, <1>3, <1>7 DEF GetAuthorizationFails, AcceptUnknown, Goto, Statuses
<1>8. ASSUME NEW r \in Requests, Check(r)
      PROVE  RequestsType' /\ OthersType'
  <2>1. StatusOfHeld(r) \in Statuses \cup {"Expired"}
    BY <1>8, StatusType DEF IInv, SeenFits, Check, Goto, StatusOfHeld
  <2> QED
    BY <1>1, <1>3, <1>8, <2>1 DEF Check, Goto
<1>9. ASSUME NEW r \in Requests, InsertTag(r) \/ InsertTagFails(r)
      PROVE  RequestsType' /\ OthersType'
  BY <1>1, <1>3, <1>9 DEF InsertTag, InsertTagFails, Goto
<1>10. ASSUME NEW i \in DOMAIN rows, AdminGet(i)
       PROVE  RequestsType' /\ OthersType'
  <2>1. rows[i] \in Row /\ i \in 0..(nextId - 1)
    BY <1>1 DEF TypeOK
  <2>2. copy'.id = i /\ copy'.row = rows[i] /\ UNCHANGED <<now, nextId, posts>>
    BY <1>10 DEF AdminGet
  <2>3. OthersType'
    BY <1>1, <2>1, <2>2
  <2> QED
    BY <1>4, <1>10, <2>3 DEF AdminGet
<1>11. ASSUME NEW i \in 0..(nextId - 1), NEW row \in Row, AdminPost(i, row)
       PROVE  RequestsType' /\ OthersType'
  <2>1. OthersType'
    BY <1>1, <1>2, <1>11, BoundAssumption DEF AdminPost
  <2> QED
    BY <1>4, <1>11, <2>1 DEF AdminPost
<1>12. ASSUME NEW t \in Tags, AdminDelete(t)
       PROVE  RequestsType' /\ OthersType'
  BY <1>3, <1>4, <1>12 DEF AdminDelete
<1>13. ASSUME Tick
       PROVE  RequestsType' /\ OthersType'
  <2>1. OthersType'
    BY <1>1, <1>2, <1>13, BoundAssumption DEF Tick, adminVars
  <2> QED
    BY <1>4, <1>13, <2>1 DEF Tick
<1>14. ASSUME UNCHANGED vars
       PROVE  RequestsType' /\ OthersType'
  <2>1. UNCHANGED <<now, adminVars>> /\ UNCHANGED requestVars
    BY <1>14 DEF vars
  <2> QED
    BY <1>3, <1>4, <2>1
<1> HIDE DEF RequestsType, OthersType
<1>15. RequestsType' /\ OthersType'
  BY <1>5, <1>6, <1>7, <1>8, <1>9, <1>10, <1>11, <1>12, <1>13, <1>14 DEF Next, Handle, AdminStep
<1> USE DEF RequestsType, OthersType
<1> QED
  BY <1>1, <1>15, RowsStep, SeenStep DEF TypeOK

\* What one step can do to a request that matters for what it has seen.
LEMMA SeenFitsStep ==
  ASSUME IInv, [Next]_vars, NEW r \in Requests
  PROVE  SeenFits(r)'
<1>1. TypeOK /\ SeenFits(r) /\ now \in Nat
  BY DEF IInv, TypeOK
<1>2. seen[r] \subseteq seen'[r]
  BY <1>1, SeenStep
<1>3. ASSUME NEW q \in Requests, GetAuthorization(q), pc'[r] = "check"
      PROVE  SeenFits(r)'
  <2>1. CASE q = r /\ IdsOf(TagOf[r]) # {}
    <3>1. PICK i \in IdsOf(TagOf[r]) : held'[r] = rows[i]
      BY <1>1, <1>3, <2>1 DEF GetAuthorization, TypeOK
    <3>2. rows[i] \in Row /\ UNCHANGED <<rows, now>> /\ pc[r] = "read"
      BY <1>1, <1>3, <2>1 DEF GetAuthorization, IdsOf, TypeOK
    <3>3. StatusAt(rows[i], now) \in (Verdicts(TagOf[r]))'
      BY <3>1, <3>2 DEF Verdicts, IdsOf
    <3>4. Next
      BY <1>3 DEF Next, Handle
    <3>5. StatusAt(rows[i], now) \in seen'[r]
      BY <1>1, <1>3, <3>2, <3>3, <3>4, SeenStep
    <3>6. StatusAt(rows[i], now) # "Unknown"
      BY <3>2, StatusType DEF Statuses
    <3> QED
      BY <3>1, <3>2, <3>5, <3>6 DEF SeenFits, StatusOfHeld
  <2>2. CASE q = r /\ IdsOf(TagOf[r]) = {}
    BY <1>1, <1>3, <2>2 DEF GetAuthorization, AcceptUnknown, Goto, TypeOK
  <2>3. CASE q # r
    <3>1. pc'[r] = pc[r] /\ held'[r] = held[r] /\ now' = now
      BY <1>1, <1>3, <2>3 DEF GetAuthorization, AcceptUnknown, Goto, TypeOK
    <3> QED
      BY <1>1, <1>2, <3>1 DEF SeenFits, StatusOfHeld
  <2> QED
    BY <2>1, <2>2, <2>3
<1>4. ASSUME pc'[r] = "check", pc[r] = "check", held'[r] = held[r], now' = now
      PROVE  SeenFits(r)'
  BY <1>1, <1>2, <1>4 DEF SeenFits, StatusOfHeld
<1>5. ASSUME NEW q \in Requests, Handle(q), ~GetAuthorization(q), pc'[r] = "check"
      PROVE  pc[r] = "check" /\ held'[r] = held[r] /\ now' = now
  BY <1>1, <1>5 DEF Handle, Receive, GetAuthorizationFails, AcceptUnknown, Check, InsertTag,
     InsertTagFails, Goto, TypeOK
<1>6. ASSUME Tick, pc'[r] = "check"
      PROVE  SeenFits(r)'
  <2>1. pc[r] = "check" /\ held'[r] = held[r] /\ now' = now + 1
    BY <1>6 DEF Tick, requestVars
  <2>2. held[r] \in Row /\ held[r].expiry \in Nat
    BY <1>1, <2>1, BoundAssumption DEF SeenFits, Row
  <2>3. (StatusOfHeld(r))' = "Accepted" => StatusOfHeld(r) = "Accepted"
    BY <1>1, <2>1, <2>2 DEF StatusOfHeld, StatusAt
  <2> QED
    BY <1>1, <1>2, <2>1, <2>2, <2>3 DEF SeenFits
<1>7. ASSUME (\E i \in DOMAIN rows : AdminGet(i)) \/ AdminStep \/ UNCHANGED vars, pc'[r] = "check"
      PROVE  pc[r] = "check" /\ held'[r] = held[r] /\ now' = now
  BY <1>7 DEF AdminGet, AdminStep, AdminPost, AdminDelete, vars, requestVars
<1> SUFFICES ASSUME pc'[r] = "check" PROVE SeenFits(r)'
  BY DEF SeenFits
<1> QED
  BY <1>3, <1>4, <1>5, <1>6, <1>7 DEF Next

\* An answer is Accepted because of what was seen at the read or at the check.
LEMMA AcceptedStep ==
  ASSUME IInv, [Next]_vars
  PROVE  AcceptedWasValid'
<1> SUFFICES ASSUME NEW r \in Requests, answer'[r] = "Accepted", r \notin failed'
             PROVE  seen'[r] \cap {"Accepted", "Unknown"} # {}
  BY DEF AcceptedWasValid
<1>1. TypeOK /\ SeenFits(r) /\ AcceptedWasValid
  BY DEF IInv
<1>2. seen[r] \subseteq seen'[r]
  BY <1>1, SeenStep
<1>3. CASE answer[r] = "Accepted" /\ r \notin failed
  BY <1>1, <1>2, <1>3 DEF AcceptedWasValid
<1>4. CASE Check(r)
  BY <1>1, <1>2, <1>4 DEF Check, Goto, SeenFits, TypeOK
<1>5. CASE GetAuthorization(r)
  <2>1. CASE IdsOf(TagOf[r]) = {}
    <3>1. "Unknown" \in (Verdicts(TagOf[r]))'
      BY <1>5, <2>1 DEF GetAuthorization, Verdicts, IdsOf
    <3>2. pc[r] = "read" /\ pc'[r] # "idle" /\ Next
      BY <1>1, <1>5, <2>1 DEF GetAuthorization, AcceptUnknown, Goto, TypeOK, Next, Handle
    <3> QED
      BY <1>1, <3>1, <3>2, SeenStep
  <2>2. CASE IdsOf(TagOf[r]) # {}
    BY <1>3, <1>5, <2>2 DEF GetAuthorization
  <2> QED
    BY <2>1, <2>2
<1>6. CASE GetAuthorizationFails(r)
  BY <1>6 DEF GetAuthorizationFails
<1>7. ASSUME NEW q \in Requests, Handle(q), ~(q = r /\ (Check(r) \/ GetAuthorization(r) \/ GetAuthorizationFails(r)))
      PROVE  answer[r] = "Accepted" /\ r \notin failed
  BY <1>1, <1>7 DEF Handle, Receive, GetAuthorization, GetAuthorizationFails, AcceptUnknown, Check,
     InsertTag, InsertTagFails, TypeOK
<1>8. ASSUME (\E i \in DOMAIN rows : AdminGet(i)) \/ AdminStep \/ Tick \/ UNCHANGED vars
      PROVE  answer[r] = "Accepted" /\ r \notin failed
  BY <1>8 DEF AdminGet, AdminStep, AdminPost, AdminDelete, Tick, vars, requestVars
<1> QED
  BY <1>3, <1>4, <1>5, <1>6, <1>7, <1>8 DEF Next

\* A row with the tag of a request is not an unknown tag.
LEMMA KnownIsSeen ==
  ASSUME TypeOK, [Next]_vars, NEW r \in Requests, NEW i \in DOMAIN rows',
         rows'[i].tag = TagOf[r]
  PROVE  \E v \in (Verdicts(TagOf[r]))' : v # "Unknown"
<1>1. rows'[i] \in Row
  BY RowsStep
<1>2. StatusAt(rows'[i], now') # "Unknown"
  BY <1>1, StatusType DEF Statuses
<1>3. StatusAt(rows'[i], now') \in (Verdicts(TagOf[r]))'
  BY DEF Verdicts, IdsOf
<1> QED
  BY <1>2, <1>3

\* An Authorize that is done has seen its tag in the table: at the read, or
\* when the row was inserted or the insert was refused.
LEMMA KnownStep ==
  ASSUME IInv, [Next]_vars
  PROVE  AcceptedIsKnown'
<1> SUFFICES ASSUME NEW r \in Requests, r \notin failed', kind'[r] = "Authorize", pc'[r] = "done"
             PROVE  seen'[r] # {"Unknown"}
  BY DEF AcceptedIsKnown
<1>1. TypeOK /\ SeenFits(r) /\ AcceptedIsKnown
  BY DEF IInv
<1>2. CASE pc[r] = "done" /\ kind[r] = "Authorize" /\ r \notin failed
  <2>1. seen'[r] = seen[r]
    BY <1>1, <1>2, SeenStep
  <2> QED
    BY <1>1, <1>2, <2>1 DEF AcceptedIsKnown
<1>3. CASE Check(r)
  <2>1. seen[r] \subseteq seen'[r] /\ ~(seen[r] \subseteq {"Unknown"})
    BY <1>1, <1>3, SeenStep DEF Check, Goto, SeenFits
  <2> QED
    BY <2>1
<1>4. CASE InsertTag(r)
  <2>1. \E i \in DOMAIN rows' : rows'[i].tag = TagOf[r]
    BY <1>1, <1>4, InsertAdds, NewRowType DEF InsertTag
  <2>2. \E v \in (Verdicts(TagOf[r]))' : v # "Unknown"
    BY <1>1, <2>1, KnownIsSeen
  <2>3. Next /\ pc[r] # "done" /\ pc'[r] # "idle"
    BY <1>4 DEF Next, Handle, InsertTag, Goto
  <2>4. (Verdicts(TagOf[r]))' \subseteq seen'[r]
    BY <1>1, <2>3, SeenStep
  <2> QED
    BY <2>2, <2>4
<1>5. CASE InsertTagFails(r)
  BY <1>5 DEF InsertTagFails
<1>6. CASE GetAuthorization(r) \/ GetAuthorizationFails(r)
  BY <1>1, <1>6 DEF GetAuthorization, GetAuthorizationFails, AcceptUnknown, Goto, TypeOK
<1>7. CASE Receive(r)
  BY <1>1, <1>7 DEF Receive, Goto, TypeOK
<1>8. ASSUME NEW q \in Requests, Handle(q), q # r
      PROVE  pc[r] = "done" /\ kind[r] = "Authorize" /\ r \notin failed
  BY <1>1, <1>8 DEF Handle, Receive, GetAuthorization, GetAuthorizationFails, AcceptUnknown, Check,
     InsertTag, InsertTagFails, Goto, TypeOK
<1>9. ASSUME (\E i \in DOMAIN rows : AdminGet(i)) \/ AdminStep \/ Tick \/ UNCHANGED vars
      PROVE  pc[r] = "done" /\ kind[r] = "Authorize" /\ r \notin failed
  BY <1>9 DEF AdminGet, AdminStep, AdminPost, AdminDelete, Tick, vars, requestVars
<1> QED
  BY <1>2, <1>3, <1>4, <1>5, <1>6, <1>7, <1>8, <1>9 DEF Next, Handle

\* Every behaviour keeps the inductive invariant.
LEMMA Invariance == Spec => []IInv
<1>1. IInv /\ [Next]_vars => IInv'
  BY TypeStep, SeenFitsStep, AcceptedStep, KnownStep DEF IInv
<1> QED
  BY Initially, <1>1, PTL DEF Spec

\* The only handler step that writes to the table adds a row.
LEMMA HandlersOnlyAdd ==
  ASSUME IInv, Next, ~AdminStep, NEW i \in DOMAIN rows
  PROVE  i \in DOMAIN rows' /\ rows'[i] = rows[i]
<1>1. TypeOK
  BY DEF IInv
<1>2. ASSUME NEW r \in Requests, InsertTag(r)
      PROVE  i \in DOMAIN rows' /\ rows'[i] = rows[i]
  BY <1>1, <1>2, InsertAdds, NewRowType DEF InsertTag
<1>3. ASSUME NEW r \in Requests, Handle(r), ~InsertTag(r)
      PROVE  rows' = rows
  BY <1>3 DEF Handle, Receive, GetAuthorization, GetAuthorizationFails, Check, InsertTagFails
<1>4. ASSUME (\E j \in DOMAIN rows : AdminGet(j)) \/ Tick
      PROVE  rows' = rows
  BY <1>4 DEF AdminGet, Tick
<1> QED
  BY <1>2, <1>3, <1>4 DEF Next

-----------------------------------------------------------------------------
(* The theorems. *)

\* The table, the requests and what they have seen keep their types, whatever
\* administrators save, delete and send back.
THEOREM TypeCorrect == Spec => []TypeOK
<1>1. IInv => TypeOK
  BY DEF IInv
<1> QED
  BY Invariance, <1>1, PTL

\* A charge point is told Accepted only if, at one moment while its request
\* was handled, the table accepted the tag or did not have it.
THEOREM AcceptedAlwaysValid == Spec => []AcceptedWasValid
<1>1. IInv => AcceptedWasValid
  BY DEF IInv
<1> QED
  BY Invariance, <1>1, PTL

\* An Authorize of which no call failed leaves its tag for an administrator to
\* find, whoever won the race to insert it.
THEOREM AcceptedAlwaysKnown == Spec => []AcceptedIsKnown
<1>1. IInv => AcceptedIsKnown
  BY DEF IInv
<1> QED
  BY Invariance, <1>1, PTL

\* No handler changes or removes a row that is in the table.
THEOREM AdminsAlwaysDecide == Spec => AdminDecides
<1>1. IInv /\ [Next]_vars =>
        [\A i \in DOMAIN rows : ~AdminStep => i \in DOMAIN rows' /\ rows'[i] = rows[i]]_vars
  BY HandlersOnlyAdd
<1> QED
  BY Invariance, <1>1, PTL DEF Spec, AdminDecides

=============================================================================
