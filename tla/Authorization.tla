--------------------------- MODULE Authorization ---------------------------
(***************************************************************************)
(* The authorization of id tags: the Authorize handler and the tag check   *)
(* of StartTransaction in ocpp/handlers_db.go (StopTransaction checks its  *)
(* tag, if it has one, in the same way), the requests of the HTTP          *)
(* API that list, save and delete tags (server/api_server.go), and their   *)
(* queries in server/database/database.go.                                 *)
(*                                                                         *)
(* A handler reads the row of its tag, then compares the expiry it has     *)
(* read with the clock, and inserts a tag it has not found.  Handlers of   *)
(* several connections and administrators interleave between the calls to  *)
(* the database; each call is atomic.  A row is updated by its primary key *)
(* (gorm's Save), while the handlers look it up by its tag, which is       *)
(* unique.  Administrators send new rows without an id, or back a row that *)
(* they were given, possibly long ago; they do not invent ids.             *)
(*                                                                         *)
(* seen is history: what the table said of the tag of a request since the  *)
(* request came.  SaveBlindly, Upsert, AcceptAndForget and                 *)
(* StatusWithoutExpiry are definitions further down with a bug put in.     *)
(***************************************************************************)
EXTENDS Naturals

CONSTANTS
  Requests,  \* messages that carry an id tag
  TagOf,     \* TagOf[r]: the id tag that request r presents
  Tags,      \* id tags
  MaxTime,   \* bound on the clock
  MaxPosts,  \* bound on the rows that administrators save
  NoRow      \* no row of the table

Statuses == {"Accepted", "Blocked"}

ASSUME TagAssumption    == TagOf \in [Requests -> Tags]
ASSUME BoundAssumption  == MaxTime \in Nat /\ MaxPosts \in Nat

\* An expiry of 0 is the zero time: the tag never expires.
Row == [tag : Tags, status : Statuses, expiry : 0..MaxTime]

ASSUME NoRowAssumption == NoRow \notin Row

VARIABLES
  rows,    \* the table, a function from ids to rows
  nextId,  \* the sequence behind the primary key
  now,     \* the clock
  kind,    \* kind[r]: the message of request r
  pc,      \* pc[r]: where the handler of request r is
  held,    \* held[r]: the row that r has read
  answer,  \* answer[r]: the status in the answer of r
  failed,  \* requests with a call to the database that failed
  copy,    \* the row, with its id, that an administrator was given
  posts,   \* how many rows administrators have saved
  seen     \* seen[r]: the verdicts on the tag of r while r was handled

requestVars == <<kind, pc, held, answer, failed>>
adminVars   == <<copy, posts>>
vars        == <<rows, nextId, now, requestVars, adminVars, seen>>

NoAnswer == "none"

TypeOK ==
  /\ nextId \in Nat
  /\ DOMAIN rows \subseteq 1..(nextId - 1)
  /\ \A i \in DOMAIN rows : rows[i] \in Row
  /\ now \in 1..(MaxTime + 1)
  /\ kind \in [Requests -> {"none", "Authorize", "StartTransaction"}]
  /\ pc \in [Requests -> {"idle", "read", "check", "save", "done"}]
  /\ held \in [Requests -> Row \cup {NoRow}]
  /\ answer \in [Requests -> Statuses \cup {"Expired", NoAnswer}]
  /\ failed \subseteq Requests
  /\ copy.id \in 0..(nextId - 1) /\ copy.row \in Row \cup {NoRow}
  /\ posts \in 0..MaxPosts
  /\ seen \in [Requests -> SUBSET (Statuses \cup {"Expired", "Unknown"})]

\* The table outlives the process: it is empty or holds a row at the start.
Init ==
  /\ nextId \in {1, 2}
  /\ rows \in [1..(nextId - 1) -> Row]
  /\ now = 1
  /\ kind = [r \in Requests |-> "none"]
  /\ pc = [r \in Requests |-> "idle"]
  /\ held = [r \in Requests |-> NoRow]
  /\ answer = [r \in Requests |-> NoAnswer]
  /\ failed = {}
  /\ copy = [id |-> 0, row |-> NoRow]
  /\ posts = 0
  /\ seen = [r \in Requests |-> {}]

-----------------------------------------------------------------------------
(* The table. *)

IdsOf(t) == {i \in DOMAIN rows : rows[i].tag = t}

\* A status is answered as it stands unless the expiry has passed.
StatusAt(row, time) ==
  IF row.expiry # 0 /\ row.expiry < time THEN "Expired" ELSE row.status

\* What the table says of a tag.
Verdicts(t) ==
  IF IdsOf(t) = {} THEN {"Unknown"} ELSE {StatusAt(rows[i], now) : i \in IdsOf(t)}

\* Every step shows the requests in progress what the table now says, the last
\* step of a request included.
Watch ==
  seen' = [r \in Requests |->
             IF pc'[r] = "idle" \/ pc[r] = "done" THEN seen[r]
             ELSE seen[r] \cup (Verdicts(TagOf[r]))']

Put(i, row) ==
  rows' = [j \in DOMAIN rows \cup {i} |-> IF j = i THEN row ELSE rows[j]]

SaveBlindly(i, row) ==
  IF i = 0
  THEN /\ Put(nextId, row)
       /\ nextId' = nextId
  ELSE Put(i, row) /\ UNCHANGED nextId

Upsert(i, row) ==
  IF i = 0 /\ IdsOf(row.tag) = {}
  THEN /\ Put(nextId, row)
       /\ nextId' = nextId + 1
  ELSE /\ \E j \in IdsOf(row.tag) \cup ({i} \ {0}) : Put(j, row)
       /\ UNCHANGED nextId

\* SaveAuthorization.  Without an id the row is inserted under the next one;
\* with an id it is updated, or inserted if it is gone.  The save is refused
\* when another row has its tag, and an insert uses up an id all the same.
SaveAuthorization(i, row) ==
  /\ nextId' = IF i = 0 THEN nextId + 1 ELSE nextId
  /\ IF IdsOf(row.tag) \subseteq {i}
     THEN Put(IF i = 0 THEN nextId ELSE i, row)
     ELSE UNCHANGED rows

-----------------------------------------------------------------------------
(* handleAuthorizeRequestWithDB, and the first part of
   handleStartTransactionRequestWithDB. *)

Goto(r, here, there) ==
  /\ pc[r] = here
  /\ pc' = [pc EXCEPT ![r] = there]

Receive(r) ==
  /\ Goto(r, "idle", "read")
  /\ \E k \in {"Authorize", "StartTransaction"} : kind' = [kind EXCEPT ![r] = k]
  /\ UNCHANGED <<rows, nextId, now, held, answer, failed, adminVars>>
  /\ Watch

AcceptAndForget(r) ==
  /\ answer' = [answer EXCEPT ![r] = "Accepted"]
  /\ Goto(r, "read", "done")

\* A handler that has no row accepts the tag, and Authorize also stores it.
AcceptUnknown(r) ==
  /\ answer' = [answer EXCEPT ![r] = "Accepted"]
  /\ Goto(r, "read", IF kind[r] = "Authorize" THEN "save" ELSE "done")

\* GetAuthorization.
GetAuthorization(r) ==
  /\ pc[r] = "read"
  /\ IF IdsOf(TagOf[r]) = {}
     THEN /\ AcceptUnknown(r)
          /\ UNCHANGED held
     ELSE /\ \E i \in IdsOf(TagOf[r]) : held' = [held EXCEPT ![r] = rows[i]]
          /\ Goto(r, "read", "check")
          /\ UNCHANGED answer
  /\ UNCHANGED <<rows, nextId, now, kind, failed, adminVars>>
  /\ Watch

\* An error of the database is taken for a tag that is not found.
GetAuthorizationFails(r) ==
  /\ AcceptUnknown(r)
  /\ failed' = failed \cup {r}
  /\ UNCHANGED <<rows, nextId, now, kind, held, adminVars>>
  /\ Watch

StatusWithoutExpiry(r) == held[r].status

\* The expiry of the row that was read, against the time by now.
StatusOfHeld(r) == StatusAt(held[r], now)

Check(r) ==
  /\ Goto(r, "check", "done")
  /\ answer' = [answer EXCEPT ![r] = StatusOfHeld(r)]
  /\ held' = [held EXCEPT ![r] = NoRow]
  /\ UNCHANGED <<rows, nextId, now, kind, failed, adminVars>>
  /\ Watch

NewRow(r) == [tag |-> TagOf[r], status |-> "Accepted", expiry |-> 0]

\* The answer is Accepted even when the insert is refused.
InsertTag(r) ==
  /\ Goto(r, "save", "done")
  /\ SaveAuthorization(0, NewRow(r))
  /\ UNCHANGED <<now, kind, held, answer, failed, adminVars>>
  /\ Watch

InsertTagFails(r) ==
  /\ Goto(r, "save", "done")
  /\ failed' = failed \cup {r}
  /\ UNCHANGED <<rows, nextId, now, kind, held, answer, adminVars>>
  /\ Watch

-----------------------------------------------------------------------------
(* The /api/authorizations requests of administrators. *)

AdminGet(i) ==
  /\ i \in DOMAIN rows
  /\ copy' = [id |-> i, row |-> rows[i]]
  /\ UNCHANGED <<rows, nextId, now, kind, requestVars, posts>>
  /\ Watch

\* POST: a row of the administrator's own, or the copy edited in any field.
AdminPost(i, row) ==
  /\ posts < MaxPosts
  /\ i \in {0, copy.id}
  /\ SaveAuthorization(i, row)
  /\ posts' = posts + 1
  /\ UNCHANGED <<now, kind, requestVars, copy>>
  /\ Watch

\* DELETE succeeds for a tag that is not there, too.
AdminDelete(t) ==
  /\ rows' = [i \in DOMAIN rows \ IdsOf(t) |-> rows[i]]
  /\ UNCHANGED <<nextId, now, requestVars, adminVars>>
  /\ Watch

AdminStep ==
  \/ \E i \in 0..(nextId - 1), row \in Row : AdminPost(i, row)
  \/ \E t \in Tags : AdminDelete(t)

Tick ==
  /\ now <= MaxTime
  /\ now' = now + 1
  /\ UNCHANGED <<rows, nextId, requestVars, adminVars>>
  /\ Watch

Handle(r) ==
  \/ Receive(r) \/ GetAuthorization(r) \/ GetAuthorizationFails(r)
  \/ Check(r) \/ InsertTag(r) \/ InsertTagFails(r)

Next ==
  \/ \E r \in Requests : Handle(r)
  \/ \E i \in DOMAIN rows : AdminGet(i)
  \/ AdminStep
  \/ Tick

Spec == Init /\ [][Next]_vars

-----------------------------------------------------------------------------
(* Safety. *)

\* However an answer was put together from a row read at one time and a clock
\* read at another (handlers_db.go:78 and :864), a charge point is told
\* Accepted only if the tag was accepted, or unknown, at one moment while the
\* request was handled.  A request whose read failed is the exception.
AcceptedWasValid ==
  \A r \in Requests :
    answer[r] = "Accepted" /\ r \notin failed
      => seen[r] \cap {"Accepted", "Unknown"} # {}

\* A tag that Authorize has accepted is in the table afterwards, so that an
\* administrator can find and block it, whoever wins the race to insert it
\* (handlers_db.go:878): if no call failed, it was there while the request was
\* handled.  Ids of rows that administrators save again after a deletion never
\* get in the way of an insert.
AcceptedIsKnown ==
  \A r \in Requests \ failed :
    kind[r] = "Authorize" /\ pc[r] = "done" => seen[r] # {"Unknown"}

(* Action property. *)

\* Only administrators decide about a tag that is in the table: whatever a
\* handler had read, its insert never changes or removes a row (the tag may
\* have been blocked since, handlers_db.go:878).
AdminDecides ==
  [][\A i \in DOMAIN rows :
       ~AdminStep => i \in DOMAIN rows' /\ rows'[i] = rows[i]]_vars

(* What the code does not keep. *)

\* The same as AcceptedWasValid for a tag that is refused as expired: the
\* expiry may pass after the row was read, and an administrator may have moved
\* it before it passed.
ExpiredWasExpired ==
  \A r \in Requests : answer[r] = "Expired" => "Expired" \in seen[r]

=============================================================================
