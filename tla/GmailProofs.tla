---------------------------- MODULE GmailProofs ----------------------------
(***************************************************************************)
(* Proofs about Gmail, for any calls, messages and numbers of items: that  *)
(* its calls use the download pool as GmailPool says, and that each call   *)
(* returns once, when no request of it is left, and with what it was asked *)
(* for unless it says that there was an error.                             *)
(***************************************************************************)
EXTENDS Gmail, GmailPoolProofs

----------------------------------------------------------------------------
(***************************************************************************)
(* The inductive invariant.                                                *)
(***************************************************************************)
Op == {"none", "connect", "search", "headers", "download"}
Record == [op : Op, entered : SUBSET Item, error : Errors, got : SUBSET Item,
           found : SUBSET Message, returned : Nat, items : 0 .. MaxItems,
           clean : SUBSET Item, bare : BOOLEAN, listed : Nat]
CallTypes == connectionInfo \in Call \cup {"nil"} /\ call \in [Call -> Record]

\* How far a call is: a connect or a search has its last request open, until an
\* error ends it; a batch without an error has got every item that is not open.
ReturnsWhenLeft(rec) == rec.returned <= 1 /\ (rec.returned = 1 => rec.entered = {})
LastIsOpen(rec) ==
  rec.op \in {"none", "connect", "search"} =>
    /\ rec.entered \subseteq {rec.items}
    /\ rec.op = "none" \/ rec.error # "nil" => rec.entered = {}
GotTheRest(rec) ==
  rec.op \in {"headers", "download"} /\ rec.error = "nil" =>
    /\ rec.entered \subseteq 1 .. rec.items
    /\ rec.got = (1 .. rec.items) \ rec.entered
    /\ rec.got \subseteq rec.clean
FoundIsListed(rec) ==
  rec.op = "search" /\ rec.error = "nil" => Cardinality(rec.found) = rec.listed
NotYet(rec) == rec.op = "none" => rec.returned = 0
Progress(rec) ==
  /\ ReturnsWhenLeft(rec) /\ LastIsOpen(rec) /\ GotTheRest(rec)
  /\ FoundIsListed(rec) /\ NotYet(rec)

GmailInv ==
  /\ IInv
  /\ CallTypes
  /\ GroupCountsPool
  /\ \A c \in Call : Progress(call[c])

\* What the handler makes of a reply to item i, and the requests it schedules.
Handled(rec, reply, i, ids, more) ==
  CASE rec.op = "connect" -> ConnectReply(rec, reply)
    [] rec.op = "search" -> SearchReply(rec, reply, ids, more)
    [] rec.op = "headers" -> HeadersReply(rec, reply, i)
    [] rec.op = "download" -> DownloadReply(rec, reply, i)

----------------------------------------------------------------------------
(***************************************************************************)
(* A call begins.                                                          *)
(***************************************************************************)
Requests(c, items) == {[call |-> c, item |-> i] : i \in 1 .. items}

\* A new call has made no progress, and none of its requests is in the pool.
LEMMA BeginKeepsProgress ==
  ASSUME GmailInv, NEW c \in Call, NEW op \in Op \ {"none"}, NEW items \in 0 .. MaxItems,
         op \in {"connect", "search"} => items = 1,
         Begin(c, op, items), UNCHANGED connectionInfo
  PROVE  /\ CallTypes' /\ (\A e \in Call : Progress(call'[e]))
         /\ call'[c].entered = 1 .. items
         /\ \A e \in Call : e # c => call'[e] = call[e]
         /\ \A i \in Item : ~Pending([call |-> c, item |-> i])
         /\ Requests(c, items) \subseteq Request
<1> USE MaxItemsAssumption, MaxBatchAssumption
<1> DEFINE rec == [NoCall EXCEPT !.op = op, !.items = items, !.entered = 1 .. items]
<1>1. /\ rec \in Record /\ rec.op = op /\ rec.items = items /\ rec.entered = 1 .. items
      /\ rec.error = "nil" /\ rec.got = {} /\ rec.found = {} /\ rec.returned = 0
      /\ rec.clean = {} /\ rec.listed = 0
  <2>1. NoCall \in Record
    BY DEF NoCall, Record, Op, Errors
  <2>2. 1 .. items \subseteq Item
    BY DEF Item
  <2>3. rec \in Record
    BY <2>1, <2>2 DEF Record
  <2>4. /\ rec.op = op /\ rec.items = items /\ rec.entered = 1 .. items
        /\ rec.error = "nil" /\ rec.got = {} /\ rec.found = {} /\ rec.returned = 0
        /\ rec.clean = {} /\ rec.listed = 0
    BY DEF NoCall
  <2> QED
    BY <2>3, <2>4
<1>2. call[c].op = "none" /\ call' = [call EXCEPT ![c] = rec]
  BY DEF Begin
<1> HIDE DEF rec
<1>3. call'[c] = rec /\ \A e \in Call : e # c => call'[e] = call[e]
  BY <1>2 DEF GmailInv, CallTypes
<1>4. CallTypes'
  BY <1>1, <1>2 DEF GmailInv, CallTypes
<1>5. Progress(rec)
  <2>1. ReturnsWhenLeft(rec) /\ NotYet(rec) /\ GotTheRest(rec)
    BY <1>1 DEF ReturnsWhenLeft, NotYet, GotTheRest
  <2>2. LastIsOpen(rec)
    BY <1>1 DEF LastIsOpen, Op
  <2>3. FoundIsListed(rec)
    BY <1>1, FS_EmptySet DEF FoundIsListed
  <2> QED
    BY <2>1, <2>2, <2>3 DEF Progress
<1>6. \A e \in Call : Progress(call'[e])
  BY <1>3, <1>5 DEF GmailInv
<1>7. call[c].entered = {}
  BY <1>2 DEF GmailInv, Progress, LastIsOpen
<1>8. \A i \in Item : ~Pending([call |-> c, item |-> i])
  BY <1>7 DEF GmailInv, GroupCountsPool
<1>9. Requests(c, items) \subseteq Request
  BY RequestAssumption DEF Requests, Item
<1> QED
  BY <1>1, <1>3, <1>4, <1>6, <1>8, <1>9

\* The group of a new call counts the requests that it has put into the pool.
LEMMA BeginKeepsGroups ==
  ASSUME GmailInv, NEW c \in Call, NEW items \in 0 .. MaxItems,
         Gains(Requests(c, items)),
         call'[c].entered = 1 .. items, \A e \in Call : e # c => call'[e] = call[e],
         \A i \in Item : ~Pending([call |-> c, item |-> i])
  PROVE  GroupCountsPool'
<1> SUFFICES ASSUME NEW e \in Call, NEW i \in Item
             PROVE  i \in call'[e].entered <=> Pending([call |-> e, item |-> i])'
  BY DEF GroupCountsPool
<1> DEFINE r == [call |-> e, item |-> i]
<1>1. r \in Request
  BY RequestAssumption
<1>2. Pending(r)' <=> Pending(r) \/ r \in Requests(c, items)
  BY <1>1 DEF Gains
<1>3. r \in Requests(c, items) <=> e = c /\ i \in 1 .. items
  BY DEF Requests
<1> HIDE DEF r
<1>4. i \in call[e].entered <=> Pending(r)
  BY DEF GmailInv, GroupCountsPool, r
<1>5. CASE e = c
  <2>1. ~Pending(r)
    BY <1>5 DEF r
  <2> QED
    BY <1>2, <1>3, <1>5, <2>1 DEF r
<1>6. CASE e # c
  BY <1>2, <1>3, <1>4, <1>6 DEF r
<1> QED
  BY <1>5, <1>6

\* A step of Gmail is a step of the pool and keeps the invariant.
Keeps == GmailInv' /\ Next

LEMMA ConnectKeepsInv ==
  ASSUME GmailInv, NEW c \in Call, NEW concurrency \in 1 .. MaxDownloaders,
         NEW limit \in SpeedLimits, NEW refresh \in CanRefresh, NEW left \in GivenLife,
         beConnect(c, concurrency, limit, refresh, left)
  PROVE  Keeps
<1> USE MaxItemsAssumption, MaxBatchAssumption, MaxDownloadersAssumption
<1> DEFINE r == [call |-> c, item |-> 1]
<1>1. /\ Begin(c, "connect", 1) /\ UNCHANGED connectionInfo
      /\ Connect(concurrency, limit, refresh, left, r)
  BY DEF beConnect
<1>2. /\ CallTypes' /\ \A e \in Call : Progress(call'[e])
      /\ call'[c].entered = 1 .. 1
      /\ \A e \in Call : e # c => call'[e] = call[e]
      /\ \A i \in Item : ~Pending([call |-> c, item |-> i])
      /\ Requests(c, 1) \subseteq Request
  <2>1. "connect" \in Op \ {"none"} /\ 1 \in 0 .. MaxItems
    BY DEF Op
  <2> QED
    BY <1>1, <2>1, BeginKeepsProgress
<1>3. Requests(c, 1) = {r} /\ r \in Request
  BY <1>2 DEF Requests
<1>4. /\ concurrency \in 0 .. MaxDownloaders /\ concurrency \in Nat
      /\ limit \in Nat /\ refresh \in BOOLEAN /\ left \in 0 .. TokenLife
  BY GivenAssumption, SpeedLimitsAssumption
<1> HIDE DEF r
<1>5. Next
  BY <1>1, <1>3, <1>4 DEF Next
<1>6. IInv' /\ Gains({r})
  BY <1>1, <1>3, <1>4, ConnectKeepsIInv DEF GmailInv
<1>7. GroupCountsPool'
  <2>1. 1 \in 0 .. MaxItems /\ Gains(Requests(c, 1))
    BY <1>3, <1>6
  <2> QED
    BY <1>2, <2>1, BeginKeepsGroups
<1> QED
  BY <1>2, <1>5, <1>6, <1>7 DEF Keeps, GmailInv

\* The requests of a new batch, in the order of its items.
LEMMA BatchOfCall ==
  ASSUME NEW c \in Call, NEW items \in 0 .. MaxItems,
         \A i \in Item : ~Pending([call |-> c, item |-> i])
  PROVE  LET rs == [i \in 1 .. items |-> [call |-> c, item |-> i]]
         IN rs \in Batch /\ Elements(rs) = Requests(c, items)
<1> USE MaxItemsAssumption, MaxBatchAssumption
<1> DEFINE rs == [i \in 1 .. items |-> [call |-> c, item |-> i]]
<1>1. /\ rs \in [1 .. items -> Request] /\ items \in 0 .. MaxBatch
      /\ \A i \in 1 .. items : i \in Item /\ rs[i] = [call |-> c, item |-> i]
  BY RequestAssumption DEF Item
<1>2. Len(rs) = items
  BY <1>1
<1> HIDE DEF rs
<1>3. Distinct(rs)
  BY <1>1, <1>2 DEF Distinct
<1>4. \A i \in 1 .. Len(rs) : ~Pending(rs[i])
  BY <1>1, <1>2
<1>5. rs \in Batch
  BY <1>1, <1>3, <1>4 DEF Batch
<1>6. Elements(rs) = Requests(c, items)
  BY <1>1, <1>2 DEF Elements, Requests
<1> QED
  BY <1>5, <1>6 DEF rs

\* The behaviours that schedule a batch of requests; a search begins with one.
LEMMA ScheduleKeepsInv ==
  ASSUME GmailInv, NEW c \in Call, NEW op \in {"search", "headers", "download"},
         NEW items \in 0 .. MaxItems, op = "search" => items = 1,
         Begin(c, op, items), UNCHANGED connectionInfo,
         Schedule([i \in 1 .. items |-> [call |-> c, item |-> i]])
  PROVE  Keeps
<1> DEFINE rs == [i \in 1 .. items |-> [call |-> c, item |-> i]]
<1>1. /\ CallTypes' /\ \A e \in Call : Progress(call'[e])
      /\ call'[c].entered = 1 .. items
      /\ \A e \in Call : e # c => call'[e] = call[e]
      /\ \A i \in Item : ~Pending([call |-> c, item |-> i])
  BY BeginKeepsProgress DEF Op
<1>2. rs \in Batch /\ Elements(rs) = Requests(c, items)
  BY <1>1, BatchOfCall
<1>3. Schedule(rs)
  OBVIOUS
<1> HIDE DEF rs
<1>4. Next
  BY <1>2, <1>3 DEF Next
<1>5. IInv' /\ Gains(Elements(rs))
  BY <1>2, <1>3, ScheduleKeepsIInv DEF GmailInv
<1>6. GroupCountsPool'
  BY <1>1, <1>2, <1>5, BeginKeepsGroups
<1> QED
  BY <1>1, <1>4, <1>5, <1>6 DEF Keeps, GmailInv

LEMMA SearchKeepsInv ==
  ASSUME GmailInv, NEW c \in Call, beSearch(c)
  PROVE  Keeps
<1> USE MaxItemsAssumption, MaxBatchAssumption
<1>1. /\ Begin(c, "search", 1) /\ UNCHANGED connectionInfo
      /\ Schedule(<<[call |-> c, item |-> 1]>>)
  BY DEF beSearch
<1>2. <<[call |-> c, item |-> 1]>> = [i \in 1 .. 1 |-> [call |-> c, item |-> i]]
  OBVIOUS
<1>3. 1 \in 0 .. MaxItems
  OBVIOUS
<1> QED
  BY <1>1, <1>2, <1>3, ScheduleKeepsInv

LEMMA BatchKeepsInv ==
  ASSUME GmailInv, NEW c \in Call, NEW op \in {"headers", "download"},
         NEW items \in 0 .. MaxItems, beBatch(c, op, items)
  PROVE  Keeps
BY ScheduleKeepsInv DEF beBatch

----------------------------------------------------------------------------
(***************************************************************************)
(* A reply is handled.                                                     *)
(***************************************************************************)

\* A handled reply takes its item out of the group, and a search may open the
\* next one; types and progress are kept.
LEMMA HandledKeepsProgress ==
  ASSUME NEW rec \in Record, Progress(rec), NEW i \in rec.entered,
         NEW reply \in Reply, NEW ids \in Page, NEW more \in BOOLEAN,
         more => i < MaxItems
  PROVE  LET new == Handled(Answered(rec, reply, i), reply, i, ids, more)
         IN /\ new \in Record /\ Progress(new) /\ new.op = rec.op
            /\ \/ new.entered = rec.entered \ {i}
               \/ /\ rec.op = "search" /\ rec.entered = {i}
                  /\ new.entered = {new.items} /\ new.items = i + 1
<1> USE MaxItemsAssumption, MaxBatchAssumption
<1> DEFINE a == Answered(rec, reply, i)
           new == Handled(a, reply, i, ids, more)
<1>1. /\ a \in Record /\ a.op = rec.op /\ a.entered = rec.entered \ {i}
      /\ a.error = rec.error /\ a.got = rec.got /\ a.found = rec.found
      /\ a.returned = rec.returned /\ a.items = rec.items /\ a.listed = rec.listed
      /\ a.clean = IF ~reply.error /\ reply.body # "none" THEN rec.clean \cup {i} ELSE rec.clean
  BY DEF Answered, Record
<1>2. /\ i \in Item /\ rec.op \in Op \ {"none"} /\ rec.returned = 0
      /\ rec.error \in Errors /\ rec.items \in 0 .. MaxItems
      /\ reply.error \in BOOLEAN /\ reply.body \in {"none", "message", "no raw", "undecodable"}
  <2>1. rec.op # "none"
    BY DEF Progress, LastIsOpen
  <2>2. rec.returned = 0
    BY DEF Progress, ReturnsWhenLeft, Record
  <2> QED
    BY <2>1, <2>2 DEF Record, Reply
<1>3. ASSUME NEW r \in Record, NEW error \in Errors
      PROVE  /\ Return(r, error) \in Record
             /\ Return(r, error).error = error /\ Return(r, error).returned = r.returned + 1
             /\ Return(r, error).op = r.op /\ Return(r, error).entered = r.entered
             /\ Return(r, error).items = r.items /\ Return(r, error).got = r.got
             /\ Return(r, error).clean = r.clean
             /\ Return(r, error).found = r.found /\ Return(r, error).listed = r.listed
  <2>1. r.returned + 1 \in Nat
    BY DEF Record
  <2>2. Return(r, error) \in Record
    BY <2>1 DEF Return, Record
  <2>3. /\ Return(r, error).error = error /\ Return(r, error).returned = r.returned + 1
        /\ Return(r, error).op = r.op /\ Return(r, error).entered = r.entered
        /\ Return(r, error).items = r.items /\ Return(r, error).got = r.got
        /\ Return(r, error).clean = r.clean
        /\ Return(r, error).found = r.found /\ Return(r, error).listed = r.listed
    BY DEF Return, Record
  <2> QED
    BY <2>2, <2>3
<1>4. MaxItems \in Nat /\ i \in 1 .. MaxItems
  <2>1. i \in Item
    BY <1>2
  <2> QED
    BY <2>1 DEF Item
<1> HIDE DEF a
<1>5. CASE rec.op = "connect"
  <2>1. PICK error \in Errors : new = Return(a, error)
    BY <1>1, <1>5 DEF Handled, ConnectReply, Errors
  <2>2. /\ new \in Record /\ new.op = "connect" /\ new.returned = 1
        /\ new.entered = rec.entered \ {i} /\ new.entered = {}
    <3> HIDE DEF new
    <3>1. /\ Return(a, error) \in Record /\ Return(a, error).returned = a.returned + 1
          /\ Return(a, error).op = a.op /\ Return(a, error).entered = a.entered
      BY <1>1, <1>3
    <3>2. rec.entered = {i}
      BY <1>5 DEF Progress, LastIsOpen
    <3>3. a.returned = 0 /\ a.op = "connect" /\ a.entered = rec.entered \ {i}
      BY <1>1, <1>2, <1>5
    <3>4. new \in Record /\ new.op = "connect" /\ new.returned = 1
      BY <2>1, <3>1, <3>3
    <3>5. new.entered = rec.entered \ {i}
      BY <2>1, <3>1, <3>3
    <3> QED
      BY <3>2, <3>4, <3>5
  <2> HIDE DEF new
  <2>3. Progress(new)
    BY <2>2 DEF Progress, ReturnsWhenLeft, LastIsOpen, GotTheRest, FoundIsListed, NotYet
  <2> QED
    BY <1>5, <2>2, <2>3 DEF new, a
<1>6. CASE rec.op = "search"
  <2> DEFINE sofar == [a EXCEPT !.listed = @ + Len(ids), !.found = @ \cup Elements(ids)]
             go == [sofar EXCEPT !.items = @ + 1, !.entered = {a.items + 1}]
  <2>1. rec.entered = {i} /\ i = rec.items /\ a.entered = {} /\ rec.error = "nil"
    BY <1>1, <1>2, <1>6 DEF Progress, LastIsOpen
  <2>2. Len(ids) \in Nat /\ Elements(ids) \subseteq Message
    BY DEF Page, Elements
  <2>3. /\ sofar \in Record /\ sofar.op = "search" /\ sofar.entered = {}
        /\ sofar.error = "nil" /\ sofar.returned = 0 /\ sofar.items = i
        /\ sofar.listed = rec.listed + Len(ids) /\ sofar.found = rec.found \cup Elements(ids)
    <3>1. a.listed + Len(ids) \in Nat /\ a.found \cup Elements(ids) \subseteq Message
      BY <1>1, <2>2 DEF Record
    <3> QED
      BY <1>1, <1>2, <1>6, <2>1, <3>1 DEF Record
  <2>4. more => /\ go \in Record /\ go.op = "search" /\ go.entered = {i + 1} /\ go.items = i + 1
                /\ go.error = "nil" /\ go.returned = 0
                /\ go.listed = sofar.listed /\ go.found = sofar.found
    <3>1. more => i + 1 \in 0 .. MaxItems /\ i + 1 \in Item
      BY <1>4 DEF Item
    <3>2. a.items = i
      BY <1>1, <2>1
    <3> HIDE DEF sofar
    <3> QED
      BY <2>3, <3>1, <3>2 DEF Record
  <2> HIDE DEF sofar, go
  <2>5. \/ \E error \in Errors \ {"nil"} : new = Return(a, error) \/ new = Return(sofar, error)
        \/ ~Repeats(rec.found, ids) /\ more /\ new = go
        \/ ~Repeats(rec.found, ids) /\ new = Return(sofar, "nil")
    <3>1. a.op = "search" /\ a.found = rec.found
      BY <1>1, <1>6
    <3>2. new = IF reply.error THEN Return(a, "http")
                ELSE IF reply.body = "none" THEN Return(a, "unknown")
                ELSE IF Repeats(rec.found, ids)
                     THEN Return(sofar, "duplicate messageIds returned")
                ELSE IF more THEN go ELSE Return(sofar, "nil")
      BY <3>1 DEF Handled, SearchReply, sofar, go
    <3>3. {"http", "unknown", "duplicate messageIds returned"} \subseteq Errors \ {"nil"}
      BY DEF Errors
    <3> HIDE DEF new
    <3> QED
      BY <3>2, <3>3
  <2> HIDE DEF new
  <2>6. ASSUME ~Repeats(rec.found, ids)
        PROVE  Cardinality(sofar.found) = sofar.listed
    BY <1>6, <2>1, <2>3, <2>6 DEF Repeats, Progress, FoundIsListed
  <2>7. ASSUME NEW error \in Errors \ {"nil"}, new = Return(a, error) \/ new = Return(sofar, error)
        PROVE  new \in Record /\ new.op = "search" /\ new.entered = {} /\ Progress(new)
    <3>1. /\ new \in Record /\ new.op = "search" /\ new.entered = {}
          /\ new.returned = 1 /\ new.error = error
      <4>1. ASSUME NEW r \in {a, sofar}
            PROVE  /\ Return(r, error) \in Record /\ Return(r, error).op = "search"
                   /\ Return(r, error).entered = {} /\ Return(r, error).returned = 1
                   /\ Return(r, error).error = error
        <5>1. r \in Record /\ r.op = "search" /\ r.entered = {} /\ r.returned = 0
          BY <1>1, <1>2, <1>6, <2>1, <2>3
        <5>2. /\ Return(r, error) \in Record
              /\ Return(r, error).error = error /\ Return(r, error).returned = r.returned + 1
              /\ Return(r, error).op = r.op /\ Return(r, error).entered = r.entered
          BY <1>3, <5>1
        <5> QED
          BY <5>1, <5>2
      <4> QED
        BY <2>7, <4>1
    <3> QED
      BY <3>1 DEF Progress, ReturnsWhenLeft, LastIsOpen, GotTheRest, FoundIsListed, NotYet
  <2>8. ASSUME ~Repeats(rec.found, ids), more, new = go
        PROVE  new \in Record /\ new.op = "search" /\ new.entered = {new.items}
                 /\ new.items = i + 1 /\ Progress(new)
    BY <2>4, <2>6, <2>8
       DEF Progress, ReturnsWhenLeft, LastIsOpen, GotTheRest, FoundIsListed, NotYet
  <2>9. ASSUME ~Repeats(rec.found, ids), new = Return(sofar, "nil")
        PROVE  new \in Record /\ new.op = "search" /\ new.entered = {} /\ Progress(new)
    <3>1. /\ new \in Record /\ new.op = "search" /\ new.entered = {}
          /\ new.returned = 1 /\ new.error = "nil"
          /\ new.found = sofar.found /\ new.listed = sofar.listed
      <4>1. /\ Return(sofar, "nil") \in Record
            /\ Return(sofar, "nil").error = "nil"
            /\ Return(sofar, "nil").returned = sofar.returned + 1
            /\ Return(sofar, "nil").op = sofar.op
            /\ Return(sofar, "nil").entered = sofar.entered
            /\ Return(sofar, "nil").found = sofar.found
            /\ Return(sofar, "nil").listed = sofar.listed
        BY <1>3, <2>3 DEF Errors
      <4> QED
        BY <2>3, <2>9, <4>1
    <3> QED
      BY <2>6, <2>9, <3>1
         DEF Progress, ReturnsWhenLeft, LastIsOpen, GotTheRest, FoundIsListed, NotYet
  <2> QED
    BY <1>6, <2>1, <2>5, <2>7, <2>8, <2>9 DEF new, a
<1>7. CASE rec.op \in {"headers", "download"}
  <2>1. /\ new \in Record /\ new.op = rec.op /\ new.entered = rec.entered \ {i}
        /\ new.returned = 0 /\ new.items = rec.items /\ new.clean = a.clean
    <3>1. CASE rec.op = "headers"
      BY <1>1, <1>2, <3>1 DEF Handled, HeadersReply, Record, Errors
    <3>2. CASE rec.op = "download"
      BY <1>1, <1>2, <3>2, ZenonT(30) DEF Handled, DownloadReply, Record, Errors
    <3> QED
      BY <1>7, <3>1, <3>2
  <2>2. ASSUME new.error = "nil"
        PROVE  /\ rec.error = "nil" /\ ~reply.error /\ reply.body # "none"
               /\ new.got = rec.got \cup {i}
    <3>1. CASE rec.op = "headers"
      BY <1>1, <1>2, <2>2, <3>1 DEF Handled, HeadersReply, Record, Errors
    <3>2. CASE rec.op = "download"
      BY <1>1, <1>2, <2>2, <3>2 DEF Handled, DownloadReply, Record, Errors
    <3> QED
      BY <1>7, <3>1, <3>2
  <2> HIDE DEF new
  <2>3. GotTheRest(new)
    <3> SUFFICES ASSUME new.error = "nil"
                 PROVE  /\ new.entered \subseteq 1 .. new.items
                        /\ new.got = (1 .. new.items) \ new.entered
                        /\ new.got \subseteq new.clean
      BY DEF GotTheRest
    <3>1. rec.got = (1 .. rec.items) \ rec.entered /\ rec.got \subseteq rec.clean
      BY <1>7, <2>2 DEF Progress, GotTheRest
    <3>2. i \in 1 .. rec.items
      BY <1>7, <2>2 DEF Progress, GotTheRest
    <3>3. new.clean = rec.clean \cup {i}
      BY <1>1, <2>1, <2>2
    <3>4. new.items = rec.items /\ new.entered = rec.entered \ {i} /\ new.got = rec.got \cup {i}
      BY <2>1, <2>2
    <3>5. rec.entered \subseteq 1 .. rec.items
      BY <1>7, <2>2 DEF Progress, GotTheRest
    <3> QED
      BY <3>1, <3>2, <3>3, <3>4, <3>5
  <2>4. Progress(new)
    BY <1>7, <2>1, <2>3 DEF Progress, ReturnsWhenLeft, LastIsOpen, FoundIsListed, NotYet
  <2> QED
    BY <2>1, <2>4 DEF new, a
<1> QED
  BY <1>2, <1>5, <1>6, <1>7 DEF Op

\* The request that a handler schedules is the next page's, which is not open yet.
LEMMA NextPageIsBatch ==
  ASSUME GmailInv, NEW c \in Call, NEW j \in Item, j \notin call[c].entered
  PROVE  LET rs == <<[call |-> c, item |-> j]>>
         IN rs \in Batch /\ Elements(rs) = {[call |-> c, item |-> j]}
<1> USE MaxItemsAssumption, MaxBatchAssumption
<1> DEFINE r == [call |-> c, item |-> j]
<1>1. r \in Request /\ ~Pending(r)
  BY RequestAssumption DEF GmailInv, GroupCountsPool
<1> HIDE DEF r
<1>2. <<r>> \in [1 .. 1 -> Request] /\ Len(<<r>>) = 1 /\ <<r>>[1] = r
  BY <1>1
<1>3. 1 \in 0 .. MaxBatch
  OBVIOUS
<1>4. <<r>> \in Batch
  BY <1>1, <1>2, <1>3 DEF Batch, Distinct
<1>5. Elements(<<r>>) = {r}
  BY <1>2 DEF Elements
<1> QED
  BY <1>4, <1>5 DEF r

LEMMA EmptyIsBatch == <<>> \in Batch /\ Elements(<<>>) = {}
<1>1. <<>> \in [1 .. 0 -> Request] /\ Len(<<>>) = 0 /\ 0 \in 0 .. MaxBatch
  BY MaxBatchAssumption
<1> QED
  BY <1>1 DEF Batch, Distinct, Elements

LEMMA HandleReplyKeepsInv ==
  ASSUME GmailInv, NEW d \in Downloader, NEW reply \in Reply, NEW ids \in Page,
         NEW more \in BOOLEAN, HandleReply(d, reply, ids, more)
  PROVE  Keeps
<1> DEFINE c == job[d].call
           i == job[d].item
           new == Handled(Answered(call[c], reply, i), reply, i, ids, more)
           opens == call[c].op = "search" /\ new.entered # {}
           next == IF opens THEN <<[call |-> c, item |-> new.items]>> ELSE <<>>
<1>1. job[d] \in Request /\ stage[d] = "http"
  BY DEF HandleReply, GmailInv, IInv, StructureInv, Structure
<1>2. c \in Call /\ i \in Item /\ job[d] = [call |-> c, item |-> i]
  BY <1>1, RequestAssumption
<1>3. i \in call[c].entered
  <2>1. Pending(job[d])
    BY DEF Pending, Serving
  <2> QED
    BY <1>2, <2>1 DEF GmailInv, GroupCountsPool
<1>4. call[c] \in Record /\ Progress(call[c])
  BY <1>2 DEF GmailInv, CallTypes
<1>5. Answered(call[c], reply, i).op = call[c].op
  BY <1>4 DEF Answered, Record
<1>6. /\ more => i < MaxItems
      /\ call' = [call EXCEPT ![c] = new]
      /\ connectionInfo' \in {c, connectionInfo}
      /\ HttpReply(d, next)
  BY <1>5 DEF HandleReply, Handled
<1>7. /\ new \in Record /\ Progress(new) /\ new.op = call[c].op
      /\ \/ new.entered = call[c].entered \ {i}
         \/ /\ call[c].op = "search" /\ call[c].entered = {i}
            /\ new.entered = {new.items} /\ new.items = i + 1
  <2> DEFINE rec == call[c]
             now == Handled(Answered(rec, reply, i), reply, i, ids, more)
  <2> HIDE DEF c, i
  <2>1. rec \in Record /\ Progress(rec) /\ i \in rec.entered /\ (more => i < MaxItems)
    BY <1>3, <1>4, <1>6
  <2> HIDE DEF rec
  <2>2. /\ now \in Record /\ Progress(now) /\ now.op = rec.op
        /\ \/ now.entered = rec.entered \ {i}
           \/ /\ rec.op = "search" /\ rec.entered = {i}
              /\ now.entered = {now.items} /\ now.items = i + 1
    BY <2>1, HandledKeepsProgress
  <2>3. new = now
    BY DEF rec
  <2> HIDE DEF now, new
  <2> QED
    BY <2>2, <2>3 DEF rec
<1> HIDE DEF c, i, new
<1>8. ~opens => new.entered = call[c].entered \ {i}
  BY <1>7
<1>9. opens => new.items = i + 1 /\ call[c].entered = {i} /\ new.entered = {i + 1} /\ i + 1 \in Item
  <2>1. call[c].op = "search" => call[c].entered \ {i} = {}
    BY <1>3, <1>4 DEF Progress, LastIsOpen
  <2> QED
    BY <1>7, <2>1 DEF Record
<1>10. /\ next \in Batch
       /\ Elements(next) = IF opens THEN {[call |-> c, item |-> i + 1]} ELSE {}
  <2>1. CASE opens
    <3>1. i + 1 \notin call[c].entered
      BY <1>2, <1>9, <2>1, MaxItemsAssumption, MaxBatchAssumption DEF Item
    <3> QED
      BY <1>2, <1>9, <2>1, <3>1, NextPageIsBatch
  <2>2. CASE ~opens
    BY <2>2, EmptyIsBatch
  <2> QED
    BY <2>1, <2>2
<1> HIDE DEF next, opens
<1>11. Next
  BY <1>6, <1>10 DEF Next
<1>12. IInv' /\ \A r \in Request : Pending(r)' <=> (Pending(r) /\ r # job[d]) \/ r \in Elements(next)
  BY <1>6, <1>10, HttpReplyKeepsIInv DEF GmailInv
<1>13. /\ CallTypes' /\ call'[c] = new
       /\ \A e \in Call : e # c => call'[e] = call[e]
  BY <1>2, <1>6, <1>7 DEF GmailInv, CallTypes
<1>14. \A e \in Call : Progress(call'[e])
  BY <1>7, <1>13 DEF GmailInv
<1>15. GroupCountsPool'
  <2> SUFFICES ASSUME NEW e \in Call, NEW j \in Item
               PROVE  j \in call'[e].entered <=> Pending([call |-> e, item |-> j])'
    BY DEF GroupCountsPool
  <2> DEFINE r == [call |-> e, item |-> j]
  <2>1. r \in Request /\ (r = job[d] <=> e = c /\ j = i)
    BY <1>2, RequestAssumption
  <2>2. j \in call[e].entered <=> Pending(r)
    BY DEF GmailInv, GroupCountsPool
  <2>3. r \in Elements(next) <=> opens /\ e = c /\ j = i + 1
    BY <1>10
  <2> HIDE DEF r
  <2>4. Pending(r)' <=> (j \in call[e].entered /\ ~(e = c /\ j = i)) \/ (opens /\ e = c /\ j = i + 1)
    BY <1>12, <2>1, <2>2, <2>3
  <2>5. CASE e # c
    BY <1>13, <2>4, <2>5 DEF r
  <2>6. CASE e = c
    <3>1. call'[e].entered = IF opens THEN {i + 1} ELSE call[e].entered \ {i}
      BY <1>8, <1>9, <1>13, <2>6
    <3>2. opens => call[e].entered = {i}
      BY <1>9, <2>6
    <3> QED
      BY <2>4, <2>6, <3>1, <3>2 DEF r
  <2> QED
    BY <2>5, <2>6
<1> QED
  BY <1>11, <1>12, <1>13, <1>14, <1>15 DEF Keeps, GmailInv

----------------------------------------------------------------------------
(***************************************************************************)
(* The other steps.                                                        *)
(***************************************************************************)

\* A step that changes neither a call nor what is pending keeps the invariant.
LEMMA GroupsKeep ==
  ASSUME GmailInv, IInv', UNCHANGED <<call, connectionInfo>>,
         \A r \in Request : Pending(r)' <=> Pending(r)
  PROVE  GmailInv'
<1>1. \A c \in Call, i \in Item : [call |-> c, item |-> i] \in Request
  BY RequestAssumption
<1>2. GroupCountsPool'
  BY <1>1 DEF GmailInv, GroupCountsPool
<1> QED
  BY <1>2 DEF GmailInv, CallTypes

LEMMA PoolStepKeepsInv ==
  ASSUME GmailInv, PoolStep
  PROVE  Keeps
<1>1. IInv /\ UNCHANGED <<call, connectionInfo>>
  BY DEF GmailInv, PoolStep
<1>2. ASSUME IInv', Gains({})
      PROVE  GmailInv'
  BY <1>1, <1>2, GroupsKeep DEF Gains
<1>3. CASE TimerFires
  BY <1>1, <1>2, <1>3, TimerFiresKeepsIInv DEF Keeps, Next
<1>4. CASE \E d \in Downloader, ok \in BOOLEAN,
              left \in (TokenLife - MaxReplyDelay) .. TokenLife : RefreshReply(d, ok, left)
  BY <1>1, <1>2, <1>4, RefreshReplyKeepsIInv DEF Keeps, Next
<1>5. CASE \E d \in Downloader : DownloaderFinished(d)
  BY <1>1, <1>2, <1>5, DownloaderFinishedKeepsIInv DEF Keeps, Next
<1>6. CASE \E d \in Downloader : SessionGranted(d)
  BY <1>1, <1>2, <1>6, SessionGrantedKeepsIInv DEF Keeps, Next
<1>7. CASE Tick
  BY <1>1, <1>2, <1>7, TickKeepsIInv DEF Keeps, Next
<1> QED
  BY <1>3, <1>4, <1>5, <1>6, <1>7 DEF PoolStep

\* A step that leaves the pool alone keeps its invariant.
LEMMA PoolUnchanged ==
  ASSUME GmailInv, UNCHANGED vars
  PROVE  IInv' /\ \A r \in Request : Pending(r)' <=> Pending(r)
<1>1. IInv'
  BY NextKeepsIInv DEF GmailInv
<1> QED
  BY <1>1 DEF vars, queueVars, downloaderVars, Pending, Serving

LEMMA NotifiedKeepsInv ==
  ASSUME GmailInv, NEW c \in Call, Notified(c)
  PROVE  GmailInv' /\ UNCHANGED vars
<1>1. /\ call[c].op \in {"headers", "download"}
      /\ call[c].entered = {} /\ call[c].returned = 0
      /\ call' = [call EXCEPT ![c].returned = 1] /\ UNCHANGED <<vars, connectionInfo>>
  BY DEF Notified
<1>2. call[c] \in Record /\ Progress(call[c])
  BY DEF GmailInv, CallTypes
<1> DEFINE new == [call[c] EXCEPT !.returned = 1]
<1>3. /\ new \in Record /\ new.returned = 1 /\ new.op = call[c].op
      /\ new.entered = call[c].entered /\ new.error = call[c].error
      /\ new.got = call[c].got /\ new.items = call[c].items /\ new.clean = call[c].clean
  BY <1>2 DEF Record
<1>4. call' = [call EXCEPT ![c] = new]
  BY <1>1
<1> HIDE DEF new
<1>5. Progress(new)
  BY <1>1, <1>2, <1>3
     DEF Progress, ReturnsWhenLeft, LastIsOpen, GotTheRest, FoundIsListed, NotYet
<1>6. /\ CallTypes' /\ call'[c] = new
      /\ \A e \in Call : e # c => call'[e] = call[e]
  BY <1>1, <1>3, <1>4 DEF GmailInv, CallTypes
<1>7. \A e \in Call : Progress(call'[e])
  BY <1>5, <1>6 DEF GmailInv
<1>8. IInv' /\ \A r \in Request : Pending(r)' <=> Pending(r)
  BY <1>1, PoolUnchanged
<1>9. GroupCountsPool'
  <2>1. \A e \in Call : call'[e].entered = call[e].entered
    BY <1>3, <1>6
  <2>2. \A e \in Call, i \in Item : [call |-> e, item |-> i] \in Request
    BY RequestAssumption
  <2> QED
    BY <1>8, <2>1, <2>2 DEF GmailInv, GroupCountsPool
<1> QED
  BY <1>1, <1>6, <1>7, <1>8, <1>9 DEF GmailInv

----------------------------------------------------------------------------
(***************************************************************************)
(* The theorems.                                                           *)
(***************************************************************************)
LEMMA GmailInitEstablishesInv ==
  ASSUME GmailInit
  PROVE  GmailInv
<1> USE MaxItemsAssumption, MaxBatchAssumption, NoRequestAssumption
<1>1. IInv
  BY InitEstablishesIInv DEF GmailInit
<1>2. NoCall \in Record
  BY DEF NoCall, Record, Op, Errors
<1>3. /\ call = [c \in Call |-> NoCall] /\ connectionInfo = "nil"
      /\ requestQueue = <<>> /\ job = [d \in Downloader |-> NoRequest]
  BY DEF GmailInit, Init
<1>4. Progress(NoCall)
  BY DEF NoCall, Progress, ReturnsWhenLeft, LastIsOpen, GotTheRest, FoundIsListed, NotYet
<1>5. ASSUME NEW r \in Request
      PROVE  ~Pending(r)
  BY <1>3 DEF Pending, Serving, Elements
<1>6. GroupCountsPool
  <2>1. \A c \in Call, i \in Item : [call |-> c, item |-> i] \in Request
    BY RequestAssumption
  <2>2. NoCall.entered = {}
    BY DEF NoCall
  <2> QED
    BY <1>3, <1>5, <2>1, <2>2 DEF GroupCountsPool
<1> QED
  BY <1>1, <1>2, <1>3, <1>4, <1>6 DEF GmailInv, CallTypes

LEMMA GmailNextKeepsInv ==
  ASSUME GmailInv, [GmailNext]_gmailVars
  PROVE  GmailInv' /\ [Next]_vars
<1>1. CASE \E c \in Call, concurrency \in 1 .. MaxDownloaders, limit \in SpeedLimits,
              refresh \in CanRefresh, left \in GivenLife :
             beConnect(c, concurrency, limit, refresh, left)
  BY <1>1, ConnectKeepsInv DEF Keeps
<1>2. CASE \E c \in Call : beSearch(c)
  BY <1>2, SearchKeepsInv DEF Keeps
<1>3. CASE \E c \in Call, op \in {"headers", "download"}, items \in 0 .. MaxItems :
             beBatch(c, op, items)
  BY <1>3, BatchKeepsInv DEF Keeps
<1>4. CASE \E d \in Downloader, reply \in Reply, ids \in Page, more \in BOOLEAN :
             HandleReply(d, reply, ids, more)
  BY <1>4, HandleReplyKeepsInv DEF Keeps
<1>5. CASE \E c \in Call : Notified(c)
  BY <1>5, NotifiedKeepsInv
<1>6. CASE PoolStep
  BY <1>6, PoolStepKeepsInv DEF Keeps
<1>7. CASE UNCHANGED gmailVars
  BY <1>7, PoolUnchanged, GroupsKeep DEF gmailVars
<1> QED
  BY <1>1, <1>2, <1>3, <1>4, <1>5, <1>6, <1>7 DEF GmailNext

THEOREM GmailInvInvariant == GmailSpec => []GmailInv
<1>1. GmailInit => GmailInv
  BY GmailInitEstablishesInv
<1>2. GmailInv /\ [GmailNext]_gmailVars => GmailInv'
  BY GmailNextKeepsInv
<1> QED
  BY <1>1, <1>2, PTL DEF GmailSpec

\* The calls use the pool as its specification allows: whatever GmailPoolProofs
\* proves of the pool holds under every program of calls.
THEOREM GmailUsesThePool == GmailSpec => Spec
<1>1. GmailInit => Init
  BY DEF GmailInit
<1>2. GmailInv /\ [GmailNext]_gmailVars => [Next]_vars
  BY GmailNextKeepsInv
<1> QED
  BY <1>1, <1>2, GmailInvInvariant, PTL DEF GmailSpec, Spec

\* Types are kept.
THEOREM GmailTypeCorrect == GmailSpec => []GmailTypeOK
<1>1. GmailInv => GmailTypeOK
  BY StructureIsAccounting DEF GmailInv, IInv, CallTypes, Record, Op, GmailTypeOK
<1> QED
  BY <1>1, GmailInvInvariant, PTL

\* The groups of the calls count the requests in the pool, over any number of
\* calls, pages and failed token requests.
THEOREM GroupAlwaysCountsPool == GmailSpec => []GroupCountsPool
<1>1. GmailInv => GroupCountsPool
  BY DEF GmailInv
<1> QED
  BY <1>1, GmailInvInvariant, PTL

\* No call returns twice, or while a request of it is left.
THEOREM AlwaysReturnsOnce == GmailSpec => []ReturnsOnce
<1>1. GmailInv => ReturnsOnce
  BY DEF GmailInv, Progress, ReturnsWhenLeft, ReturnsOnce
<1> QED
  BY <1>1, GmailInvInvariant, PTL

\* A batch that returns a nil error has every message it was asked for.
THEOREM NilErrorIsAlwaysComplete == GmailSpec => []NilErrorIsComplete
<1>1. ASSUME GmailInv, NEW c \in Call, call[c].op \in {"headers", "download"},
             call[c].returned = 1, call[c].error = "nil"
      PROVE  call[c].got = 1 .. call[c].items /\ call[c].got \subseteq call[c].clean
  BY <1>1 DEF GmailInv, Progress, ReturnsWhenLeft, GotTheRest
<1>2. GmailInv => NilErrorIsComplete
  BY <1>1 DEF NilErrorIsComplete
<1> QED
  BY <1>2, GmailInvInvariant, PTL

\* A search without an error returns each listed id once, over any number of pages.
THEOREM SearchIsAlwaysExact == GmailSpec => []SearchIsExact
<1>1. GmailInv => SearchIsExact
  BY DEF GmailInv, Progress, FoundIsListed, SearchIsExact
<1> QED
  BY <1>1, GmailInvInvariant, PTL
=============================================================================
