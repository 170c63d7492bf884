------------------------------- MODULE Gmail -------------------------------
(***************************************************************************)
(* The Gmail actor (Sources/MailPacket/Gmail.swift): its behaviours        *)
(* beConnect, beSearch, beHeaders and beDownload over the download pool.   *)
(*                                                                         *)
(* A behaviour schedules closures in the pool; a closure's HTTP reply is   *)
(* handled by the actor, updates what the call has gathered so far, and    *)
(* gives the downloader back.  The handlers of several calls interleave.   *)
(* GmailSpec is GmailPool's Spec with the callers' side made concrete.     *)
(***************************************************************************)
EXTENDS GmailPool, FiniteSets

CONSTANTS
  Call,         \* calls of a behaviour; each is made once
  Message,      \* message ids of the mailbox
  MaxItems,     \* bound: ids given to one beHeaders or beDownload, pages of a search
  CanRefresh,   \* values of "beConnect was given a tokenRefresh"
  GivenLife     \* lives of the access tokens given to beConnect, in ticks

Item == 1 .. MaxItems

\* The closures: the i-th request of a call.
ASSUME RequestAssumption == Request = [call : Call, item : Item]
ASSUME MaxItemsAssumption == MaxItems \in 1 .. MaxBatch
ASSUME GivenAssumption == CanRefresh \subseteq BOOLEAN /\ GivenLife \subseteq 0 .. TokenLife

\* call[c] is what the closures of c have captured and changed.
\*   op        the behaviour, "none" before the call
\*   entered   items whose group.leave() has not run, or the open page request
\*   error     anyError, or the error of the reply that ended the call
\*   got       items in allHeaders or allEmails
\*   found     ids a search has accumulated
\*   returned  how many times returnCallback was called
\* and of the server's side, for the properties:
\*   items     how many requests the call is about
\*   clean     items answered by the server with a body and no error
\*   bare      a reply came with neither an error nor a response
\*   listed    number of ids in all the pages of a search
VARIABLES call, connectionInfo

gmailVars == <<vars, call, connectionInfo>>

Errors == {"nil", "http", "unknown", "duplicate messageIds returned",
           "empty response without error", "raw is missing from response",
           "failed decode raw"}

NoCall == [op |-> "none", entered |-> {}, error |-> "nil", got |-> {}, found |-> {},
           returned |-> 0, items |-> 0, clean |-> {}, bare |-> FALSE, listed |-> 0]

\* What HTTPSession hands to a response handler: an error or none, and a body
\* or none.
Reply == [error : BOOLEAN, body : {"none", "message", "no raw", "undecodable"}]

----------------------------------------------------------------------------
GmailInit ==
  /\ Init
  /\ call = [c \in Call |-> NoCall]
  /\ connectionInfo = "nil"

Begin(c, op, items) ==
  /\ call[c].op = "none"
  /\ call' = [call EXCEPT ![c] = [NoCall EXCEPT !.op = op, !.items = items,
                                                !.entered = 1 .. items]]

beConnect(c, concurrency, limit, refresh, left) ==
  /\ Begin(c, "connect", 1)
  /\ Connect(concurrency, limit, refresh, left, [call |-> c, item |-> 1])
  /\ UNCHANGED connectionInfo

beSearch(c) ==
  /\ Begin(c, "search", 1)
  /\ Schedule(<<[call |-> c, item |-> 1]>>)
  /\ UNCHANGED connectionInfo

\* beHeaders or beDownload of `items` ids: one request each, all in one handler.
\* In the mutant the closures share the loop's variable.
beBatchSharedVariable(c, op, items) ==
  /\ Begin(c, op, items)
  /\ Schedule([i \in 1 .. items |-> [call |-> c, item |-> items]])
  /\ UNCHANGED connectionInfo
beBatch(c, op, items) ==
  /\ Begin(c, op, items)
  /\ Schedule([i \in 1 .. items |-> [call |-> c, item |-> i]])
  /\ UNCHANGED connectionInfo

\* returnCallback(error, ...) in the reply that ends the call.
Return(rec, error) == [rec EXCEPT !.error = error, !.returned = @ + 1]

\* The profile request: the connection info is kept on success only.  The
\* mutant goes on after it has returned an error.
ConnectReplyGoesOn(rec, reply) ==
  IF reply.error THEN Return(Return(rec, "http"), "nil") ELSE Return(rec, "nil")
ConnectReply(rec, reply) ==
  IF reply.error THEN Return(rec, "http")
  ELSE IF reply.body = "none" THEN Return(rec, "unknown")
  ELSE Return(rec, "nil")

\* The Set has grown by less than the page: an id is twice in the page, or was in
\* a page before.  The mutant looks at the pages before only.
RepeatsEarlierPage(found, ids) == Elements(ids) \cap found # {}
Repeats(found, ids) ==
  Cardinality(found \cup Elements(ids)) # Cardinality(found) + Len(ids)

\* A page of a search that lists `ids`.  A further page is asked for by the same
\* handler that takes this one in.
SearchReply(rec, reply, ids, more) ==
  LET sofar == [rec EXCEPT !.listed = @ + Len(ids), !.found = @ \cup Elements(ids)]
  IN IF reply.error THEN Return(rec, "http")
     ELSE IF reply.body = "none" THEN Return(rec, "unknown")
     ELSE IF Repeats(rec.found, ids)
          THEN Return(sofar, "duplicate messageIds returned")
     ELSE IF more
          THEN [sofar EXCEPT !.items = @ + 1, !.entered = {rec.items + 1}]
     ELSE Return(sofar, "nil")

\* One header.  An error is noted first; a missing body then takes its place.
\* The mutant takes a missing body for the end of the handler.
HeadersReplyIgnoresEmpty(rec, reply, i) ==
  IF reply.body = "none" THEN rec ELSE [rec EXCEPT !.got = @ \cup {i}]
HeadersReply(rec, reply, i) ==
  LET noted == IF reply.error /\ rec.error = "nil" THEN "http" ELSE rec.error
  IN IF reply.body = "none"
     THEN [rec EXCEPT !.error = "empty response without error"]
     ELSE [rec EXCEPT !.error = noted, !.got = @ \cup {i}]

\* One email.  Only the first error of the call ends the handler.
DownloadReply(rec, reply, i) ==
  IF reply.error /\ rec.error = "nil" THEN [rec EXCEPT !.error = "http"]
  ELSE CASE reply.body = "none" -> [rec EXCEPT !.error = "empty response without error"]
         [] reply.body = "no raw" -> [rec EXCEPT !.error = "raw is missing from response"]
         [] reply.body = "undecodable" -> [rec EXCEPT !.error = "failed decode raw"]
         [] reply.body = "message" -> [rec EXCEPT !.got = @ \cup {i}]

\* A reply as the server meant it, and the item leaving the group.  In the mutant
\* the early return of an error skips group.leave().
AnsweredLeaveSkipped(rec, reply, i) ==
  [rec EXCEPT !.entered = IF reply.error /\ rec.op = "download" THEN @ ELSE @ \ {i},
              !.clean = IF ~reply.error /\ reply.body # "none" THEN @ \cup {i} ELSE @,
              !.bare = @ \/ (~reply.error /\ reply.body = "none")]
Answered(rec, reply, i) ==
  [rec EXCEPT !.entered = @ \ {i},
              !.clean = IF ~reply.error /\ reply.body # "none" THEN @ \cup {i} ELSE @,
              !.bare = @ \/ (~reply.error /\ reply.body = "none")]

\* The response handler of the request that downloader d performs.
HandleReply(d, reply, ids, more) ==
  /\ stage[d] = "http"
  /\ LET c == job[d].call
         i == job[d].item
         rec == Answered(call[c], reply, i)
         new == CASE rec.op = "connect" -> ConnectReply(rec, reply)
                  [] rec.op = "search" -> SearchReply(rec, reply, ids, more)
                  [] rec.op = "headers" -> HeadersReply(rec, reply, i)
                  [] rec.op = "download" -> DownloadReply(rec, reply, i)
         next == IF rec.op = "search" /\ new.entered # {}
                 THEN <<[call |-> c, item |-> new.items]>> ELSE <<>>
     IN /\ rec.op # "search" => ids = <<>> /\ ~more
        /\ more => i < MaxItems
        /\ call' = [call EXCEPT ![c] = new]
        /\ connectionInfo' = IF rec.op = "connect" /\ new.error = "nil"
                             THEN c ELSE connectionInfo
        /\ HttpReply(d, next)

\* The message of group.notify, sent when the last item has left the group.
Notified(c) ==
  /\ call[c].op \in {"headers", "download"}
  /\ call[c].entered = {} /\ call[c].returned = 0
  /\ call' = [call EXCEPT ![c].returned = 1]
  /\ UNCHANGED <<vars, connectionInfo>>

\* Steps of the pool that no call sees.
PoolStep ==
  /\ \/ TimerFires
     \/ \E d \in Downloader, ok \in BOOLEAN,
           left \in (TokenLife - MaxReplyDelay) .. TokenLife : RefreshReply(d, ok, left)
     \/ \E d \in Downloader : DownloaderFinished(d) \/ SessionGranted(d)
     \/ Tick
  /\ UNCHANGED <<call, connectionInfo>>

\* The lists of ids one page may hold.
Page == UNION {[1 .. n -> Message] : n \in 0 .. 2}

GmailNext ==
  \/ \E c \in Call, concurrency \in 1 .. MaxDownloaders, limit \in SpeedLimits,
        refresh \in CanRefresh, left \in GivenLife :
       beConnect(c, concurrency, limit, refresh, left)
  \/ \E c \in Call : beSearch(c)
  \/ \E c \in Call, op \in {"headers", "download"}, items \in 0 .. MaxItems :
       beBatch(c, op, items)
  \/ \E d \in Downloader, reply \in Reply, ids \in Page, more \in BOOLEAN :
       HandleReply(d, reply, ids, more)
  \/ \E c \in Call : Notified(c)
  \/ PoolStep

GmailSpec == GmailInit /\ [][GmailNext]_gmailVars

GmailFairness ==
  /\ WF_gmailVars(TimerFires /\ UNCHANGED <<call, connectionInfo>>)
  /\ WF_gmailVars(Tick /\ UNCHANGED <<call, connectionInfo>>)
  /\ \A c \in Call : WF_gmailVars(Notified(c))
  /\ \A d \in Downloader :
       /\ WF_gmailVars(/\ \E ok \in BOOLEAN, left \in (TokenLife - MaxReplyDelay) .. TokenLife :
                            RefreshReply(d, ok, left)
                       /\ UNCHANGED <<call, connectionInfo>>)
       /\ WF_gmailVars(\E reply \in Reply, ids \in Page, more \in BOOLEAN :
                         HandleReply(d, reply, ids, more))
       /\ WF_gmailVars((DownloaderFinished(d) \/ SessionGranted(d))
                       /\ UNCHANGED <<call, connectionInfo>>)

GmailFairSpec == GmailSpec /\ GmailFairness

----------------------------------------------------------------------------
(***************************************************************************)
(* Properties.                                                             *)
(***************************************************************************)
GmailTypeOK ==
  /\ TypeOK
  /\ connectionInfo \in Call \cup {"nil"}
  /\ call \in [Call -> [op : {"none", "connect", "search", "headers", "download"},
                        entered : SUBSET Item, error : Errors, got : SUBSET Item,
                        found : SUBSET Message, returned : Nat, items : 0 .. MaxItems,
                        clean : SUBSET Item, bare : BOOLEAN, listed : Nat]]

\* A call's DispatchGroup counts its requests that are in the pool, whatever
\* queue, downloader or reply they are with: no leave() is lost or doubled.
GroupCountsPool ==
  \A c \in Call, i \in Item :
    i \in call[c].entered <=> Pending([call |-> c, item |-> i])

\* returnCallback is called once at most, and only when no request is left.
ReturnsOnce ==
  \A c \in Call : call[c].returned <= 1 /\ (call[c].returned = 1 => call[c].entered = {})

\* With a nil error the caller of beHeaders or beDownload has every message it
\* asked for, each from a reply that was no error, as MailPacketTests expects.
NilErrorIsComplete ==
  \A c \in Call :
    /\ call[c].op \in {"headers", "download"}
    /\ call[c].returned = 1 /\ call[c].error = "nil"
    => call[c].got = 1 .. call[c].items /\ call[c].got \subseteq call[c].clean

\* With a nil error the ids a search returns are those of all its pages, none
\* of them twice.
SearchIsExact ==
  \A c \in Call :
    call[c].op = "search" /\ call[c].error = "nil" =>
      Cardinality(call[c].found) = call[c].listed

\* Once Gmail has downloaders, every call returns to its caller.
EveryCallReturns ==
  \A c \in Call : call[c].op # "none" /\ created > 0 ~> call[c].returned = 1

\* "empty response without error" (Gmail.swift:405, :477) is said of a response
\* that was empty and came without an error.
EmptyMeansEmpty ==
  \A c \in Call :
    call[c].returned = 1 /\ call[c].error = "empty response without error" => call[c].bare
=============================================================================
