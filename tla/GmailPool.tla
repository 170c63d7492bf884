----------------------------- MODULE GmailPool -----------------------------
(***************************************************************************)
(* The download pool of the Gmail actor (Sources/MailPacket/Gmail.swift):  *)
(* the request queue, the free and the active downloaders, the speed limit *)
(* of each downloader, the 0.01 s timer, and the OAuth2 token refresh that *)
(* a request may have to wait for.                                         *)
(*                                                                         *)
(* Gmail is a Flynn actor: it handles one message at a time, so a message  *)
(* handler is one action.  The messages are the behaviours called by the   *)
(* user (Connect, Schedule), the timer (TimerFires), the replies of the    *)
(* HTTP sessions (RefreshReply, HttpReply) and the finishedCallback of a   *)
(* downloader (DownloaderFinished).  SessionGranted runs on the            *)
(* downloader's own thread.  Their order is arbitrary.                     *)
(*                                                                         *)
(* Time is counted in ticks and kept relative, so that it needs no bound:  *)
(* timeSpent[d] is the time since d last performed a request, tokenExpiry  *)
(* is tokenExpiry.timeIntervalSinceNow.  Each saturates where the code no  *)
(* longer tells two values apart.                                          *)
(***************************************************************************)
EXTENDS Integers, Sequences

CONSTANTS
  Request,          \* identities of the requests (closures) that callers schedule
  NoRequest,        \* a downloader that serves no request
  MaxDownloaders,   \* bound: downloaders created over all the calls of beConnect
  MaxBatch,         \* bound: requests that one message handler schedules
  SpeedLimits,      \* values of beConnect's speedLimit, in ticks
  RefreshWindow,    \* the 5 minutes of refreshToken, in ticks
  TokenLife,        \* expires_in of a refreshed token, in ticks
  MaxReplyDelay     \* bound: ticks a token reply spends on its way

ASSUME NoRequestAssumption == NoRequest \notin Request
ASSUME MaxDownloadersAssumption == MaxDownloaders \in Nat
ASSUME MaxBatchAssumption == MaxBatch \in Nat \ {0}
ASSUME SpeedLimitsAssumption == SpeedLimits \subseteq Nat
ASSUME TokenAssumption ==
  /\ RefreshWindow \in Nat \ {0}
  /\ TokenLife \in Nat
  /\ MaxReplyDelay \in Nat
  /\ MaxReplyDelay < RefreshWindow
  /\ RefreshWindow < TokenLife

VARIABLES
  requestQueue,     \* sequence of scheduled requests, oldest first
  freeDownloaders,  \* sequence of downloaders, the next to be used first
  activeDownloaders,\* the array is only appended to and filtered: a set
  created,          \* number of downloaders created so far; they are 1 .. created
  stage,            \* where each downloader is in serving its request
  job,              \* the request a downloader serves
  timeSpent,        \* time since lastPerformDate, saturating at speedLimit
  speedLimit,       \* GmailDownloader.speedLimit
  tokenRefresh,     \* tokenRefresh # nil
  tokenExpiry,      \* what the client believes of its token's remaining life
  tokenLeft         \* what the server knows of it

queueVars == <<requestQueue, freeDownloaders, activeDownloaders>>
downloaderVars == <<stage, job>>
speedVars == <<timeSpent, speedLimit>>
tokenVars == <<tokenRefresh, tokenExpiry, tokenLeft>>
vars == <<queueVars, created, downloaderVars, speedVars, tokenVars>>

Downloader == 1 .. MaxDownloaders

\* The stages of a downloader.
\*   none      not created
\*   idle      waits in freeDownloaders
\*   refresh   taken from the free list; its request waits for the token reply
\*   session   bePerform was sent; beNew has not yet called back with a session
\*   http      performBlock ran; the HTTP request is in flight
\*   finished  finishedCallback is a message in Gmail's mailbox
Stage == {"none", "idle", "refresh", "session", "http", "finished"}

----------------------------------------------------------------------------
(***************************************************************************)
(* Helpers.                                                                *)
(***************************************************************************)
unsafeIsSpeedLimited(d) == timeSpent[d] < speedLimit[d]

Distance(n) == IF n < 0 THEN -n ELSE n

\* refreshToken's two guards: with no TokenRefresh, or when the expiry is not
\* within the window on EITHER side of now, it calls back at once.
MustRefresh(refresh, expiry) == refresh /\ Distance(expiry) < RefreshWindow

\* No two positions of s hold the same element.
Distinct(s) == \A i, j \in 1 .. Len(s) : s[i] = s[j] => i = j

Elements(s) == {s[i] : i \in 1 .. Len(s)}

Serving(r) == {d \in Downloader : job[d] = r}

\* A request that was scheduled and has not been answered.
Pending(r) == r \in Elements(requestQueue) \/ Serving(r) # {}

\* The sequences of requests that one message handler may schedule.
Batch == {rs \in UNION {[1 .. n -> Request] : n \in 0 .. MaxBatch} :
            Distinct(rs) /\ \A i \in 1 .. Len(rs) : ~Pending(rs[i])}

\* The first k of `calls` calls of nextRequest pass its guards, and no more do:
\* only the head of the free list is looked at, limited or not.
GuardsPassNoLimit(k, calls, queue, free) ==      \* mutant: the limit is not asked
  k = calls \/ k = Len(queue) \/ k = Len(free)
GuardsPass(k, calls, queue, free) ==
  /\ \A i \in 1 .. k : ~unsafeIsSpeedLimited(free[i])
  /\ k < calls /\ k < Len(queue) /\ k < Len(free) => unsafeIsSpeedLimited(free[k + 1])

\* Calls of nextRequest made by one message handler, `calls` of them, on the
\* queue and the lists the handler has built so far.  A call that passes the
\* three guards pairs the first free downloader with the first request; the
\* first call that does not pass leaves the rest without effect, so the calls
\* serve the first k of each list.  `refresh` says whether refreshToken sends
\* its POST, in which case the pair is in no list until the reply.
NextRequests(calls, queue, free, active, st, jb, refresh) ==
  \E k \in 0 .. calls :
    /\ k <= Len(queue) /\ k <= Len(free)
    /\ GuardsPass(k, calls, queue, free)
    /\ requestQueue' = SubSeq(queue, k + 1, Len(queue))
    /\ freeDownloaders' = SubSeq(free, k + 1, Len(free))
    /\ LET position(d) == {i \in 1 .. k : free[i] = d} IN
       /\ stage' = [d \in Downloader |->
                         IF position(d) = {} THEN st[d]
                         ELSE IF refresh THEN "refresh" ELSE "session"]
          /\ job' = [d \in Downloader |->
                       IF position(d) = {} THEN jb[d]
                       ELSE queue[CHOOSE i \in position(d) : TRUE]]
          /\ activeDownloaders' =
               IF refresh THEN active
               ELSE active \cup {d \in Downloader : position(d) # {}}

----------------------------------------------------------------------------
(***************************************************************************)
(* Initial state: Gmail.init.                                              *)
(***************************************************************************)
Init ==
  /\ requestQueue = <<>>
  /\ freeDownloaders = <<>>
  /\ activeDownloaders = {}
  /\ created = 0
  /\ stage = [d \in Downloader |-> "none"]
  /\ job = [d \in Downloader |-> NoRequest]
  /\ timeSpent = [d \in Downloader |-> 0]
  /\ speedLimit = [d \in Downloader |-> 0]
  /\ tokenRefresh = FALSE
  /\ tokenExpiry = TokenLife
  /\ tokenLeft = 0

(***************************************************************************)
(* Messages handled by the Gmail actor.                                    *)
(***************************************************************************)

\* The loop of beConnect; its mutant runs once more (0 ... concurrency).
NewDownloadersClosedRange(concurrency) == [i \in 1 .. concurrency + 1 |-> created + i]
NewDownloaders(concurrency) == [i \in 1 .. concurrency |-> created + i]

\* beConnect: takes the caller's token, of unknown remaining life, notes that
\* it expires now, appends `concurrency` new downloaders, and schedules the
\* profile request r.  lastPerformDate is the distant past: a new downloader
\* is not speed limited.
Connect(concurrency, limit, refresh, left, r) ==
  /\ created + concurrency <= MaxDownloaders
  /\ ~Pending(r)
  /\ created' = created + concurrency
  /\ tokenRefresh' = refresh
  /\ tokenExpiry' = 0
  /\ tokenLeft' = left
  /\ LET new == created + 1 .. created + concurrency IN
     /\ speedLimit' = [d \in Downloader |-> IF d \in new THEN limit ELSE speedLimit[d]]
     /\ timeSpent' = [d \in Downloader |-> IF d \in new THEN limit ELSE timeSpent[d]]
     /\ NextRequests(1,
                     Append(requestQueue, r),
                     freeDownloaders \o NewDownloaders(concurrency),
                     activeDownloaders,
                     [d \in Downloader |-> IF d \in new THEN "idle" ELSE stage[d]],
                     job,
                     MustRefresh(refresh, 0))

\* beSearch, beHeaders or beDownload: scheduleRequest for each of rs.  The
\* mutant puts the new requests before the waiting ones.
ScheduleFirst(rs) ==
  /\ NextRequests(Len(rs), rs \o requestQueue, freeDownloaders,
                  activeDownloaders, stage, job,
                  MustRefresh(tokenRefresh, tokenExpiry))
  /\ UNCHANGED <<created, speedVars, tokenVars>>
Schedule(rs) ==
  /\ NextRequests(Len(rs), requestQueue \o rs, freeDownloaders,
                  activeDownloaders, stage, job,
                  MustRefresh(tokenRefresh, tokenExpiry))
  /\ UNCHANGED <<created, speedVars, tokenVars>>

\* The repeating timer of Gmail.init; in the mutant it has been released.
TimerReleased == FALSE /\ UNCHANGED vars
TimerFires ==
  /\ NextRequests(1, requestQueue, freeDownloaders, activeDownloaders, stage, job,
                  MustRefresh(tokenRefresh, tokenExpiry))
  /\ UNCHANGED <<created, speedVars, tokenVars>>

\* Mutants of RefreshReply: a failed refresh gives the downloader back and
\* forgets its request; a failed refresh queues the request again as well; a
\* failed refresh moves the expiry like a successful one.
RefreshFailureDrops(d, ok, left) ==
  /\ stage[d] = "refresh"
  /\ IF ok
     THEN /\ stage' = [stage EXCEPT ![d] = "session"]
          /\ activeDownloaders' = activeDownloaders \cup {d}
          /\ UNCHANGED <<freeDownloaders, job>>
     ELSE /\ stage' = [stage EXCEPT ![d] = "idle"]
          /\ freeDownloaders' = Append(freeDownloaders, d)
          /\ job' = [job EXCEPT ![d] = NoRequest]
          /\ UNCHANGED activeDownloaders
  /\ tokenExpiry' = IF ok THEN TokenLife ELSE tokenExpiry
  /\ tokenLeft' = IF ok THEN left ELSE tokenLeft
  /\ UNCHANGED <<requestQueue, created, speedVars, tokenRefresh>>
RefreshFailureQueuesAgain(d, ok, left) ==
  /\ stage[d] = "refresh"
  /\ stage' = [stage EXCEPT ![d] = "session"]
  /\ activeDownloaders' = activeDownloaders \cup {d}
  /\ requestQueue' = IF ok THEN requestQueue ELSE Append(requestQueue, job[d])
  /\ tokenExpiry' = IF ok THEN TokenLife ELSE tokenExpiry
  /\ tokenLeft' = IF ok THEN left ELSE tokenLeft
  /\ UNCHANGED <<freeDownloaders, created, job, speedVars, tokenRefresh>>
RefreshFailureMovesExpiry(d, ok, left) ==
  /\ stage[d] = "refresh"
  /\ stage' = [stage EXCEPT ![d] = "session"]
  /\ activeDownloaders' = activeDownloaders \cup {d}
  /\ tokenExpiry' = TokenLife
  /\ tokenLeft' = IF ok THEN left ELSE tokenLeft
  /\ UNCHANGED <<requestQueue, freeDownloaders, created, job, speedVars, tokenRefresh>>

\* The reply to the token POST made for downloader d.  `left` is the life the
\* new token still has when the reply is handled; the client counts its
\* expires_in from that moment on.  A failed refresh is ignored: either way
\* the request goes on to the downloader.
RefreshReply(d, ok, left) ==
  /\ stage[d] = "refresh"
  /\ stage' = [stage EXCEPT ![d] = "session"]
  /\ activeDownloaders' = activeDownloaders \cup {d}
  /\ tokenExpiry' = IF ok THEN TokenLife ELSE tokenExpiry
  /\ tokenLeft' = IF ok THEN left ELSE tokenLeft
  /\ UNCHANGED <<requestQueue, freeDownloaders, created, job, speedVars, tokenRefresh>>

\* The HTTP reply to the request of d: the request's own handler runs, which
\* may schedule further requests rs (the next page of a search), and its
\* deferred finishedCallback sends a message to Gmail.
HttpReply(d, rs) ==
  /\ stage[d] = "http"
  /\ NextRequests(Len(rs), requestQueue \o rs, freeDownloaders, activeDownloaders,
                  [stage EXCEPT ![d] = "finished"], [job EXCEPT ![d] = NoRequest],
                  MustRefresh(tokenRefresh, tokenExpiry))
  /\ UNCHANGED <<created, speedVars, tokenVars>>

\* finishedCallback: d goes from the active to the end of the free list.  The
\* mutant forgets to filter it out of the active list.
FinishedStaysActive(d) ==
  /\ stage[d] = "finished"
  /\ NextRequests(1, requestQueue, Append(freeDownloaders, d),
                  activeDownloaders, [stage EXCEPT ![d] = "idle"], job,
                  MustRefresh(tokenRefresh, tokenExpiry))
  /\ UNCHANGED <<created, speedVars, tokenVars>>
DownloaderFinished(d) ==
  /\ stage[d] = "finished"
  /\ NextRequests(1, requestQueue, Append(freeDownloaders, d),
                  activeDownloaders \ {d}, [stage EXCEPT ![d] = "idle"], job,
                  MustRefresh(tokenRefresh, tokenExpiry))
  /\ UNCHANGED <<created, speedVars, tokenVars>>

(***************************************************************************)
(* The downloader's own thread, and time.                                  *)
(***************************************************************************)

\* The callback of beNew in _bePerform: the date is taken, then performBlock
\* starts the HTTP request with the token Gmail holds at this moment.
SessionGranted(d) ==
  /\ stage[d] = "session"
  /\ stage' = [stage EXCEPT ![d] = "http"]
  /\ timeSpent' = [timeSpent EXCEPT ![d] = 0]
  /\ UNCHANGED <<queueVars, created, job, speedLimit, tokenVars>>

\* Before beConnect tokenExpiry is the distant future, which does not come; it
\* is read with a tokenRefresh only, which that sets.
Tick ==
  /\ timeSpent' = [d \in Downloader |->
                     IF unsafeIsSpeedLimited(d) THEN timeSpent[d] + 1 ELSE timeSpent[d]]
  /\ tokenExpiry' = IF ~tokenRefresh \/ tokenExpiry = -RefreshWindow
                    THEN tokenExpiry ELSE tokenExpiry - 1
  /\ tokenLeft' = IF tokenLeft = 0 THEN 0 ELSE tokenLeft - 1
  /\ UNCHANGED <<queueVars, created, downloaderVars, speedLimit, tokenRefresh>>

Next ==
  \/ \E concurrency \in 0 .. MaxDownloaders, limit \in SpeedLimits,
        refresh \in BOOLEAN, left \in 0 .. TokenLife, r \in Request :
       Connect(concurrency, limit, refresh, left, r)
  \/ \E rs \in Batch : Schedule(rs)
  \/ TimerFires
  \/ \E d \in Downloader, ok \in BOOLEAN,
        left \in (TokenLife - MaxReplyDelay) .. TokenLife : RefreshReply(d, ok, left)
  \/ \E d \in Downloader, rs \in Batch : HttpReply(d, rs)
  \/ \E d \in Downloader : DownloaderFinished(d)
  \/ \E d \in Downloader : SessionGranted(d)
  \/ Tick

Spec == Init /\ [][Next]_vars

\* The runtime schedules every actor and fires the timer; time passes; every
\* HTTP request and session request is answered sooner or later (the session
\* has a time-out of its own).
Fairness ==
  /\ WF_vars(TimerFires)
  /\ WF_vars(Tick)
  /\ \A d \in Downloader :
       /\ WF_vars(\E ok \in BOOLEAN, left \in (TokenLife - MaxReplyDelay) .. TokenLife :
                    RefreshReply(d, ok, left))
       /\ WF_vars(\E rs \in Batch : HttpReply(d, rs))
       /\ WF_vars(DownloaderFinished(d))
       /\ WF_vars(SessionGranted(d))

FairSpec == Spec /\ Fairness

----------------------------------------------------------------------------
(***************************************************************************)
(* Properties.                                                             *)
(***************************************************************************)

\* Every variable keeps its type.
TypeOK ==
  /\ requestQueue \in Seq(Request)
  /\ freeDownloaders \in Seq(Downloader)
  /\ activeDownloaders \subseteq Downloader
  /\ created \in 0 .. MaxDownloaders
  /\ stage \in [Downloader -> Stage]
  /\ job \in [Downloader -> Request \cup {NoRequest}]
  /\ timeSpent \in [Downloader -> Nat]
  /\ speedLimit \in [Downloader -> Nat]
  /\ tokenRefresh \in BOOLEAN
  /\ tokenExpiry \in -RefreshWindow .. TokenLife
  /\ tokenLeft \in 0 .. TokenLife

\* No downloader leaks or is handed out twice: each created one is in the
\* free list exactly once, or active, or held by the one callback of a token
\* request; in particular the date of a free downloader, which Gmail reads
\* from its own thread, is not being written by that downloader's thread.
DownloadersAccounted ==
  /\ Distinct(freeDownloaders)
  /\ \A d \in Downloader :
       /\ stage[d] = "none" <=> d > created
       /\ stage[d] = "idle" <=> d \in Elements(freeDownloaders)
       /\ stage[d] \in {"session", "http", "finished"} <=> d \in activeDownloaders

\* A scheduled request is in one place only: once in the queue, or with one
\* downloader that is on its way to perform it.
RequestsAccounted ==
  /\ Distinct(requestQueue)
  /\ \A d \in Downloader :
       /\ job[d] # NoRequest <=> stage[d] \in {"refresh", "session", "http"}
       /\ job[d] # NoRequest => job[d] \notin Elements(requestQueue)
       /\ \A e \in Downloader : job[d] = job[e] /\ job[d] # NoRequest => d = e

\* The downloader that starts an HTTP request has let its speed limit pass,
\* although the limit was checked by another thread, before the wait for the
\* token and for a session.
GrantRespectsLimit ==
  \A d \in Downloader :
    stage[d] = "session" /\ stage'[d] = "http" => ~unsafeIsSpeedLimited(d)
SpeedLimitKept == [][GrantRespectsLimit]_vars

\* A scheduled request is never dropped, whatever fails on its way: it stays
\* pending until the reply to its own HTTP request is handled.
KeepsRequests ==
  \A r \in Request :
    Pending(r) => \/ Pending(r)'
                  \/ \E d \in Serving(r) : stage[d] = "http" /\ stage'[d] = "finished"
NoRequestLost == [][KeepsRequests]_vars

\* A request that goes on without asking for a new token, although one can be
\* had, has a live token at hand, unless the token has been expired for the
\* whole window (then refreshToken takes it for one far from its expiry).
SkipsRefresh(d) == /\ stage[d] # stage'[d] /\ stage'[d] = "session"
                   /\ stage[d] # "refresh"
                   /\ tokenRefresh'
SkippedRefreshIsSafe ==
  [][\A d \in Downloader :
       SkipsRefresh(d) => tokenLeft' > 0 \/ tokenExpiry' = -RefreshWindow]_vars

\* Every request that is scheduled on a connected Gmail is answered.
EveryRequestAnswered ==
  \A r \in Request : Pending(r) /\ created > 0 ~> ~Pending(r)
=============================================================================
