-------------------------- MODULE GmailPoolProofs --------------------------
(***************************************************************************)
(* Proofs about GmailPool, for every number of downloaders and requests,   *)
(* every speed limit and every token life; the last part proves that       *)
(* GmailPool implements RequestService.                                    *)
(***************************************************************************)
EXTENDS GmailPoolService, SequenceTheorems, FiniteSetTheorems, TLAPS

----------------------------------------------------------------------------
(***************************************************************************)
(* Lemmas about sequences without repetition.                              *)
(***************************************************************************)

\* What is left of a sequence when its first k elements are taken away.
LEMMA SuffixFacts ==
  ASSUME NEW S, NEW s \in Seq(S), NEW k \in Nat, k <= Len(s)
  PROVE  /\ SubSeq(s, k + 1, Len(s)) \in Seq(S)
         /\ Len(SubSeq(s, k + 1, Len(s))) = Len(s) - k
         /\ \A i \in 1 .. Len(s) - k : SubSeq(s, k + 1, Len(s))[i] = s[i + k]
         /\ \A x : x \in Elements(SubSeq(s, k + 1, Len(s)))
                     <=> \E i \in 1 .. Len(s) : i > k /\ s[i] = x
         /\ Distinct(s) => Distinct(SubSeq(s, k + 1, Len(s)))
<1> DEFINE t == SubSeq(s, k + 1, Len(s))
<1>1. \A i \in k + 1 .. Len(s) : s[i] \in S
  OBVIOUS
<1>2. /\ t \in Seq(S)
      /\ Len(t) = Len(s) - k
      /\ \A i \in 1 .. Len(s) - k : t[i] = s[i + k]
  <2>1. Len(s) \in Nat
    OBVIOUS
  <2>2. /\ t \in Seq(S)
        /\ Len(t) = IF k + 1 <= Len(s) THEN Len(s) - (k + 1) + 1 ELSE 0
        /\ \A i \in 1 .. Len(s) - (k + 1) + 1 : t[i] = s[(k + 1) + i - 1]
    BY <1>1, <2>1, SubSeqProperties
  <2> QED
    BY <2>1, <2>2
<1> HIDE DEF t
<1>3. \A x : x \in Elements(t) <=> \E i \in 1 .. Len(s) : i > k /\ s[i] = x
  <2>1. ASSUME NEW i \in 1 .. Len(s), i > k
        PROVE  s[i] \in Elements(t)
    <3>1. i - k \in 1 .. Len(t) /\ t[i - k] = s[i]
      BY <1>2, <2>1
    <3> QED
      BY <3>1 DEF Elements
  <2>2. ASSUME NEW j \in 1 .. Len(t)
        PROVE  j + k \in 1 .. Len(s) /\ j + k > k /\ s[j + k] = t[j]
    BY <1>2
  <2> QED
    BY <2>1, <2>2 DEF Elements
<1>4. Distinct(s) => Distinct(t)
  BY <1>2 DEF Distinct
<1> QED
  BY <1>2, <1>3, <1>4 DEF t

\* Appending an element that a sequence without repetition does not have.
LEMMA AppendFacts ==
  ASSUME NEW S, NEW s \in Seq(S), NEW x \in S
  PROVE  /\ Append(s, x) \in Seq(S)
         /\ Elements(Append(s, x)) = Elements(s) \cup {x}
         /\ Distinct(s) /\ x \notin Elements(s) => Distinct(Append(s, x))
<1>1. /\ Append(s, x) \in Seq(S)
      /\ Len(Append(s, x)) = Len(s) + 1
      /\ Append(s, x)[Len(s) + 1] = x
      /\ \A i \in 1 .. Len(s) : Append(s, x)[i] = s[i]
  OBVIOUS
<1>2. Elements(Append(s, x)) = Elements(s) \cup {x}
  BY <1>1 DEF Elements
<1>3. ASSUME Distinct(s), x \notin Elements(s)
      PROVE  Distinct(Append(s, x))
  BY <1>1, <1>3 DEF Distinct, Elements
<1> QED
  BY <1>1, <1>2, <1>3

\* Concatenating two sequences without repetition that share no element.
LEMMA ConcatFacts ==
  ASSUME NEW S, NEW s \in Seq(S), NEW t \in Seq(S)
  PROVE  /\ s \o t \in Seq(S)
         /\ Len(s \o t) = Len(s) + Len(t)
         /\ Elements(s \o t) = Elements(s) \cup Elements(t)
         /\ Distinct(s) /\ Distinct(t) /\ Elements(s) \cap Elements(t) = {}
              => Distinct(s \o t)
<1> DEFINE u == s \o t
           m == Len(s)
           n == Len(t)
<1>1. /\ u \in Seq(S) /\ m \in Nat /\ n \in Nat
      /\ Len(u) = m + n
      /\ \A i \in 1 .. m : u[i] = s[i]
      /\ \A i \in m + 1 .. m + n : u[i] = t[i - m]
  OBVIOUS
<1> HIDE DEF u
<1>2. Elements(u) = Elements(s) \cup Elements(t)
  <2>1. ASSUME NEW j \in 1 .. n
        PROVE  t[j] \in Elements(u)
    <3>1. j + m \in m + 1 .. m + n /\ (j + m) - m = j
      BY <1>1
    <3>2. j + m \in 1 .. Len(u) /\ u[j + m] = t[j]
      BY <1>1, <3>1
    <3> QED
      BY <3>2 DEF Elements
  <2>2. ASSUME NEW i \in 1 .. Len(u)
        PROVE  u[i] \in Elements(s) \cup Elements(t)
    <3>1. CASE i <= m
      BY <1>1, <3>1 DEF Elements
    <3>2. CASE i > m
      <4>1. i - m \in 1 .. n /\ u[i] = t[i - m]
        BY <1>1, <3>2
      <4> QED
        BY <4>1 DEF Elements
    <3> QED
      BY <1>1, <3>1, <3>2
  <2>3. Elements(s) \subseteq Elements(u)
    BY <1>1 DEF Elements
  <2>4. Elements(t) \subseteq Elements(u)
    BY <2>1 DEF Elements
  <2>5. Elements(u) \subseteq Elements(s) \cup Elements(t)
    BY <2>2 DEF Elements
  <2> QED
    BY <2>3, <2>4, <2>5
<1>3. ASSUME Distinct(s), Distinct(t), Elements(s) \cap Elements(t) = {}
      PROVE  Distinct(u)
  <2> SUFFICES ASSUME NEW i \in 1 .. Len(u), NEW j \in 1 .. Len(u), u[i] = u[j]
               PROVE  i = j
    BY DEF Distinct
  <2>1. ASSUME NEW a \in 1 .. m, NEW b \in m + 1 .. m + n
        PROVE  u[a] # u[b]
    <3>1. u[a] \in Elements(s)
      BY <1>1 DEF Elements
    <3>2. b - m \in 1 .. n /\ u[b] = t[b - m]
      BY <1>1
    <3>3. u[b] \in Elements(t)
      BY <3>2 DEF Elements
    <3> QED
      BY <1>3, <3>1, <3>3
  <2>2. CASE i <= m /\ j <= m
    BY <1>1, <1>3, <2>2, SMTT(30) DEF Distinct
  <2>3. CASE i > m /\ j > m
    <3>1. /\ i - m \in 1 .. n /\ u[i] = t[i - m]
          /\ j - m \in 1 .. n /\ u[j] = t[j - m]
      BY <1>1, <2>3
    <3>2. i - m = j - m
      BY <1>3, <3>1 DEF Distinct
    <3> QED
      BY <1>1, <3>2
  <2>4. CASE i <= m /\ j > m
    BY <1>1, <2>1, <2>4
  <2>5. CASE i > m /\ j <= m
    BY <1>1, <2>1, <2>5
  <2> QED
    BY <1>1, <2>2, <2>3, <2>4, <2>5
<1> QED
  BY <1>1, <1>2, <1>3 DEF u

----------------------------------------------------------------------------
(***************************************************************************)
(* The invariant.                                                          *)
(***************************************************************************)

\* TypeOK, DownloadersAccounted and RequestsAccounted read the two lists, the
\* stages and the jobs together; a handler builds them up in several steps, so
\* they are stated of any lists, stages and jobs, and n downloaders.
Structure(queue, free, active, st, jb, n) ==
  /\ queue \in Seq(Request)
  /\ free \in Seq(Downloader)
  /\ active \subseteq Downloader
  /\ n \in 0 .. MaxDownloaders
  /\ st \in [Downloader -> Stage]
  /\ jb \in [Downloader -> Request \cup {NoRequest}]
  /\ Distinct(queue)
  /\ Distinct(free)
  /\ \A d \in Downloader :
       /\ st[d] = "none" <=> d > n
       /\ st[d] = "idle" <=> d \in Elements(free)
       /\ st[d] \in {"session", "http", "finished"} <=> d \in active
       /\ jb[d] # NoRequest <=> st[d] \in {"refresh", "session", "http"}
       /\ jb[d] # NoRequest => jb[d] \notin Elements(queue)
       /\ \A e \in Downloader : jb[d] = jb[e] /\ jb[d] # NoRequest => d = e

StructureInv ==
  Structure(requestQueue, freeDownloaders, activeDownloaders, stage, job, created)

\* The variables that Structure does not read.
OtherTypes ==
  /\ timeSpent \in [Downloader -> Nat]
  /\ speedLimit \in [Downloader -> Nat]
  /\ tokenRefresh \in BOOLEAN
  /\ tokenExpiry \in -RefreshWindow .. TokenLife
  /\ tokenLeft \in 0 .. TokenLife

\* The limit that was checked when a downloader left the free list still holds
\* when it is granted its session.
LimitPassed ==
  \A d \in Downloader :
    stage[d] \in {"refresh", "session"} => ~unsafeIsSpeedLimited(d)

\* The client overestimates the life of its token by the delay of the reply at
\* most; beConnect's `tokenExpiry = now` underestimates it.
TokenBelief == tokenRefresh => tokenLeft >= tokenExpiry - MaxReplyDelay

IInv == StructureInv /\ OtherTypes /\ LimitPassed /\ TokenBelief

\* A downloader goes on without a token request only when refreshToken's guards
\* say so.
AsksWhenItMust ==
  \A d \in Downloader : SkipsRefresh(d) => ~MustRefresh(tokenRefresh', tokenExpiry')

\* A step ends with calls of nextRequest that begin with this queue and these jobs,
\* and lists that agree with them.
EndsWithCalls(queue, jb) ==
  \E calls \in Nat, refresh \in BOOLEAN : \E free, active, st :
    /\ Structure(queue, free, active, st, jb, created')
    /\ NextRequests(calls, queue, free, active, st, jb, refresh)

\* A step lets the requests R into the pool, and none out.
Gains(R) == \A r \in Request : Pending(r)' <=> Pending(r) \/ r \in R

\* The inductive invariant is the conjunction of the three checked ones with
\* LimitPassed and TokenBelief.
LEMMA StructureIsAccounting ==
  StructureInv /\ OtherTypes <=> TypeOK /\ DownloadersAccounted /\ RequestsAccounted
BY DEF StructureInv, OtherTypes, Structure, TypeOK, DownloadersAccounted, RequestsAccounted

\* Calls of nextRequest keep the structure: what leaves the two lists is with a
\* downloader in a stage that names it.
LEMMA NextRequestsKeepsStructure ==
  ASSUME NEW calls \in Nat, NEW queue, NEW free, NEW active, NEW st, NEW jb,
         NEW n, NEW refresh \in BOOLEAN,
         Structure(queue, free, active, st, jb, n),
         NextRequests(calls, queue, free, active, st, jb, refresh)
  PROVE  Structure(requestQueue', freeDownloaders', activeDownloaders', stage', job', n)
<1> USE NoRequestAssumption
<1>1. PICK k \in 0 .. calls :
        /\ k <= Len(queue) /\ k <= Len(free)
        /\ requestQueue' = SubSeq(queue, k + 1, Len(queue))
        /\ freeDownloaders' = SubSeq(free, k + 1, Len(free))
        /\ LET position(d) == {i \in 1 .. k : free[i] = d} IN
           /\ stage' = [d \in Downloader |->
                          IF position(d) = {} THEN st[d]
                          ELSE IF refresh THEN "refresh" ELSE "session"]
           /\ job' = [d \in Downloader |->
                        IF position(d) = {} THEN jb[d]
                        ELSE queue[CHOOSE i \in position(d) : TRUE]]
           /\ activeDownloaders' =
                IF refresh THEN active
                ELSE active \cup {d \in Downloader : position(d) # {}}
  BY DEF NextRequests
<1> DEFINE position(d) == {i \in 1 .. k : free[i] = d}
           taken(d) == position(d) # {}
           at(d) == CHOOSE i \in position(d) : TRUE
<1>2. /\ queue \in Seq(Request) /\ free \in Seq(Downloader) /\ active \subseteq Downloader
      /\ n \in 0 .. MaxDownloaders
      /\ st \in [Downloader -> Stage] /\ jb \in [Downloader -> Request \cup {NoRequest}]
      /\ Distinct(queue) /\ Distinct(free)
      /\ Len(queue) \in Nat /\ Len(free) \in Nat /\ k \in Nat
  BY <1>1 DEF Structure
<1>3. \A d \in Downloader :
        /\ st[d] = "none" <=> d > n
        /\ st[d] = "idle" <=> d \in Elements(free)
        /\ st[d] \in {"session", "http", "finished"} <=> d \in active
        /\ jb[d] # NoRequest <=> st[d] \in {"refresh", "session", "http"}
        /\ jb[d] # NoRequest => jb[d] \notin Elements(queue)
        /\ \A e \in Downloader : jb[d] = jb[e] /\ jb[d] # NoRequest => d = e
  BY DEF Structure
<1>4. /\ requestQueue' \in Seq(Request)
      /\ Distinct(requestQueue')
      /\ \A x : x \in Elements(requestQueue') <=> \E i \in 1 .. Len(queue) : i > k /\ queue[i] = x
  BY <1>1, <1>2, SuffixFacts, SMTT(30)
<1>5. /\ freeDownloaders' \in Seq(Downloader)
      /\ Distinct(freeDownloaders')
      /\ \A x : x \in Elements(freeDownloaders') <=> \E i \in 1 .. Len(free) : i > k /\ free[i] = x
  BY <1>1, <1>2, SuffixFacts, SMTT(30)
<1>6. ASSUME NEW d \in Downloader, taken(d)
      PROVE  /\ at(d) \in 1 .. k /\ free[at(d)] = d
             /\ at(d) \in 1 .. Len(free) /\ at(d) \in 1 .. Len(queue)
             /\ queue[at(d)] \in Request /\ queue[at(d)] # NoRequest
             /\ queue[at(d)] \in Elements(queue)
  <2>1. at(d) \in position(d)
    BY <1>6
  <2>2. at(d) \in 1 .. k /\ free[at(d)] = d
    BY <2>1
  <2>3. at(d) \in 1 .. Len(free) /\ at(d) \in 1 .. Len(queue)
    BY <1>1, <1>2, <2>2
  <2>4. queue[at(d)] \in Request
    BY <1>2, <2>3
  <2> HIDE DEF at
  <2> QED
    BY <2>2, <2>3, <2>4 DEF Elements
<1>7. ASSUME NEW d \in Downloader, ~taken(d), NEW i \in 1 .. Len(free), free[i] = d
      PROVE  i > k
  BY <1>2, <1>7
<1>8. /\ stage' = [d \in Downloader |-> IF taken(d) THEN IF refresh THEN "refresh" ELSE "session"
                                        ELSE st[d]]
      /\ job' = [d \in Downloader |-> IF taken(d) THEN queue[at(d)] ELSE jb[d]]
      /\ activeDownloaders' = IF refresh THEN active
                              ELSE active \cup {d \in Downloader : taken(d)}
  BY <1>1
<1> HIDE DEF at, taken
<1>9. /\ activeDownloaders' \subseteq Downloader
      /\ stage' \in [Downloader -> Stage]
      /\ job' \in [Downloader -> Request \cup {NoRequest}]
  BY <1>2, <1>6, <1>8 DEF Stage
<1>10. ASSUME NEW d \in Downloader
       PROVE  taken(d) => /\ d \in Elements(free)
                          /\ d \notin Elements(freeDownloaders')
  <2> SUFFICES ASSUME taken(d)
               PROVE  d \in Elements(free) /\ d \notin Elements(freeDownloaders')
    OBVIOUS
  <2>1. at(d) \in 1 .. k /\ free[at(d)] = d /\ at(d) \in 1 .. Len(free)
    BY <1>6
  <2>2. ASSUME NEW i \in 1 .. Len(free), free[i] = d
        PROVE  i = at(d)
    BY <1>2, <2>1, <2>2 DEF Distinct
  <2>3. d \in Elements(free)
    BY <2>1 DEF Elements
  <2>4. ~ \E i \in 1 .. Len(free) : i > k /\ free[i] = d
    BY <1>2, <2>1, <2>2
  <2> QED
    BY <1>5, <2>3, <2>4
<1>11. ASSUME NEW d \in Downloader, ~taken(d)
       PROVE  d \in Elements(free) <=> d \in Elements(freeDownloaders')
  BY <1>5, <1>7, <1>11 DEF Elements
<1>12. ASSUME NEW d \in Downloader
       PROVE  /\ stage'[d] = "none" <=> d > n
              /\ stage'[d] = "idle" <=> d \in Elements(freeDownloaders')
              /\ stage'[d] \in {"session", "http", "finished"} <=> d \in activeDownloaders'
              /\ job'[d] # NoRequest <=> stage'[d] \in {"refresh", "session", "http"}
  <2>1. CASE taken(d)
    BY <1>3, <1>6, <1>8, <1>10, <2>1
  <2>2. CASE ~taken(d)
    BY <1>3, <1>8, <1>11, <2>2
  <2> QED
    BY <2>1, <2>2
<1>13. \A x \in Elements(requestQueue') : x \in Elements(queue)
  BY <1>4 DEF Elements
<1>14. ASSUME NEW d \in Downloader, job'[d] # NoRequest
       PROVE  job'[d] \notin Elements(requestQueue')
  <2>1. CASE taken(d)
    <3>1. job'[d] = queue[at(d)] /\ at(d) \in 1 .. k /\ at(d) \in 1 .. Len(queue)
      BY <1>6, <1>8, <2>1
    <3>2. ASSUME NEW i \in 1 .. Len(queue), i > k
          PROVE  queue[i] # queue[at(d)]
      BY <1>2, <3>1, <3>2 DEF Distinct
    <3> QED
      BY <1>4, <3>1, <3>2
  <2>2. CASE ~taken(d)
    BY <1>3, <1>8, <1>13, <1>14, <2>2
  <2> QED
    BY <2>1, <2>2
<1>15. ASSUME NEW d \in Downloader, NEW e \in Downloader, job'[d] = job'[e], job'[d] # NoRequest
       PROVE  d = e
  <2>1. CASE taken(d) /\ taken(e)
    <3>1. /\ queue[at(d)] = queue[at(e)] /\ free[at(d)] = d /\ free[at(e)] = e
          /\ at(d) \in 1 .. Len(queue) /\ at(e) \in 1 .. Len(queue)
      BY <1>6, <1>8, <1>15, <2>1
    <3>2. at(d) = at(e)
      BY <1>2, <3>1 DEF Distinct
    <3> QED
      BY <3>1, <3>2
  <2>2. CASE taken(d) /\ ~taken(e)
    BY <1>3, <1>6, <1>8, <1>15, <2>2
  <2>3. CASE ~taken(d) /\ taken(e)
    BY <1>3, <1>6, <1>8, <1>15, <2>3
  <2>4. CASE ~taken(d) /\ ~taken(e)
    BY <1>3, <1>8, <1>15, <2>4
  <2> QED
    BY <2>1, <2>2, <2>3, <2>4
<1> QED
  BY <1>2, <1>4, <1>5, <1>9, <1>12, <1>14, <1>15 DEF Structure

\* The same calls leave every downloader in its stage, or take one that is free
\* and not speed limited out of it.
LEMMA NextRequestsTakesUnlimited ==
  ASSUME NEW calls \in Nat, NEW queue, NEW free \in Seq(Downloader), NEW active,
         NEW st, NEW jb, NEW refresh \in BOOLEAN,
         NextRequests(calls, queue, free, active, st, jb, refresh)
  PROVE  \A d \in Downloader :
           \/ stage'[d] = st[d]
           \/ /\ d \in Elements(free) /\ ~unsafeIsSpeedLimited(d)
              /\ stage'[d] = "session" => ~refresh
<1>1. PICK k \in 0 .. calls :
        /\ k <= Len(free)
        /\ \A i \in 1 .. k : ~unsafeIsSpeedLimited(free[i])
        /\ stage' = [d \in Downloader |->
                       IF {i \in 1 .. k : free[i] = d} = {} THEN st[d]
                       ELSE IF refresh THEN "refresh" ELSE "session"]
  BY DEF NextRequests, GuardsPass
<1> SUFFICES ASSUME NEW d \in Downloader, NEW i \in 1 .. k, free[i] = d
             PROVE  d \in Elements(free) /\ ~unsafeIsSpeedLimited(d)
  BY <1>1
<1>2. i \in 1 .. Len(free)
  BY <1>1
<1>3. d \in Elements(free)
  BY <1>2 DEF Elements
<1> QED
  BY <1>1, <1>3

\* What is in the queue or with a downloader when the calls begin, and nothing
\* else, is in the queue or with a downloader when they end.
LEMMA NextRequestsKeepsRequests ==
  ASSUME NEW calls \in Nat, NEW queue, NEW free, NEW active, NEW st, NEW jb,
         NEW n, NEW refresh \in BOOLEAN,
         Structure(queue, free, active, st, jb, n),
         NextRequests(calls, queue, free, active, st, jb, refresh),
         NEW r \in Request
  PROVE  Pending(r)' <=> r \in Elements(queue) \/ \E d \in Downloader : jb[d] = r
<1> DEFINE position(k, d) == {i \in 1 .. k : free[i] = d}
           at(k, d) == CHOOSE i \in position(k, d) : TRUE
<1>1. PICK k \in 0 .. calls :
        /\ k <= Len(queue) /\ k <= Len(free)
        /\ requestQueue' = SubSeq(queue, k + 1, Len(queue))
        /\ job' = [d \in Downloader |->
                     IF position(k, d) = {} THEN jb[d] ELSE queue[at(k, d)]]
  BY DEF NextRequests
<1>2. /\ queue \in Seq(Request) /\ free \in Seq(Downloader) /\ Distinct(free)
      /\ Len(queue) \in Nat /\ Len(free) \in Nat /\ k \in Nat
  BY <1>1 DEF Structure
<1>3. \A x : x \in Elements(requestQueue') <=> \E i \in 1 .. Len(queue) : i > k /\ queue[i] = x
  <2> HIDE DEF position, at
  <2>1. k <= Len(queue) /\ requestQueue' = SubSeq(queue, k + 1, Len(queue))
    BY <1>1
  <2>2. \A x : x \in Elements(SubSeq(queue, k + 1, Len(queue)))
                 <=> \E i \in 1 .. Len(queue) : i > k /\ queue[i] = x
    BY <1>2, <2>1, SuffixFacts, ZenonT(30)
  <2> QED
    BY <2>1, <2>2
<1>4. ASSUME r \in Elements(queue)
      PROVE  Pending(r)'
  <2>1. PICK i \in 1 .. Len(queue) : queue[i] = r
    BY <1>4 DEF Elements
  <2>2. CASE i > k
    BY <1>3, <2>1, <2>2 DEF Pending
  <2>3. CASE i <= k
    <3>1. i \in 1 .. k /\ i \in 1 .. Len(free) /\ free[i] \in Downloader
      BY <1>1, <1>2, <2>1, <2>3
    <3>2. PICK d \in Downloader : d = free[i]
      BY <3>1
    <3>3. i \in position(k, d)
      BY <3>1, <3>2
    <3>4. at(k, d) \in position(k, d)
      BY <3>3
    <3>5. at(k, d) = i
      BY <1>1, <1>2, <3>1, <3>2, <3>4 DEF Distinct
    <3>6. job'[d] = r
      BY <1>1, <2>1, <3>3, <3>5
    <3> QED
      BY <3>6 DEF Pending, Serving
  <2> QED
    BY <1>2, <2>1, <2>2, <2>3
<1>5. ASSUME \E d \in Downloader : jb[d] = r
      PROVE  Pending(r)'
  <2>1. PICK d \in Downloader : jb[d] = r
    BY <1>5
  <2>2. d \notin Elements(free)
    BY <2>1, NoRequestAssumption DEF Structure
  <2>3. position(k, d) = {}
    BY <1>1, <1>2, <2>2 DEF Elements
  <2>4. job'[d] = r
    BY <1>1, <2>1, <2>3
  <2> QED
    BY <2>4 DEF Pending, Serving
<1>6. ASSUME Pending(r)'
      PROVE  r \in Elements(queue) \/ \E d \in Downloader : jb[d] = r
  <2>1. CASE r \in Elements(requestQueue')
    BY <1>3, <2>1 DEF Elements
  <2>2. CASE \E d \in Downloader : job'[d] = r
    <3>1. PICK d \in Downloader : job'[d] = r
      BY <2>2
    <3>2. CASE position(k, d) = {}
      BY <1>1, <3>1, <3>2
    <3>3. CASE position(k, d) # {}
      <4>1. at(k, d) \in position(k, d)
        BY <3>3
      <4>2. at(k, d) \in 1 .. Len(queue) /\ queue[at(k, d)] = r
        BY <1>1, <1>2, <3>1, <3>3, <4>1
      <4> QED
        BY <4>2 DEF Elements
    <3> QED
      BY <3>2, <3>3
  <2> QED
    BY <1>6, <2>1, <2>2 DEF Pending, Serving
<1> QED
  BY <1>4, <1>5, <1>6

\* Initially there are no downloaders and no requests.
LEMMA InitEstablishesIInv == Init => IInv
<1> SUFFICES ASSUME Init
             PROVE  IInv
  OBVIOUS
<1> USE NoRequestAssumption, MaxDownloadersAssumption, TokenAssumption
<1>1. StructureInv
  <2>1. /\ requestQueue = <<>> /\ freeDownloaders = <<>>
        /\ Elements(<<>>) = {} /\ Distinct(<<>>)
    BY DEF Init, Elements, Distinct
  <2> QED
    BY <2>1 DEF Init, StructureInv, Structure, Stage, Downloader
<1>2. OtherTypes
  <2>1. tokenExpiry \in -RefreshWindow .. TokenLife /\ tokenLeft \in 0 .. TokenLife
    BY DEF Init
  <2>2. timeSpent \in [Downloader -> Nat] /\ speedLimit \in [Downloader -> Nat]
    BY DEF Init
  <2> QED
    BY <2>1, <2>2 DEF Init, OtherTypes
<1>3. LimitPassed /\ TokenBelief
  BY DEF Init, LimitPassed, TokenBelief
<1> QED
  BY <1>1, <1>2, <1>3 DEF IInv

----------------------------------------------------------------------------
(***************************************************************************)
(* One lemma per action.  Each brings the handler's lists, stages and jobs *)
(* to those NextRequests starts from, and hands the rest to the lemmas     *)
(* above.                                                                  *)
(***************************************************************************)

\* A batch of fresh requests at the end of the queue, when the stages and jobs
\* are those of the present but for jobs that ended.
LEMMA BatchKeepsStructure ==
  ASSUME NEW rs \in Batch, NEW st, NEW jb,
         Structure(requestQueue, freeDownloaders, activeDownloaders, st, jb, created),
         \A d \in Downloader : jb[d] = NoRequest \/ jb[d] = job[d]
  PROVE  /\ Structure(requestQueue \o rs, freeDownloaders, activeDownloaders, st, jb, created)
         /\ requestQueue \o rs \in Seq(Request)
         /\ Elements(requestQueue \o rs) = Elements(requestQueue) \cup Elements(rs)
         /\ Len(rs) \in Nat
<1> USE NoRequestAssumption
<1>1. /\ rs \in Seq(Request) /\ Len(rs) \in Nat /\ Distinct(rs)
      /\ \A i \in 1 .. Len(rs) : ~Pending(rs[i]) /\ rs[i] \in Request
  BY DEF Batch
<1>2. requestQueue \in Seq(Request) /\ Distinct(requestQueue)
  BY DEF Structure
<1>3. Elements(requestQueue) \cap Elements(rs) = {}
  BY <1>1 DEF Pending, Elements
<1>4. /\ requestQueue \o rs \in Seq(Request)
      /\ Distinct(requestQueue \o rs)
      /\ Elements(requestQueue \o rs) = Elements(requestQueue) \cup Elements(rs)
  BY <1>1, <1>2, <1>3, ConcatFacts
<1>5. ASSUME NEW d \in Downloader, jb[d] # NoRequest
      PROVE  jb[d] \notin Elements(requestQueue \o rs)
  <2>1. jb[d] \notin Elements(requestQueue)
    BY <1>5 DEF Structure
  <2>2. jb[d] \notin Elements(rs)
    BY <1>1, <1>5 DEF Pending, Serving, Elements
  <2> QED
    BY <1>4, <2>1, <2>2
<1> DEFINE q == requestQueue \o rs
<1>6. /\ q \in Seq(Request) /\ Distinct(q)
      /\ \A d \in Downloader : jb[d] # NoRequest => jb[d] \notin Elements(q)
  BY <1>4, <1>5
<1> HIDE DEF q
<1>7. Structure(q, freeDownloaders, activeDownloaders, st, jb, created)
  BY <1>6 DEF Structure
<1> QED
  BY <1>1, <1>4, <1>7 DEF q

\* LimitPassed when a handler that changes no date ends with NextRequests.
LEMMA NextRequestsKeepsLimitPassed ==
  ASSUME LimitPassed, UNCHANGED speedVars,
         NEW st, \A d \in Downloader : st[d] \in {"refresh", "session"} => st[d] = stage[d],
         \A d \in Downloader : stage'[d] = st[d] \/ ~unsafeIsSpeedLimited(d)
  PROVE  LimitPassed'
BY DEF LimitPassed, unsafeIsSpeedLimited, speedVars

LEMMA ScheduleKeepsIInv ==
  ASSUME IInv, NEW rs \in Batch, Schedule(rs)
  PROVE  /\ IInv' /\ Gains(Elements(rs)) /\ AsksWhenItMust
         /\ EndsWithCalls(requestQueue \o rs, job)
<1> USE DEF IInv
<1>1. MustRefresh(tokenRefresh, tokenExpiry) \in BOOLEAN
  BY DEF MustRefresh, OtherTypes
<1>2. /\ Structure(requestQueue \o rs, freeDownloaders, activeDownloaders, stage, job, created)
      /\ requestQueue \o rs \in Seq(Request) /\ Len(rs) \in Nat
      /\ Elements(requestQueue \o rs) = Elements(requestQueue) \cup Elements(rs)
  BY BatchKeepsStructure DEF StructureInv
<1>3. freeDownloaders \in Seq(Downloader)
  BY DEF StructureInv, Structure
<1>4. StructureInv'
  BY <1>1, <1>2, NextRequestsKeepsStructure DEF Schedule, StructureInv
<1>5. \A d \in Downloader : \/ stage'[d] = stage[d]
                               \/ /\ ~unsafeIsSpeedLimited(d)
                                  /\ stage'[d] = "session" => ~MustRefresh(tokenRefresh, tokenExpiry)
  BY <1>1, <1>2, <1>3, NextRequestsTakesUnlimited DEF Schedule
<1>6. LimitPassed'
  BY <1>5, NextRequestsKeepsLimitPassed DEF Schedule
<1>7. OtherTypes' /\ TokenBelief'
  BY DEF Schedule, OtherTypes, TokenBelief, speedVars, tokenVars
<1>8. Gains(Elements(rs))
  <2> SUFFICES ASSUME NEW r \in Request
               PROVE  Pending(r)' <=> Pending(r) \/ r \in Elements(rs)
    BY DEF Gains
  <2>1. Pending(r) \/ r \in Elements(rs) <=>
          r \in Elements(requestQueue \o rs) \/ \E d \in Downloader : job[d] = r
    BY <1>2 DEF Pending, Serving
  <2> QED
    BY <1>1, <1>2, <2>1, NextRequestsKeepsRequests DEF Schedule
<1>9. AsksWhenItMust
  BY <1>5 DEF AsksWhenItMust, SkipsRefresh, Schedule, tokenVars
<1>10. EndsWithCalls(requestQueue \o rs, job)
  BY <1>1, <1>2 DEF EndsWithCalls, Schedule
<1> QED
  BY <1>4, <1>6, <1>7, <1>8, <1>9, <1>10

LEMMA TimerFiresKeepsIInv ==
  ASSUME IInv, TimerFires
  PROVE  IInv' /\ Gains({}) /\ AsksWhenItMust /\ EndsWithCalls(requestQueue, job)
<1> USE DEF IInv
<1>1. MustRefresh(tokenRefresh, tokenExpiry) \in BOOLEAN
  BY DEF MustRefresh, OtherTypes
<1>2. requestQueue \in Seq(Request) /\ freeDownloaders \in Seq(Downloader)
  BY DEF StructureInv, Structure
<1>3. StructureInv'
  BY <1>1, NextRequestsKeepsStructure DEF TimerFires, StructureInv
<1>4. \A d \in Downloader : \/ stage'[d] = stage[d]
                               \/ /\ ~unsafeIsSpeedLimited(d)
                                  /\ stage'[d] = "session" => ~MustRefresh(tokenRefresh, tokenExpiry)
  BY <1>1, <1>2, NextRequestsTakesUnlimited DEF TimerFires
<1>5. LimitPassed'
  BY <1>4, NextRequestsKeepsLimitPassed DEF TimerFires
<1>6. OtherTypes' /\ TokenBelief'
  BY DEF TimerFires, OtherTypes, TokenBelief, speedVars, tokenVars
<1>7. Gains({})
  <2> SUFFICES ASSUME NEW r \in Request
               PROVE  Pending(r)' <=> Pending(r) \/ r \in {}
    BY DEF Gains
  <2>1. Pending(r) \/ r \in {} <=>
          r \in Elements(requestQueue) \/ \E d \in Downloader : job[d] = r
    BY DEF Pending, Serving
  <2> QED
    BY <1>1, <2>1, NextRequestsKeepsRequests DEF TimerFires, StructureInv
<1>8. AsksWhenItMust
  BY <1>4 DEF AsksWhenItMust, SkipsRefresh, TimerFires, tokenVars
<1>9. EndsWithCalls(requestQueue, job)
  BY <1>1 DEF EndsWithCalls, TimerFires, StructureInv
<1> QED
  BY <1>3, <1>5, <1>6, <1>7, <1>8, <1>9

LEMMA HttpReplyKeepsIInv ==
  ASSUME IInv, NEW d \in Downloader, NEW rs \in Batch, HttpReply(d, rs)
  PROVE  /\ IInv' /\ KeepsRequests /\ AsksWhenItMust
         /\ EndsWithCalls(requestQueue \o rs, [job EXCEPT ![d] = NoRequest])
         /\ \A r \in Request :
              Pending(r)' <=> (Pending(r) /\ r # job[d]) \/ r \in Elements(rs)
<1> USE DEF IInv
<1> DEFINE st == [stage EXCEPT ![d] = "finished"]
           jb == [job EXCEPT ![d] = NoRequest]
<1>1. MustRefresh(tokenRefresh, tokenExpiry) \in BOOLEAN
  BY DEF MustRefresh, OtherTypes
<1>2. stage[d] = "http"
  BY DEF HttpReply
<1>3. /\ Structure(requestQueue, freeDownloaders, activeDownloaders, st, jb, created)
      /\ \A e \in Downloader : jb[e] = NoRequest \/ jb[e] = job[e]
  <2>1. /\ st \in [Downloader -> Stage]
        /\ jb \in [Downloader -> Request \cup {NoRequest}]
        /\ st[d] = "finished" /\ jb[d] = NoRequest
        /\ \A e \in Downloader : e # d => st[e] = stage[e] /\ jb[e] = job[e]
    BY DEF StructureInv, Structure, Stage
  <2> HIDE DEF st, jb
  <2>2. \A e \in Downloader :
          /\ st[e] = "none" <=> e > created
          /\ st[e] = "idle" <=> e \in Elements(freeDownloaders)
          /\ st[e] \in {"session", "http", "finished"} <=> e \in activeDownloaders
          /\ jb[e] # NoRequest <=> st[e] \in {"refresh", "session", "http"}
          /\ jb[e] # NoRequest => jb[e] \notin Elements(requestQueue)
    <3> TAKE e \in Downloader
    <3>1. CASE e = d
      BY <1>2, <2>1, <3>1 DEF StructureInv, Structure
    <3>2. CASE e # d
      BY <2>1, <3>2 DEF StructureInv, Structure
    <3> QED
      BY <3>1, <3>2
  <2>3. \A e, f \in Downloader : jb[e] = jb[f] /\ jb[e] # NoRequest => e = f
    BY <2>1 DEF StructureInv, Structure
  <2> QED
    BY <2>1, <2>2, <2>3 DEF StructureInv, Structure
<1>4. /\ Structure(requestQueue \o rs, freeDownloaders, activeDownloaders, st, jb, created)
      /\ requestQueue \o rs \in Seq(Request) /\ Len(rs) \in Nat
      /\ Elements(requestQueue \o rs) = Elements(requestQueue) \cup Elements(rs)
  <2> HIDE DEF st, jb
  <2> QED
    BY <1>3, BatchKeepsStructure
<1>5. freeDownloaders \in Seq(Downloader)
  BY DEF StructureInv, Structure
<1>6. /\ NextRequests(Len(rs), requestQueue \o rs, freeDownloaders, activeDownloaders,
                      st, jb, MustRefresh(tokenRefresh, tokenExpiry))
      /\ UNCHANGED <<created, speedVars, tokenVars>>
  BY DEF HttpReply
<1>7. \A e \in Downloader : st[e] \in {"refresh", "session"} => st[e] = stage[e]
  BY DEF StructureInv, Structure
<1>8. /\ st[d] = "finished" /\ jb[d] = NoRequest /\ d \notin Elements(freeDownloaders)
       /\ \A e \in Downloader : e # d => jb[e] = job[e]
  BY <1>2 DEF StructureInv, Structure
<1> HIDE DEF st, jb
<1>9. StructureInv'
  BY <1>1, <1>4, <1>6, NextRequestsKeepsStructure DEF StructureInv
<1>10. \A e \in Downloader : \/ stage'[e] = st[e]
                               \/ /\ ~unsafeIsSpeedLimited(e)
                                  /\ stage'[e] = "session" => ~MustRefresh(tokenRefresh, tokenExpiry)
  BY <1>1, <1>4, <1>5, <1>6, NextRequestsTakesUnlimited
<1>11. LimitPassed'
  BY <1>6, <1>7, <1>10, NextRequestsKeepsLimitPassed
<1>12. OtherTypes' /\ TokenBelief'
  BY <1>6 DEF OtherTypes, TokenBelief, speedVars, tokenVars
<1>13. ASSUME NEW r \in Request
       PROVE  Pending(r)' <=> (Pending(r) /\ r # job[d]) \/ r \in Elements(rs)
  <2>1. \A e \in Downloader : e # d => job[e] # job[d] \/ job[e] = NoRequest
    BY DEF StructureInv, Structure
  <2>2. job[d] # NoRequest /\ job[d] \notin Elements(requestQueue) /\ jb[d] = NoRequest
    BY <1>2, <1>8 DEF StructureInv, Structure
  <2>3. Pending(r) /\ r # job[d] <=>
          r \in Elements(requestQueue) \/ \E e \in Downloader : jb[e] = r
    BY <1>8, <2>1, <2>2, NoRequestAssumption DEF Pending, Serving
  <2>4. (Pending(r) /\ r # job[d]) \/ r \in Elements(rs) <=>
          r \in Elements(requestQueue \o rs) \/ \E e \in Downloader : jb[e] = r
    BY <1>4, <2>3
  <2> QED
    BY <1>1, <1>4, <1>6, <2>4, NextRequestsKeepsRequests
<1>14. KeepsRequests
  <2>1. stage'[d] = st[d] \/ d \in Elements(freeDownloaders)
    BY <1>1, <1>4, <1>5, <1>6, NextRequestsTakesUnlimited
  <2>2. stage[d] = "http" /\ stage'[d] = "finished"
    BY <1>2, <1>8, <2>1
  <2> QED
    BY <1>13, <2>2 DEF KeepsRequests, Serving
<1>15. AsksWhenItMust
  <2>1. \A e \in Downloader : st[e] = "session" => stage[e] = "session"
    BY <1>7
  <2> QED
    BY <1>6, <1>10, <2>1 DEF AsksWhenItMust, SkipsRefresh, tokenVars
<1>16. EndsWithCalls(requestQueue \o rs, jb)
  BY <1>1, <1>4, <1>6 DEF EndsWithCalls
<1> QED
  BY <1>9, <1>11, <1>12, <1>13, <1>14, <1>15, <1>16 DEF jb

LEMMA DownloaderFinishedKeepsIInv ==
  ASSUME IInv, NEW d \in Downloader, DownloaderFinished(d)
  PROVE  IInv' /\ Gains({}) /\ AsksWhenItMust /\ EndsWithCalls(requestQueue, job)
<1> USE DEF IInv
<1> DEFINE st == [stage EXCEPT ![d] = "idle"]
           free == Append(freeDownloaders, d)
           active == activeDownloaders \ {d}
<1>1. MustRefresh(tokenRefresh, tokenExpiry) \in BOOLEAN
  BY DEF MustRefresh, OtherTypes
<1>2. /\ stage[d] = "finished"
      /\ NextRequests(1, requestQueue, free, active, st, job,
                      MustRefresh(tokenRefresh, tokenExpiry))
      /\ UNCHANGED <<created, speedVars, tokenVars>>
  BY DEF DownloaderFinished
<1>3. /\ requestQueue \in Seq(Request) /\ freeDownloaders \in Seq(Downloader)
      /\ Distinct(freeDownloaders) /\ d \notin Elements(freeDownloaders)
  BY <1>2 DEF StructureInv, Structure
<1>4. /\ free \in Seq(Downloader)
      /\ Elements(free) = Elements(freeDownloaders) \cup {d}
      /\ Distinct(free)
  BY <1>3, AppendFacts
<1> HIDE DEF free
<1>5. Structure(requestQueue, free, active, st, job, created)
  BY <1>2, <1>4 DEF StructureInv, Structure, Stage
<1>6. \A e \in Downloader : st[e] \in {"refresh", "session"} => st[e] = stage[e]
  BY DEF StructureInv, Structure
<1> HIDE DEF st, active
<1>7. StructureInv'
  BY <1>1, <1>2, <1>5, NextRequestsKeepsStructure DEF StructureInv
<1>8. \A e \in Downloader : \/ stage'[e] = st[e]
                               \/ /\ ~unsafeIsSpeedLimited(e)
                                  /\ stage'[e] = "session" => ~MustRefresh(tokenRefresh, tokenExpiry)
  <2>1. NextRequests(1, requestQueue, free, active, st, job,
                     MustRefresh(tokenRefresh, tokenExpiry))
    BY <1>2
  <2>2. free \in Seq(Downloader)
    BY <1>4
  <2> QED
    BY <1>1, <2>1, <2>2, NextRequestsTakesUnlimited
<1>9. LimitPassed'
  BY <1>2, <1>6, <1>8, NextRequestsKeepsLimitPassed
<1>10. OtherTypes' /\ TokenBelief'
  BY <1>2 DEF OtherTypes, TokenBelief, speedVars, tokenVars
<1>11. Gains({})
  <2> SUFFICES ASSUME NEW r \in Request
               PROVE  Pending(r)' <=> Pending(r) \/ r \in {}
    BY DEF Gains
  <2>1. Pending(r) \/ r \in {} <=>
          r \in Elements(requestQueue) \/ \E e \in Downloader : job[e] = r
    BY DEF Pending, Serving
  <2> QED
    BY <1>1, <1>2, <1>5, <2>1, NextRequestsKeepsRequests
<1>12. AsksWhenItMust
  <2>1. \A e \in Downloader : st[e] = "session" => stage[e] = "session"
    BY <1>6
  <2> QED
    BY <1>2, <1>8, <2>1 DEF AsksWhenItMust, SkipsRefresh, tokenVars
<1>13. EndsWithCalls(requestQueue, job)
  BY <1>1, <1>2, <1>5 DEF EndsWithCalls
<1> QED
  BY <1>7, <1>9, <1>10, <1>11, <1>12, <1>13

LEMMA ConnectKeepsIInv ==
  ASSUME IInv, NEW concurrency \in Nat, NEW limit \in Nat, NEW refresh \in BOOLEAN,
         NEW left \in 0 .. TokenLife, NEW r \in Request,
         Connect(concurrency, limit, refresh, left, r)
  PROVE  /\ IInv' /\ Gains({r}) /\ AsksWhenItMust
         /\ EndsWithCalls(Append(requestQueue, r), job)
<1> USE NoRequestAssumption, MaxDownloadersAssumption, TokenAssumption DEF IInv
<1> DEFINE n == created + concurrency
           new == created + 1 .. n
           more == NewDownloaders(concurrency)
           free == freeDownloaders \o more
           queue == Append(requestQueue, r)
           st == [d \in Downloader |-> IF d \in new THEN "idle" ELSE stage[d]]
<1>1. MustRefresh(refresh, 0) \in BOOLEAN
  BY DEF MustRefresh
<1>2. /\ n <= MaxDownloaders /\ ~Pending(r) /\ created' = n
      /\ tokenRefresh' = refresh /\ tokenExpiry' = 0 /\ tokenLeft' = left
      /\ speedLimit' = [d \in Downloader |-> IF d \in new THEN limit ELSE speedLimit[d]]
      /\ timeSpent' = [d \in Downloader |-> IF d \in new THEN limit ELSE timeSpent[d]]
      /\ NextRequests(1, queue, free, activeDownloaders, st, job, MustRefresh(refresh, 0))
  BY DEF Connect
<1>3. /\ requestQueue \in Seq(Request) /\ freeDownloaders \in Seq(Downloader)
      /\ created \in 0 .. MaxDownloaders /\ n \in 0 .. MaxDownloaders
      /\ new \subseteq Downloader
  BY <1>2 DEF StructureInv, Structure, Downloader
<1>4. /\ queue \in Seq(Request)
      /\ Elements(queue) = Elements(requestQueue) \cup {r}
      /\ Distinct(queue)
  <2>1. Distinct(requestQueue) /\ r \notin Elements(requestQueue)
    BY <1>2 DEF StructureInv, Structure, Pending
  <2> QED
    BY <1>3, <2>1, AppendFacts
<1>5. /\ free \in Seq(Downloader)
      /\ Elements(free) = Elements(freeDownloaders) \cup new
      /\ Distinct(free)
  <2>1. /\ more \in Seq(Downloader) /\ Len(more) = concurrency
        /\ \A i \in 1 .. concurrency : more[i] = created + i
    BY <1>3 DEF NewDownloaders
  <2> HIDE DEF more
  <2>2. Distinct(more)
    BY <1>3, <2>1 DEF Distinct
  <2>3. Elements(more) = new
    <3>1. ASSUME NEW d \in new
          PROVE  d - created \in 1 .. concurrency /\ more[d - created] = d
      BY <1>3, <2>1
    <3>2. new \subseteq Elements(more)
      BY <2>1, <3>1 DEF Elements
    <3>3. Elements(more) \subseteq new
      BY <1>3, <2>1 DEF Elements
    <3> QED
      BY <3>2, <3>3
  <2>4. Distinct(freeDownloaders) /\ Elements(freeDownloaders) \cap new = {}
    <3>1. \A d \in new : stage[d] = "none"
      BY <1>3 DEF StructureInv, Structure
    <3> QED
      BY <1>3, <3>1 DEF StructureInv, Structure
  <2>5. /\ freeDownloaders \o more \in Seq(Downloader)
        /\ Elements(freeDownloaders \o more) = Elements(freeDownloaders) \cup Elements(more)
        /\ Distinct(freeDownloaders \o more)
    <3>1. freeDownloaders \in Seq(Downloader) /\ more \in Seq(Downloader)
      BY <1>3, <2>1
    <3>2. Elements(freeDownloaders) \cap Elements(more) = {}
      BY <2>3, <2>4
    <3> QED
      BY <3>1, <3>2, <2>2, <2>4, ConcatFacts
  <2> QED
    BY <2>3, <2>5
<1>6. /\ st \in [Downloader -> Stage]
      /\ \A d \in Downloader : d \in new => st[d] = "idle" /\ stage[d] = "none"
      /\ \A d \in Downloader : d \notin new => st[d] = stage[d]
  BY <1>3 DEF StructureInv, Structure, Stage
<1> HIDE DEF queue, free, st, more
<1>7. Structure(queue, free, activeDownloaders, st, job, n)
  <2>1. /\ activeDownloaders \subseteq Downloader
        /\ job \in [Downloader -> Request \cup {NoRequest}]
        /\ \A d, e \in Downloader : job[d] = job[e] /\ job[d] # NoRequest => d = e
    BY DEF StructureInv, Structure
  <2>2. \A d \in Downloader :
          /\ st[d] = "none" <=> d > n
          /\ st[d] = "idle" <=> d \in Elements(free)
          /\ st[d] \in {"session", "http", "finished"} <=> d \in activeDownloaders
          /\ job[d] # NoRequest <=> st[d] \in {"refresh", "session", "http"}
    <3> TAKE d \in Downloader
    <3>1. /\ stage[d] = "none" <=> d > created
          /\ stage[d] = "idle" <=> d \in Elements(freeDownloaders)
          /\ stage[d] \in {"session", "http", "finished"} <=> d \in activeDownloaders
          /\ job[d] # NoRequest <=> stage[d] \in {"refresh", "session", "http"}
      BY DEF StructureInv, Structure
    <3>2. d \in new <=> d > created /\ d <= n
      BY <1>3 DEF Downloader
    <3>3. d > n => d > created
      BY <1>3 DEF Downloader
    <3>4. d > n <=> ~(d <= n)
      BY <1>3 DEF Downloader
    <3>5. CASE d \in new
      BY <1>5, <1>6, <3>1, <3>2, <3>4, <3>5
    <3>6. CASE d \notin new
      BY <1>5, <1>6, <3>1, <3>2, <3>3, <3>4, <3>6
    <3> QED
      BY <3>5, <3>6
  <2>3. \A d \in Downloader : job[d] # NoRequest => job[d] \notin Elements(queue)
    BY <1>2, <1>4 DEF StructureInv, Structure, Pending, Serving
  <2> QED
    BY <1>3, <1>4, <1>5, <1>6, <2>1, <2>2, <2>3 DEF Structure
<1>8. StructureInv'
  BY <1>1, <1>2, <1>7, NextRequestsKeepsStructure DEF StructureInv
<1>9. \A d \in Downloader : \/ stage'[d] = st[d]
                               \/ /\ ~unsafeIsSpeedLimited(d)
                                  /\ stage'[d] = "session" => ~MustRefresh(refresh, 0)
  BY <1>1, <1>2, <1>4, <1>5, NextRequestsTakesUnlimited
<1>10. LimitPassed'
  <2> SUFFICES ASSUME NEW d \in Downloader, stage'[d] \in {"refresh", "session"}
               PROVE  ~(timeSpent'[d] < speedLimit'[d])
    BY DEF LimitPassed, unsafeIsSpeedLimited
  <2>1. CASE d \in new
    BY <1>2, <2>1
  <2>2. CASE d \notin new
    BY <1>2, <1>6, <1>9, <2>2 DEF LimitPassed, unsafeIsSpeedLimited
  <2> QED
    BY <2>1, <2>2
<1>11. OtherTypes'
  BY <1>2 DEF OtherTypes
<1>12. TokenBelief'
  BY <1>2 DEF TokenBelief
<1>13. Gains({r})
  <2> SUFFICES ASSUME NEW q \in Request
               PROVE  Pending(q)' <=> Pending(q) \/ q \in {r}
    BY DEF Gains
  <2>1. Pending(q) \/ q \in {r} <=>
          q \in Elements(queue) \/ \E d \in Downloader : job[d] = q
    BY <1>4 DEF Pending, Serving
  <2> QED
    BY <1>1, <1>2, <1>7, <2>1, NextRequestsKeepsRequests
<1>14. AsksWhenItMust
  <2>1. \A d \in Downloader : st[d] = "session" => stage[d] = "session"
    BY <1>6
  <2> QED
    BY <1>2, <1>9, <2>1 DEF AsksWhenItMust, SkipsRefresh
<1>15. EndsWithCalls(queue, job)
  BY <1>1, <1>2, <1>7 DEF EndsWithCalls
<1> QED
  BY <1>8, <1>10, <1>11, <1>12, <1>13, <1>14, <1>15 DEF queue

LEMMA RefreshReplyKeepsIInv ==
  ASSUME IInv, NEW d \in Downloader, NEW ok \in BOOLEAN,
         NEW left \in (TokenLife - MaxReplyDelay) .. TokenLife, RefreshReply(d, ok, left)
  PROVE  IInv' /\ Gains({}) /\ AsksWhenItMust
<1> USE TokenAssumption DEF IInv
<1>1. /\ stage[d] = "refresh"
      /\ stage' = [stage EXCEPT ![d] = "session"]
      /\ activeDownloaders' = activeDownloaders \cup {d}
      /\ UNCHANGED <<requestQueue, freeDownloaders, created, job, timeSpent, speedLimit>>
  BY DEF RefreshReply, speedVars
<1>2. StructureInv'
  <2>1. /\ stage' \in [Downloader -> Stage]
        /\ activeDownloaders' \subseteq Downloader
        /\ stage'[d] = "session"
        /\ \A e \in Downloader : e # d => stage'[e] = stage[e]
    BY <1>1 DEF StructureInv, Structure, Stage
  <2>2. \A e \in Downloader :
          /\ stage'[e] = "none" <=> e > created
          /\ stage'[e] = "idle" <=> e \in Elements(freeDownloaders)
          /\ stage'[e] \in {"session", "http", "finished"} <=> e \in activeDownloaders'
          /\ job[e] # NoRequest <=> stage'[e] \in {"refresh", "session", "http"}
    <3> TAKE e \in Downloader
    <3>1. CASE e = d
      BY <1>1, <2>1, <3>1 DEF StructureInv, Structure
    <3>2. CASE e # d
      BY <1>1, <2>1, <3>2 DEF StructureInv, Structure
    <3> QED
      BY <3>1, <3>2
  <2> QED
    BY <1>1, <2>1, <2>2 DEF StructureInv, Structure
<1>3. LimitPassed'
  BY <1>1 DEF LimitPassed, unsafeIsSpeedLimited, StructureInv, Structure
<1>4. OtherTypes' /\ TokenBelief'
  BY <1>1 DEF OtherTypes, TokenBelief, RefreshReply
<1>5. Gains({})
  BY <1>1 DEF Gains, Pending, Serving, AsksWhenItMust, SkipsRefresh
<1>6. AsksWhenItMust
  BY <1>1 DEF AsksWhenItMust, SkipsRefresh, StructureInv, Structure
<1> QED
  BY <1>2, <1>3, <1>4, <1>5, <1>6

LEMMA SessionGrantedKeepsIInv ==
  ASSUME IInv, NEW d \in Downloader, SessionGranted(d)
  PROVE  IInv' /\ Gains({}) /\ AsksWhenItMust
<1> USE DEF IInv
<1>1. /\ stage[d] = "session"
      /\ stage' = [stage EXCEPT ![d] = "http"]
      /\ timeSpent' = [timeSpent EXCEPT ![d] = 0]
      /\ UNCHANGED <<requestQueue, freeDownloaders, activeDownloaders, created, job, speedLimit>>
      /\ UNCHANGED <<tokenRefresh, tokenExpiry, tokenLeft>>
  BY DEF SessionGranted, queueVars, tokenVars
<1>2. /\ stage' \in [Downloader -> Stage]
      /\ stage'[d] = "http"
      /\ \A e \in Downloader : e # d => stage'[e] = stage[e]
  BY <1>1 DEF StructureInv, Structure, Stage
<1>3. StructureInv'
  <2>1. \A e \in Downloader :
          /\ stage'[e] = "none" <=> e > created
          /\ stage'[e] = "idle" <=> e \in Elements(freeDownloaders)
          /\ stage'[e] \in {"session", "http", "finished"} <=> e \in activeDownloaders
          /\ job[e] # NoRequest <=> stage'[e] \in {"refresh", "session", "http"}
    <3> TAKE e \in Downloader
    <3>1. CASE e = d
      BY <1>1, <1>2, <3>1 DEF StructureInv, Structure
    <3>2. CASE e # d
      BY <1>1, <1>2, <3>2 DEF StructureInv, Structure
    <3> QED
      BY <3>1, <3>2
  <2> QED
    BY <1>1, <1>2, <2>1 DEF StructureInv, Structure
<1>4. OtherTypes' /\ TokenBelief'
  BY <1>1 DEF OtherTypes, TokenBelief
<1>5. LimitPassed'
  <2> SUFFICES ASSUME NEW e \in Downloader, stage'[e] \in {"refresh", "session"}
               PROVE  ~(timeSpent'[e] < speedLimit'[e])
    BY DEF LimitPassed, unsafeIsSpeedLimited
  <2>1. e # d
    BY <1>2
  <2> QED
    BY <1>1, <1>2, <2>1 DEF LimitPassed, unsafeIsSpeedLimited, OtherTypes
<1>6. Gains({})
  BY <1>1 DEF Gains, Pending, Serving, AsksWhenItMust, SkipsRefresh
<1>7. AsksWhenItMust
  BY <1>1, <1>2 DEF AsksWhenItMust, SkipsRefresh
<1> QED
  BY <1>3, <1>4, <1>5, <1>6, <1>7

LEMMA TickKeepsIInv ==
  ASSUME IInv, Tick
  PROVE  IInv' /\ Gains({}) /\ AsksWhenItMust
<1> USE TokenAssumption DEF IInv
<1>1. StructureInv'
  BY DEF Tick, StructureInv, queueVars, downloaderVars
<1>2. OtherTypes'
  <2>1. timeSpent' \in [Downloader -> Nat] /\ speedLimit' \in [Downloader -> Nat]
    BY DEF Tick, OtherTypes
  <2>2. tokenExpiry' \in -RefreshWindow .. TokenLife /\ tokenLeft' \in 0 .. TokenLife
    BY DEF Tick, OtherTypes
  <2> QED
    BY <2>1, <2>2 DEF Tick, OtherTypes
<1>3. LimitPassed'
  BY DEF Tick, LimitPassed, unsafeIsSpeedLimited, downloaderVars, OtherTypes
<1>4. TokenBelief'
  BY DEF Tick, TokenBelief, OtherTypes
<1>5. Gains({})
  BY DEF Tick, Gains, Pending, Serving, queueVars, downloaderVars
<1>6. AsksWhenItMust
  BY DEF Tick, AsksWhenItMust, SkipsRefresh, downloaderVars
<1> QED
  BY <1>1, <1>2, <1>3, <1>4, <1>5, <1>6

----------------------------------------------------------------------------
(***************************************************************************)
(* The theorems.                                                           *)
(***************************************************************************)

\* A step that lets no request out drops none.
LEMMA GainsKeepsRequests ==
  ASSUME NEW R, Gains(R)
  PROVE  KeepsRequests
BY DEF Gains, KeepsRequests

\* Every step keeps the invariant, drops no request, and skips no due refresh.
LEMMA NextKeepsIInv ==
  ASSUME IInv, [Next]_vars
  PROVE  IInv' /\ KeepsRequests /\ AsksWhenItMust
<1>1. CASE \E concurrency \in 0 .. MaxDownloaders, limit \in SpeedLimits,
              refresh \in BOOLEAN, left \in 0 .. TokenLife, r \in Request :
             Connect(concurrency, limit, refresh, left, r)
  <2>1. PICK concurrency \in 0 .. MaxDownloaders, limit \in SpeedLimits,
              refresh \in BOOLEAN, left \in 0 .. TokenLife, r \in Request :
             Connect(concurrency, limit, refresh, left, r)
    BY <1>1
  <2>2. concurrency \in Nat /\ limit \in Nat
    BY SpeedLimitsAssumption, MaxDownloadersAssumption
  <2>3. IInv' /\ Gains({r}) /\ AsksWhenItMust
    BY <2>1, <2>2, ConnectKeepsIInv
  <2> QED
    BY <2>3, GainsKeepsRequests
<1>2. CASE \E rs \in Batch : Schedule(rs)
  BY <1>2, ScheduleKeepsIInv, GainsKeepsRequests
<1>3. CASE TimerFires
  BY <1>3, TimerFiresKeepsIInv, GainsKeepsRequests
<1>4. CASE \E d \in Downloader, ok \in BOOLEAN,
              left \in (TokenLife - MaxReplyDelay) .. TokenLife : RefreshReply(d, ok, left)
  BY <1>4, RefreshReplyKeepsIInv, GainsKeepsRequests
<1>5. CASE \E d \in Downloader, rs \in Batch : HttpReply(d, rs)
  BY <1>5, HttpReplyKeepsIInv
<1>6. CASE \E d \in Downloader : DownloaderFinished(d)
  BY <1>6, DownloaderFinishedKeepsIInv, GainsKeepsRequests
<1>7. CASE \E d \in Downloader : SessionGranted(d)
  BY <1>7, SessionGrantedKeepsIInv, GainsKeepsRequests
<1>8. CASE Tick
  BY <1>8, TickKeepsIInv, GainsKeepsRequests
<1>9. CASE UNCHANGED vars
  BY <1>9 DEF vars, queueVars, downloaderVars, speedVars, tokenVars, IInv, StructureInv,
              OtherTypes, LimitPassed, unsafeIsSpeedLimited, TokenBelief,
              KeepsRequests, Pending, Serving, AsksWhenItMust, SkipsRefresh
<1> QED
  BY <1>1, <1>2, <1>3, <1>4, <1>5, <1>6, <1>7, <1>8, <1>9 DEF Next

\* The invariant is inductive: it holds in every reachable state.
THEOREM IInvInvariant == Spec => []IInv
<1>1. Init => IInv
  BY InitEstablishesIInv
<1>2. IInv /\ [Next]_vars => IInv'
  BY NextKeepsIInv
<1> QED
  BY <1>1, <1>2, PTL DEF Spec

\* Types are kept.
THEOREM TypeCorrect == Spec => []TypeOK
<1>1. IInv => TypeOK
  BY StructureIsAccounting DEF IInv
<1> QED
  BY <1>1, IInvInvariant, PTL

\* No downloader leaks or is handed out twice, whatever number of them any
\* number of beConnect calls created.
THEOREM DownloadersAlwaysAccounted == Spec => []DownloadersAccounted
<1>1. IInv => DownloadersAccounted
  BY StructureIsAccounting DEF IInv
<1> QED
  BY <1>1, IInvInvariant, PTL

\* No request is in two places.
THEOREM RequestsAlwaysAccounted == Spec => []RequestsAccounted
<1>1. IInv => RequestsAccounted
  BY StructureIsAccounting DEF IInv
<1> QED
  BY <1>1, IInvInvariant, PTL

\* The speed limit is kept at the moment that counts, the start of the HTTP
\* request.
THEOREM SpeedLimitAlwaysKept == Spec => SpeedLimitKept
<1>1. IInv => GrantRespectsLimit
  BY DEF IInv, LimitPassed, GrantRespectsLimit
<1> QED
  BY <1>1, IInvInvariant, PTL DEF SpeedLimitKept

\* No request is dropped on its way through the queue, the token refresh, the
\* wait for a session and the HTTP exchange.
THEOREM NoRequestEverLost == Spec => NoRequestLost
<1>1. IInv /\ [Next]_vars => KeepsRequests
  BY NextKeepsIInv
<1> QED
  BY <1>1, IInvInvariant, PTL DEF Spec, NoRequestLost

\* An expiry outside the window is ahead of it, where the token lives, or far
\* behind.
LEMMA DistanceBoundsLife ==
  ASSUME NEW expiry \in -RefreshWindow .. TokenLife, NEW left \in 0 .. TokenLife,
         left >= expiry - MaxReplyDelay, ~(Distance(expiry) < RefreshWindow)
  PROVE  left > 0 \/ expiry = -RefreshWindow
BY TokenAssumption DEF Distance

\* A request that skips the token refresh has a live token, or the token has been
\* expired for longer than the window.
THEOREM SkippedRefreshAlwaysSafe == Spec => SkippedRefreshIsSafe
<1> DEFINE Safe == \A d \in Downloader :
                     SkipsRefresh(d) => tokenLeft' > 0 \/ tokenExpiry' = -RefreshWindow
<1>1. ASSUME IInv, [Next]_vars, NEW d \in Downloader, SkipsRefresh(d)
      PROVE  tokenLeft' > 0 \/ tokenExpiry' = -RefreshWindow
  <2>1. IInv' /\ ~MustRefresh(tokenRefresh', tokenExpiry') /\ tokenRefresh'
    BY <1>1, NextKeepsIInv DEF AsksWhenItMust, SkipsRefresh
  <2>2. tokenExpiry' \in -RefreshWindow .. TokenLife /\ tokenLeft' \in 0 .. TokenLife
    BY <2>1 DEF IInv, OtherTypes
  <2>3. tokenLeft' >= tokenExpiry' - MaxReplyDelay
    BY <2>1 DEF IInv, TokenBelief
  <2>4. ~(Distance(tokenExpiry') < RefreshWindow)
    BY <2>1 DEF MustRefresh
  <2> QED
    BY <2>2, <2>3, <2>4, DistanceBoundsLife
<1>2. IInv /\ [Next]_vars => Safe
  BY <1>1
<1> QED
  BY <1>2, IInvInvariant, PTL DEF Spec, SkippedRefreshIsSafe

----------------------------------------------------------------------------
(***************************************************************************)
(* Starting requests.                                                      *)
(***************************************************************************)
Busy(jb) == {jb[d] : d \in Downloader} \ {NoRequest}

\* Service!Start, in the pool's terms.
Starts(queue, busy) ==
  \E k \in 0 .. Len(queue) :
    /\ Cardinality(busy) + k <= created'
    /\ requestQueue' = SubSeq(queue, k + 1, Len(queue))
    /\ Busy(job') = busy \cup {queue[i] : i \in 1 .. k}

\* RequestService counts as FiniteSets does.
LEMMA ServiceCounts ==
  ASSUME NEW S
  PROVE  Service!Cardinality(S) = Cardinality(S)
BY DEF Service!Cardinality, Cardinality

\* The first k elements of a sequence without repetition are k in number.
LEMMA PrefixCardinality ==
  ASSUME NEW S, NEW s \in Seq(S), Distinct(s), NEW k \in Nat, k <= Len(s)
  PROVE  /\ IsFiniteSet({s[i] : i \in 1 .. k})
         /\ Cardinality({s[i] : i \in 1 .. k}) = k
<1> DEFINE T == {s[i] : i \in 1 .. k}
           f == [i \in 1 .. k |-> s[i]]
<1>1. f \in Bijection(1 .. k, T)
  BY DEF Bijection, Injection, Surjection, IsInjective, Distinct
<1>2. IsFiniteSet(1 .. k) /\ Cardinality(1 .. k) = k
  BY FS_Interval
<1> QED
  BY <1>1, <1>2, FS_Bijection DEF ExistsBijection

\* A pool has no more requests in service than downloaders.
LEMMA BusyIsBounded ==
  ASSUME NEW queue, NEW free, NEW active, NEW st, NEW jb, NEW n,
         Structure(queue, free, active, st, jb, n)
  PROVE  IsFiniteSet(Busy(jb)) /\ Cardinality(Busy(jb)) <= n
<1> USE MaxDownloadersAssumption
<1> DEFINE f == [r \in Busy(jb) |-> CHOOSE d \in Downloader : jb[d] = r]
<1>1. \A d \in Downloader : jb[d] # NoRequest => d \in 1 .. n
  <2>1. \A d \in Downloader : jb[d] # NoRequest => ~(d > n)
    BY DEF Structure
  <2>2. n \in 0 .. MaxDownloaders
    BY DEF Structure
  <2> QED
    BY <2>1, <2>2 DEF Downloader
<1>2. \A r \in Busy(jb) : f[r] \in Downloader /\ jb[f[r]] = r /\ r # NoRequest
  BY DEF Busy
<1>3. n \in Nat /\ IsFiniteSet(1 .. n) /\ Cardinality(1 .. n) = n
  BY FS_Interval DEF Structure
<1>4. f \in [Busy(jb) -> 1 .. n]
  BY <1>1, <1>2
<1>5. f \in Injection(Busy(jb), 1 .. n)
  BY <1>2, <1>4 DEF Injection, IsInjective
<1> QED
  BY <1>3, <1>5, FS_Injection

\* Calls of nextRequest start the oldest requests, each with a downloader of its own.
LEMMA NextRequestsStarts ==
  ASSUME NEW calls \in Nat, NEW queue, NEW free, NEW active, NEW st, NEW jb,
         NEW refresh \in BOOLEAN,
         Structure(queue, free, active, st, jb, created'),
         NextRequests(calls, queue, free, active, st, jb, refresh)
  PROVE  Starts(queue, Busy(jb))
<1> DEFINE position(k, d) == {i \in 1 .. k : free[i] = d}
           at(k, d) == CHOOSE i \in position(k, d) : TRUE
<1>1. PICK k \in 0 .. calls :
        /\ k <= Len(queue) /\ k <= Len(free)
        /\ requestQueue' = SubSeq(queue, k + 1, Len(queue))
        /\ job' = [d \in Downloader |->
                     IF position(k, d) = {} THEN jb[d] ELSE queue[at(k, d)]]
  BY DEF NextRequests
<1> DEFINE started == {queue[i] : i \in 1 .. k}
<1>2. /\ queue \in Seq(Request) /\ free \in Seq(Downloader)
      /\ Distinct(queue) /\ Distinct(free)
      /\ Len(queue) \in Nat /\ Len(free) \in Nat /\ k \in Nat /\ k \in 0 .. Len(queue)
      /\ created' \in Nat
  BY <1>1, MaxDownloadersAssumption DEF Structure
<1>3. Structure(requestQueue', freeDownloaders', activeDownloaders', stage', job', created')
  BY NextRequestsKeepsStructure
<1>4. started \subseteq Request /\ started \cap Busy(jb) = {} /\ NoRequest \notin started
  <2>1. started \subseteq Elements(queue) /\ started \subseteq Request
    BY <1>1, <1>2 DEF Elements
  <2>2. \A d \in Downloader : jb[d] # NoRequest => jb[d] \notin Elements(queue)
    BY DEF Structure
  <2> QED
    BY <2>1, <2>2, NoRequestAssumption DEF Busy
<1>5. ASSUME NEW d \in Downloader
      PROVE  /\ position(k, d) = {} => job'[d] = jb[d]
             /\ position(k, d) # {} => job'[d] \in started /\ jb[d] = NoRequest
  <2>1. CASE position(k, d) = {}
    BY <1>1, <2>1
  <2>2. CASE position(k, d) # {}
    <3>1. at(k, d) \in 1 .. k /\ free[at(k, d)] = d
      BY <2>2
    <3>2. d \in Elements(free)
      BY <1>1, <1>2, <3>1 DEF Elements
    <3>3. jb[d] = NoRequest
      BY <3>2 DEF Structure
    <3>4. job'[d] = queue[at(k, d)]
      BY <1>1, <2>2
    <3> QED
      BY <2>2, <3>1, <3>3, <3>4
  <2> QED
    BY <2>1, <2>2
<1>6. ASSUME NEW i \in 1 .. k
      PROVE  \E d \in Downloader : job'[d] = queue[i]
  <2>1. i \in 1 .. Len(free) /\ free[i] \in Downloader
    BY <1>1, <1>2
  <2>2. PICK d \in Downloader : d = free[i]
    BY <2>1
  <2>3. i \in position(k, d)
    BY <2>2
  <2>4. at(k, d) \in position(k, d)
    BY <2>3
  <2>5. at(k, d) = i
    BY <1>1, <1>2, <2>1, <2>2, <2>4 DEF Distinct
  <2>6. job'[d] = queue[i]
    BY <1>1, <2>3, <2>5
  <2> QED
    BY <2>6
<1> HIDE DEF position, at
<1>7. Busy(job') = Busy(jb) \cup started
  <2>1. Busy(job') \subseteq Busy(jb) \cup started
    BY <1>5 DEF Busy
  <2>2. Busy(jb) \subseteq Busy(job')
    BY <1>5 DEF Busy
  <2>3. started \subseteq Busy(job')
    BY <1>4, <1>6 DEF Busy
  <2> QED
    BY <2>1, <2>2, <2>3
<1>8. Cardinality(Busy(jb)) + k <= created'
  <2>1. IsFiniteSet(Busy(jb))
    BY BusyIsBounded
  <2>2. Cardinality(Busy(job')) <= created'
    BY <1>3, BusyIsBounded
  <2>3. IsFiniteSet(started) /\ Cardinality(started) = k
    BY <1>1, <1>2, PrefixCardinality, ZenonT(30)
  <2> HIDE DEF started
  <2>4. Cardinality(Busy(jb) \cap started) = 0
    BY <1>4, FS_EmptySet
  <2>5. Cardinality(Busy(jb)) \in Nat
    BY <2>1, FS_CardinalityType
  <2>6. Cardinality(Busy(jb) \cup started)
          = Cardinality(Busy(jb)) + Cardinality(started) - Cardinality(Busy(jb) \cap started)
    BY <2>1, <2>3, FS_Union
  <2> QED
    BY <1>2, <1>7, <2>2, <2>3, <2>4, <2>5, <2>6
<1> HIDE DEF started
<1>9. /\ Cardinality(Busy(jb)) + k <= created'
      /\ requestQueue' = SubSeq(queue, k + 1, Len(queue))
      /\ Busy(job') = Busy(jb) \cup {queue[i] : i \in 1 .. k}
  BY <1>1, <1>7, <1>8 DEF started
<1> QED
  BY <1>2, <1>9 DEF Starts

----------------------------------------------------------------------------
(***************************************************************************)
(* Each step of the pool is a step of the service, or leaves it unchanged. *)
(***************************************************************************)

\* What is pending in the pool is what has been submitted to the service.
LEMMA PendingIsSubmitted ==
  ASSUME NEW r \in Request
  PROVE  Pending(r) <=> r \in Service!Submitted
BY NoRequestAssumption DEF Pending, Serving, Elements, Service!Submitted

\* A batch is what may be submitted together.
LEMMA BatchIsSubmission ==
  ASSUME NEW rs \in Batch
  PROVE  rs \in Service!Submission(Request \ Service!Submitted)
<1>1. /\ rs \in UNION {[1 .. n -> Request] : n \in 0 .. MaxBatch}
      /\ Distinct(rs) /\ \A i \in 1 .. Len(rs) : ~Pending(rs[i]) /\ rs[i] \in Request
  BY DEF Batch
<1>2. \A i \in 1 .. Len(rs) : rs[i] \in Request \ Service!Submitted
  BY <1>1, PendingIsSubmitted
<1> QED
  BY <1>1, <1>2 DEF Service!Submission, Distinct

LEMMA EmptyIsSubmission == <<>> \in Service!Submission(Request \ Service!Submitted)
<1>1. <<>> \in [1 .. 0 -> Request] /\ Len(<<>>) = 0 /\ 0 \in 0 .. MaxBatch
  BY MaxBatchAssumption
<1> QED
  BY <1>1 DEF Service!Submission

\* Whatever calls of nextRequest a handler makes, they start requests.
LEMMA CallsStart ==
  ASSUME NEW queue, NEW jb, EndsWithCalls(queue, jb)
  PROVE  Starts(queue, Busy(jb))
BY NextRequestsStarts DEF EndsWithCalls

LEMMA ConnectSubmits ==
  ASSUME IInv, NEW concurrency \in 0 .. MaxDownloaders, NEW limit \in SpeedLimits,
         NEW refresh \in BOOLEAN, NEW left \in 0 .. TokenLife, NEW r \in Request,
         Connect(concurrency, limit, refresh, left, r)
  PROVE  Service!Next
<1>1. concurrency \in Nat /\ limit \in Nat
  BY SpeedLimitsAssumption, MaxDownloadersAssumption
<1>2. /\ requestQueue \in Seq(Request) /\ ~Pending(r)
      /\ created' = created + concurrency /\ created' <= MaxDownloaders
  BY <1>1 DEF Connect, IInv, StructureInv, Structure
<1>3. Starts(Append(requestQueue, r), Busy(job))
  BY <1>1, ConnectKeepsIInv, CallsStart
<1>4. Append(requestQueue, r) = requestQueue \o <<r>>
  BY <1>2
<1>5. <<r>> \in Service!Submission(Request \ Service!Submitted)
  <2>1. r \in Request \ Service!Submitted
    BY <1>2, PendingIsSubmitted
  <2>2. <<r>> \in [1 .. 1 -> Request] /\ Len(<<r>>) = 1 /\ <<r>>[1] = r /\ 1 \in 0 .. MaxBatch
    BY MaxBatchAssumption
  <2> QED
    BY <2>1, <2>2 DEF Service!Submission
<1>6. Starts(requestQueue \o <<r>>, Busy(job))
  BY <1>3, <1>4
<1>7. Service!Submit(<<r>>, concurrency)
  BY <1>2, <1>6, ServiceCounts
     DEF Service!Submit, Service!Start, Starts, Busy
<1> QED
  BY <1>5, <1>7 DEF Service!Next

LEMMA ScheduleSubmits ==
  ASSUME IInv, NEW rs \in Batch, Schedule(rs)
  PROVE  Service!Next
<1>1. Starts(requestQueue \o rs, Busy(job))
  BY ScheduleKeepsIInv, CallsStart
<1>2. created' = created + 0 /\ created' <= MaxDownloaders /\ 0 \in 0 .. MaxDownloaders
  BY MaxDownloadersAssumption DEF Schedule, IInv, StructureInv, Structure
<1>3. Service!Submit(rs, 0)
  BY <1>1, <1>2, ServiceCounts
     DEF Service!Submit, Service!Start, Starts, Busy
<1> QED
  BY <1>2, <1>3, BatchIsSubmission DEF Service!Next

\* The timer and a finished downloader submit nothing, but may start requests.
LEMMA NothingSubmitted ==
  ASSUME IInv, UNCHANGED created, EndsWithCalls(requestQueue, job)
  PROVE  Service!Next
<1>1. Starts(requestQueue, Busy(job))
  BY CallsStart
<1>2. requestQueue \o <<>> = requestQueue
  BY DEF IInv, StructureInv, Structure
<1>3. Starts(requestQueue \o <<>>, Busy(job))
  BY <1>1, <1>2
<1>4. created' = created + 0 /\ created' <= MaxDownloaders /\ 0 \in 0 .. MaxDownloaders
  BY MaxDownloadersAssumption DEF IInv, StructureInv, Structure
<1>5. Service!Submit(<<>>, 0)
  BY <1>3, <1>4, ServiceCounts
     DEF Service!Submit, Service!Start, Starts, Busy
<1> QED
  BY <1>4, <1>5, EmptyIsSubmission DEF Service!Next

LEMMA HttpReplyAnswers ==
  ASSUME IInv, NEW d \in Downloader, NEW rs \in Batch, HttpReply(d, rs)
  PROVE  Service!Next
<1> DEFINE jb == [job EXCEPT ![d] = NoRequest]
<1>1. Starts(requestQueue \o rs, Busy(jb))
  BY HttpReplyKeepsIInv, CallsStart
<1>2. /\ job \in [Downloader -> Request \cup {NoRequest}] /\ job[d] # NoRequest
      /\ \A e \in Downloader : job[d] = job[e] => d = e
  BY DEF HttpReply, IInv, StructureInv, Structure
<1>3. Busy(jb) = Busy(job) \ {job[d]} /\ job[d] \in Busy(job)
  BY <1>2 DEF Busy
<1> HIDE DEF jb
<1>4. created' = created
  BY DEF HttpReply
<1>5. Service!Answer(job[d], rs)
  BY <1>1, <1>3, <1>4, ServiceCounts
     DEF Service!Answer, Service!Start, Starts, Busy
<1> QED
  BY <1>3, <1>5, BatchIsSubmission DEF Service!Next, Busy

LEMMA ServiceStep ==
  ASSUME IInv, [Next]_vars
  PROVE  [Service!Next]_(Service!serviceVars)
<1>1. CASE \E concurrency \in 0 .. MaxDownloaders, limit \in SpeedLimits,
              refresh \in BOOLEAN, left \in 0 .. TokenLife, r \in Request :
             Connect(concurrency, limit, refresh, left, r)
  BY <1>1, ConnectSubmits
<1>2. CASE \E rs \in Batch : Schedule(rs)
  BY <1>2, ScheduleSubmits
<1>3. CASE TimerFires
  BY <1>3, TimerFiresKeepsIInv, NothingSubmitted DEF TimerFires
<1>4. CASE \E d \in Downloader, ok \in BOOLEAN,
              left \in (TokenLife - MaxReplyDelay) .. TokenLife : RefreshReply(d, ok, left)
  BY <1>4 DEF RefreshReply, Service!serviceVars
<1>5. CASE \E d \in Downloader, rs \in Batch : HttpReply(d, rs)
  BY <1>5, HttpReplyAnswers
<1>6. CASE \E d \in Downloader : DownloaderFinished(d)
  BY <1>6, DownloaderFinishedKeepsIInv, NothingSubmitted DEF DownloaderFinished
<1>7. CASE \E d \in Downloader : SessionGranted(d)
  BY <1>7 DEF SessionGranted, queueVars, Service!serviceVars
<1>8. CASE Tick
  BY <1>8 DEF Tick, queueVars, downloaderVars, Service!serviceVars
<1>9. CASE UNCHANGED vars
  BY <1>9 DEF vars, queueVars, downloaderVars, Service!serviceVars
<1> QED
  BY <1>1, <1>2, <1>3, <1>4, <1>5, <1>6, <1>7, <1>8, <1>9 DEF Next

----------------------------------------------------------------------------
\* The pool implements the service: under any interleaving of calls, timer, token
\* requests and replies, requests start in the order scheduled, never more at a time
\* than there are downloaders, and each is answered once.
THEOREM PoolImplementsService == Spec => ImplementsService
<1>1. Init => Service!Init
  BY DEF Init, Service!Init
<1>2. IInv /\ [Next]_vars => [Service!Next]_(Service!serviceVars)
  BY ServiceStep
<1> QED
  BY <1>1, <1>2, IInvInvariant, PTL DEF Spec, ImplementsService, Service!Spec
=============================================================================
