--------------------------- MODULE RequestService ---------------------------
(***************************************************************************)
(* What the Gmail actor's download pool promises its callers: scheduled    *)
(* requests are started in the order they were scheduled, never more at a  *)
(* time than there are workers, and each is answered exactly once.  How a  *)
(* worker is found, the speed limits and the token are not visible here.   *)
(***************************************************************************)
EXTENDS Integers, Sequences, FiniteSets

CONSTANTS
  Request,      \* identities of the requests
  MaxWorkers,   \* bound on the number of workers
  MaxBatch      \* bound on the requests submitted together

VARIABLES
  waiting,      \* sequence of submitted requests, oldest first
  running,      \* requests that have a worker
  workers       \* number of workers engaged so far

serviceVars == <<waiting, running, workers>>

Submitted == running \cup {waiting[i] : i \in 1 .. Len(waiting)}

\* The sequences of requests that are submitted together.
Submission(free) == {rs \in UNION {[1 .. n -> Request] : n \in 0 .. MaxBatch} :
                       /\ \A i, j \in 1 .. Len(rs) : rs[i] = rs[j] => i = j
                       /\ \A i \in 1 .. Len(rs) : rs[i] \in free}

Init == waiting = <<>> /\ running = {} /\ workers = 0

\* Some workers take the oldest requests of `queue`, each of them one.
Start(queue, busy) ==
  \E k \in 0 .. Len(queue) :
    /\ Cardinality(busy) + k <= workers'
    /\ waiting' = SubSeq(queue, k + 1, Len(queue))
    /\ running' = busy \cup {queue[i] : i \in 1 .. k}

\* Workers are engaged, and requests submitted.
Submit(rs, engaged) ==
  /\ workers' = workers + engaged
  /\ workers' <= MaxWorkers
  /\ Start(waiting \o rs, running)

\* r is answered; its answer may submit further requests.
Answer(r, rs) ==
  /\ workers' = workers
  /\ Start(waiting \o rs, running \ {r})

Next ==
  \/ \E engaged \in 0 .. MaxWorkers, rs \in Submission(Request \ Submitted) :
       Submit(rs, engaged)
  \/ \E r \in running, rs \in Submission(Request \ Submitted) : Answer(r, rs)

Spec == Init /\ [][Next]_serviceVars
=============================================================================
