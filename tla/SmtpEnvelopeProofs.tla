------------------------- MODULE SmtpEnvelopeProofs -------------------------
(***************************************************************************)
(* Proofs about Smtp, for any sends, recipients, connects and time-outs,   *)
(* and whatever the server refuses: a send that returns nil has delivered  *)
(* its message to exactly its recipients, and no message goes to the       *)
(* recipients of another send, however late the replies come.  For callers *)
(* who look at what their last beConnect returned, and servers that refuse *)
(* MAIL inside a transaction.                                              *)
(***************************************************************************)
EXTENDS SmtpProofs

----------------------------------------------------------------------------
(***************************************************************************)
(* What is due to be read.                                                 *)
(***************************************************************************)

\* The server is about to read a text in data mode; until then it reads every command
\* as text, and answers nothing.
TextComes == server.mode = "data" /\ commands # <<>> /\ commands[1].verb = "TEXT"
Silent == server.mode = "data" /\ ~TextComes

\* A transaction is open, and stays so until the client sends a text.
Opened == server.open # "none" /\ ~TextComes

\* The commands that will be answered, and whether it will be answered at all.
Live == IF ~up \/ Silent THEN <<>> ELSE commands
Answering == up /\ ~Silent

\* What the client is going to read: "yes" for a 250, or for an RCPT that may get one, "go"
\* for a 354, or for a DATA.  A MAIL counts when its 250 is there: before, nothing is open.
Sign(code) == IF code = 250 THEN "yes" ELSE IF code = 354 THEN "go" ELSE "no"
Hope(verb) == IF verb = "RCPT" THEN "yes" ELSE IF verb = "DATA" THEN "go" ELSE "no"
Due ==
  [p \in 1 .. Len(replies) + Len(Live) |->
     IF p <= Len(replies) THEN Sign(replies[p].code) ELSE Hope(Live[p - Len(replies)].verb)]

OneYes(m) == \A p, q \in 1 .. Len(m) : m[p] = "yes" /\ m[q] = "yes" => p = q
NoYes(m) == \A p \in 1 .. Len(m) : m[p] # "yes"
NoGo(m) == \A p \in 1 .. Len(m) : m[p] # "go"
NoRun(m) ==
  \A p \in 1 .. Len(m) : p + 2 <= Len(m) => ~(m[p] = "yes" /\ m[p + 1] = "yes" /\ m[p + 2] # "no")

----------------------------------------------------------------------------
(***************************************************************************)
(* The inductive invariant.                                                *)
(***************************************************************************)

\* While a connection is made, the reply that ends the authentication is the last one.
AuthLast ==
  pc \in Connecting =>
    /\ \A i \in 1 .. Len(commands) :
         commands[i].verb \in Credentials =>
           /\ i = Len(commands) /\ pc \in Authenticating
           /\ \A j \in 1 .. Len(replies) : replies[j].code \notin {235, 334}
    /\ \A i \in 1 .. Len(replies) :
         replies[i].code \in {235, 334} =>
           /\ i = Len(replies) /\ commands = <<>> /\ pc \in Authenticating
           /\ replies[i].code = 235 => server.mode = "command"

\* Until a beConnect has returned nil.
Quiet ==
  /\ ~connected /\ pc \notin Sending
  /\ server.open = "none" /\ server.rcpts = {} /\ server.mode # "data"
  /\ \A i \in 1 .. Len(commands) : commands[i].verb \notin OfSend
  /\ AuthLast

\* Without a transaction at most one 250 is due: that of a text whose send has timed out.
NotOpened ==
  ~Opened =>
    /\ OneYes(Due) /\ NoGo(Due) /\ pc # "data"
    /\ TextComes => NoYes(Due)
    /\ pc = "rcpt" => /\ ~TextComes /\ caller.i = 1
                      /\ \A i \in 1 .. Len(replies) : replies[i].code # 250

\* With one, a send that has read somebody else's 250 cannot get through to its DATA.
NoneThrough == Opened => NoRun(Due)
RcptRanks ==
  Opened /\ Answering /\ pc = "rcpt" /\ Len(Due) >= 3 =>
    /\ caller.i <= 2
    /\ caller.i = 1 => Due[1] # "yes" \/ (Due[2] # "yes" /\ Due[Len(Due) - 1] # "yes")
    /\ caller.i = 2 => Due[1] # "yes"
MailRanks ==
  Opened /\ Answering /\ pc = "mail" /\ Due[Len(Due)] = "yes" =>
    \A p, q \in 1 .. Len(Due) - 1 : Due[p] = "yes" /\ Due[q] = "yes" => p = q

\* The last command is that of the running send.
OwnLast ==
  /\ Answering /\ pc \in {"mail", "rcpt"} => Len(Due) >= 1
  /\ Answering /\ commands # <<>> /\ pc = "rcpt" => commands[Len(commands)].verb = "RCPT"
  /\ Answering /\ commands # <<>> /\ pc = "mail" => commands[Len(commands)].verb = "MAIL"
  /\ pc = "rcpt" => caller.i \in 1 .. caller.n

\* A 354 is read by the send whose DATA it answers.
OwnGo ==
  /\ pc = "rcpt" /\ Len(Due) >= 2 => ~(Due[1] = "yes" /\ Due[2] = "go")
  /\ pc = "data" /\ Len(Due) >= 1 /\ Due[1] = "go" => Len(replies) + Len(commands) = 1

\* The recipients of a send up to the n-th.
Upto(s, n) == {<<s, i>> : i \in 1 .. n}

\* When nothing is late, the server has taken in what the running send has sent.
Alone ==
  up /\ Len(replies) + Len(commands) = 1 =>
    /\ pc = "mail" /\ server.mode = "command" =>
         /\ commands # <<>> => commands[1].verb = "MAIL" /\ commands[1].of = caller.send
         /\ replies # <<>> /\ replies[1].code = 250 =>
              server.open = caller.send /\ server.rcpts = {}
    /\ pc = "rcpt" /\ server.mode = "command" =>
         /\ server.open = caller.send
         /\ commands # <<>> => /\ commands[1] = Of("RCPT", caller.send, caller.i)
                               /\ server.rcpts = Upto(caller.send, caller.i - 1)
         /\ replies # <<>> /\ replies[1].code = 250 => server.rcpts = Upto(caller.send, caller.i)
    /\ pc = "data" =>
         /\ commands # <<>> /\ server.mode = "command" =>
              /\ commands[1].verb = "DATA"
              /\ server.open = caller.send /\ server.rcpts = Upto(caller.send, caller.n)
         /\ replies # <<>> /\ replies[1].code = 354 =>
              /\ server.mode = "data" /\ ~server.junk
              /\ server.open = caller.send /\ server.rcpts = Upto(caller.send, caller.n)

\* A text is the first thing to reach the server, in its own transaction or in none.
TextFirst ==
  \A i \in 1 .. Len(commands) :
    commands[i].verb = "TEXT" =>
      /\ i = 1 /\ replies = <<>> /\ pc \notin {"rcpt", "data"}
      /\ server.mode = "data" => /\ ~server.junk /\ server.open = commands[i].of
                                 /\ server.rcpts = Upto(commands[i].of, commands[i].n)
      /\ server.mode # "data" => server.open = "none"

HasDelivered(s) == \E d \in delivered : d.text = s /\ AsComposed(d)

\* The wait for the reply to the text, and that for the reply to its second copy.
FirstText ==
  pc = "message" =>
    /\ Len(replies) + Len(commands) <= 1
    /\ commands # <<>> =>
         commands[1] = Of("TEXT", caller.send, caller.n) /\ server.mode = "data"
    /\ replies # <<>> => /\ replies[1].code = 250 => HasDelivered(caller.send)
                         /\ up => server.mode = "command" /\ server.open = "none"
SecondText ==
  pc = "again" =>
    /\ HasDelivered(caller.send)
    /\ \A i \in 1 .. Len(replies) : replies[i].code # 250
    /\ \A i \in 1 .. Len(commands) : i = 1 /\ commands[i].verb = "TEXT" /\ server.mode = "command"

\* After a beConnect has returned nil, until the next one reaches the server.
InSession ==
  /\ server.mode \in {"command", "data"} /\ pc \notin Connecting
  /\ server.open = "none" => server.rcpts = {} /\ server.mode # "data"
  /\ \A i \in 1 .. Len(commands) : commands[i].verb \in OfSend \cup {"QUIT"}
Order == NotOpened /\ NoneThrough /\ RcptRanks /\ MailRanks /\ OwnLast /\ OwnGo
Contents == Alone /\ TextFirst /\ FirstText /\ SecondText
SendPhase == InSession /\ Order /\ Contents

AllComposed == \A d \in delivered : AsComposed(d)

EnvelopeInv == (Quiet \/ SendPhase) /\ AllComposed /\ NilMeansDelivered

----------------------------------------------------------------------------
(***************************************************************************)
(* What is due, before and after a step.                                   *)
(***************************************************************************)

\* The first d replies are gone.
Shifted(d) ==
  /\ replies' \in Seq(Reply) /\ Len(replies') = Len(replies) - d
  /\ \A i \in 1 .. Len(replies') : replies'[i] = replies[i + d]

\* read_response takes the first reply, or none.
LEMMA ReadsFirst ==
  ASSUME WireTypes, NEW reply, Read(reply), reply.code # 0
  PROVE  /\ replies # <<>> /\ reply = replies[1] /\ Len(replies) >= 1
         /\ Shifted(1)
<1>1. replies \in Seq(Reply)
  BY DEF WireTypes
<1>2. replies # <<>> /\ reply = Head(replies) /\ replies' = Tail(replies)
  BY DEF Read, NoReply, Code
<1> QED
  BY <1>1, <1>2 DEF Shifted

LEMMA ReadsSome ==
  ASSUME WireTypes, NEW reply, Read(reply)
  PROVE  \/ Shifted(1) /\ replies # <<>> /\ reply = replies[1]
         \/ Shifted(0) /\ replies' = replies /\ reply.code = 0
<1>1. replies \in Seq(Reply)
  BY DEF WireTypes
<1>2. CASE replies # <<>> /\ reply = Head(replies) /\ replies' = Tail(replies)
  BY <1>1, <1>2 DEF Shifted
<1>3. CASE replies = <<>> /\ reply = NoReply /\ replies' = replies
  BY <1>1, <1>3 DEF Shifted, NoReply, Code
<1> QED
  BY <1>2, <1>3 DEF Read

\* The marks, one by one.
DueMarks ==
  /\ Len(replies) \in Nat /\ Len(commands) \in Nat /\ Len(Due) \in Nat
  /\ Len(Due) = Len(replies) + (IF Answering THEN Len(commands) ELSE 0)
  /\ \A p \in 1 .. Len(replies) : Due[p] = Sign(replies[p].code)
  /\ Answering => \A p \in 1 .. Len(commands) : Due[Len(replies) + p] = Hope(commands[p].verb)

LEMMA DueIs == WireTypes => DueMarks
<1> SUFFICES ASSUME WireTypes PROVE DueMarks
  OBVIOUS
<1>1. /\ replies \in Seq(Reply) /\ commands \in Seq(Command) /\ up \in BOOLEAN
      /\ Len(replies) \in Nat /\ Len(commands) \in Nat
  BY DEF WireTypes
<1>2. Len(Live) = (IF Answering THEN Len(commands) ELSE 0)
  BY <1>1 DEF Live, Answering
<1>3. Answering => Live = commands
  BY DEF Live, Answering
<1>4. Len(Due) = Len(replies) + Len(Live)
  BY <1>1, <1>2 DEF Due
<1>5. \A p \in 1 .. Len(replies) : Due[p] = Sign(replies[p].code)
  BY <1>1, <1>2 DEF Due
<1>6. ASSUME Answering, NEW p \in 1 .. Len(commands)
      PROVE  Due[Len(replies) + p] = Hope(commands[p].verb)
  <2>1. Live = commands
    BY <1>3, <1>6
  <2>2. /\ Len(replies) + p \in 1 .. Len(replies) + Len(Live)
        /\ ~(Len(replies) + p <= Len(replies)) /\ (Len(replies) + p) - Len(replies) = p
    BY <1>1, <2>1
  <2> QED
    BY <2>1, <2>2 DEF Due
<1> QED
  BY <1>1, <1>2, <1>4, <1>5, <1>6 DEF DueMarks

LEMMA DueIsPrimed == WireTypes' => DueMarks'
BY DueIs, PTL

\* A reply was read, and the next command is sent, or lost.
LEMMA DueIssued ==
  ASSUME WireTypes, WireTypes', Shifted(1), replies # <<>>, NEW cmd \in Command,
         commands' = IF up THEN Append(commands, cmd) ELSE commands,
         UNCHANGED <<up, server>>, cmd.verb # "TEXT"
  PROVE  /\ Len(Due) \in Nat /\ Len(Due) >= 1 /\ Due[1] = Sign(replies[1].code)
         /\ (TextComes' <=> TextComes) /\ (Opened' <=> Opened) /\ (Answering' <=> Answering)
         /\ Len(Due') = IF Answering THEN Len(Due) ELSE Len(Due) - 1
         /\ \A p \in 1 .. Len(Due) - 1 : Due'[p] = Due[p + 1]
         /\ Answering => Due'[Len(Due)] = Hope(cmd.verb)
<1>1. DueMarks /\ DueMarks'
  BY DueIs, DueIsPrimed
<1>2. /\ replies \in Seq(Reply) /\ commands \in Seq(Command) /\ up \in BOOLEAN
      /\ Len(replies) >= 1
  BY DEF WireTypes
<1>3. /\ up => /\ Len(commands') = Len(commands) + 1 /\ commands'[Len(commands) + 1] = cmd
               /\ \A p \in 1 .. Len(commands) : commands'[p] = commands[p]
      /\ ~up => commands' = commands
  BY <1>2
<1>4. TextComes' <=> TextComes
  <2>1. CASE Len(commands) = 0
    BY <1>2, <1>3, <2>1 DEF TextComes
  <2>2. CASE Len(commands) # 0
    BY <1>2, <1>3, <2>2 DEF TextComes
  <2> QED
    BY <2>1, <2>2
<1>5. (Opened' <=> Opened) /\ (Answering' <=> Answering)
  BY <1>4 DEF Opened, Answering, Silent
<1>6. Len(Due) >= 1 /\ Due[1] = Sign(replies[1].code)
  BY <1>1, <1>2 DEF DueMarks
<1>7. Len(Due') = IF Answering THEN Len(Due) ELSE Len(Due) - 1
  BY <1>1, <1>2, <1>3, <1>5 DEF DueMarks, Shifted, Answering
<1>8. ASSUME NEW p \in 1 .. Len(Due) - 1
      PROVE  Due'[p] = Due[p + 1]
  <2>0. /\ Len(replies') = Len(replies) - 1 /\ Len(replies) \in Nat /\ Len(commands) \in Nat
        /\ Len(Due) = Len(replies) + (IF Answering THEN Len(commands) ELSE 0)
    BY <1>1 DEF DueMarks, Shifted
  <2>1. CASE p <= Len(replies')
    <3>1. p \in 1 .. Len(replies') /\ p + 1 \in 1 .. Len(replies)
      BY <2>0, <2>1
    <3>2. Due'[p] = Sign(replies'[p].code) /\ Due[p + 1] = Sign(replies[p + 1].code)
      BY <1>1, <3>1 DEF DueMarks
    <3> QED
      BY <3>1, <3>2 DEF Shifted
  <2>2. CASE p > Len(replies')
    <3>0. Answering /\ up
      BY <2>0, <2>2 DEF Answering
    <3>1. p - Len(replies') \in 1 .. Len(commands)
      BY <2>0, <2>2, <3>0
    <3> DEFINE q == p - Len(replies')
    <3>2. q \in 1 .. Len(commands) /\ p = Len(replies') + q
      BY <2>0, <3>1
    <3> HIDE DEF q
    <3>3. q \in 1 .. Len(commands') /\ commands'[q] = commands[q]
      BY <1>3, <2>0, <3>0, <3>2
    <3>4. Due'[Len(replies') + q] = Hope(commands'[q].verb)
      BY <1>1, <1>5, <3>0, <3>3 DEF DueMarks
    <3>5. Due[Len(replies) + q] = Hope(commands[q].verb)
      BY <1>1, <3>0, <3>2 DEF DueMarks
    <3>6. p + 1 = Len(replies) + q
      BY <2>0, <3>2
    <3> QED
      BY <3>2, <3>3, <3>4, <3>5, <3>6
  <2> QED
    BY <2>0, <2>1, <2>2
<1>9. ASSUME Answering PROVE Due'[Len(Due)] = Hope(cmd.verb)
  <2>1. Len(commands') = Len(commands) + 1 /\ commands'[Len(commands) + 1] = cmd
    BY <1>3, <1>9 DEF Answering
  <2>2. Due'[Len(replies') + (Len(commands) + 1)] = Hope(cmd.verb)
    BY <1>1, <1>2, <1>5, <1>9, <2>1 DEF DueMarks
  <2>3. Len(replies') + (Len(commands) + 1) = Len(Due)
    BY <1>1, <1>9 DEF DueMarks, Shifted
  <2> QED
    BY <2>2, <2>3
<1> QED
  BY <1>1, <1>4, <1>5, <1>6, <1>7, <1>8, <1>9 DEF DueMarks

\* A reply was read, or none, and no command is sent.
LEMMA DueRead ==
  ASSUME WireTypes, WireTypes', NEW d \in {0, 1}, Shifted(d), UNCHANGED <<commands, up, server>>
  PROVE  /\ (TextComes' <=> TextComes) /\ (Opened' <=> Opened) /\ (Answering' <=> Answering)
         /\ Len(Due) \in Nat /\ Len(Due') = Len(Due) - d
         /\ \A p \in 1 .. Len(Due') : Due'[p] = Due[p + d]
<1>1. DueMarks /\ DueMarks'
  BY DueIs, DueIsPrimed
<1>2. TextComes' <=> TextComes
  BY DEF TextComes
<1>3. (Opened' <=> Opened) /\ (Answering' <=> Answering)
  BY <1>2 DEF Opened, Answering, Silent
<1>4. /\ Len(replies') = Len(replies) - d /\ Len(replies) \in Nat /\ Len(commands) \in Nat
      /\ Len(replies') \in Nat
      /\ Len(Due) = Len(replies) + (IF Answering THEN Len(commands) ELSE 0)
      /\ Len(Due') = Len(replies') + (IF Answering THEN Len(commands) ELSE 0)
  BY <1>1, <1>3 DEF DueMarks, Shifted
<1>5. ASSUME NEW p \in 1 .. Len(Due')
      PROVE  Due'[p] = Due[p + d]
  <2>1. CASE p <= Len(replies')
    <3>1. p \in 1 .. Len(replies') /\ p + d \in 1 .. Len(replies)
      BY <1>4, <2>1
    <3>2. Due'[p] = Sign(replies'[p].code) /\ Due[p + d] = Sign(replies[p + d].code)
      BY <1>1, <3>1 DEF DueMarks
    <3> QED
      BY <3>1, <3>2 DEF Shifted
  <2>2. CASE p > Len(replies')
    <3>0. Answering
      BY <1>4, <2>2
    <3> DEFINE q == p - Len(replies')
    <3>1. q \in 1 .. Len(commands) /\ p = Len(replies') + q /\ p + d = Len(replies) + q
      BY <1>4, <2>2, <3>0
    <3> HIDE DEF q
    <3>2. Due'[Len(replies') + q] = Hope(commands[q].verb)
      BY <1>1, <1>3, <3>0, <3>1 DEF DueMarks
    <3>3. Due[Len(replies) + q] = Hope(commands[q].verb)
      BY <1>1, <3>0, <3>1 DEF DueMarks
    <3> QED
      BY <3>1, <3>2, <3>3
  <2> QED
    BY <1>4, <2>1, <2>2
<1>6. Len(Due) \in Nat /\ Len(Due') = Len(Due) - d
  <2> DEFINE r == Len(replies)
             c == IF Answering THEN Len(commands) ELSE 0
  <2>1. /\ r \in Nat /\ c \in Nat /\ Len(Due) = r + c
        /\ Len(Due') = (r - d) + c
    BY <1>4
  <2> HIDE DEF r, c
  <2> QED
    BY <2>1
<1> QED
  BY <1>2, <1>3, <1>5, <1>6

----------------------------------------------------------------------------
(***************************************************************************)
(* The waits of a send.                                                    *)
(***************************************************************************)

\* The marks that are left are as good as all were.
LEMMA LessIsDue ==
  ASSUME NEW m, NEW n, Len(m) \in Nat, NEW d \in {0, 1}, Len(n) = Len(m) - d, Len(n) \in Nat,
         \A p \in 1 .. Len(n) : n[p] = m[p + d]
  PROVE  /\ OneYes(m) => OneYes(n)
         /\ NoYes(m) => NoYes(n)
         /\ NoGo(m) => NoGo(n)
         /\ NoRun(m) => NoRun(n)
<1>1. \A p \in 1 .. Len(n) : p + d \in 1 .. Len(m) /\ n[p] = m[p + d]
  OBVIOUS
<1>2. ASSUME OneYes(m), NEW p \in 1 .. Len(n), NEW q \in 1 .. Len(n), n[p] = "yes", n[q] = "yes"
      PROVE  p = q
  <2>1. p + d = q + d
    BY <1>1, <1>2 DEF OneYes
  <2> QED
    BY <2>1
<1>3. (NoYes(m) => NoYes(n)) /\ (NoGo(m) => NoGo(n))
  BY <1>1 DEF NoYes, NoGo
<1>4. ASSUME NoRun(m), NEW p \in 1 .. Len(n), p + 2 <= Len(n)
      PROVE  ~(n[p] = "yes" /\ n[p + 1] = "yes" /\ n[p + 2] # "no")
  <2>1. p + d \in 1 .. Len(m) /\ (p + d) + 2 <= Len(m)
    BY <1>4
  <2>2. ~(m[p + d] = "yes" /\ m[(p + d) + 1] = "yes" /\ m[(p + d) + 2] # "no")
    BY <1>4, <2>1 DEF NoRun
  <2>3. /\ p + 1 \in 1 .. Len(n) /\ p + 2 \in 1 .. Len(n)
        /\ (p + 1) + d = (p + d) + 1 /\ (p + 2) + d = (p + d) + 2
    BY <1>4
  <2>4. n[p] = m[p + d] /\ n[p + 1] = m[(p + d) + 1] /\ n[p + 2] = m[(p + d) + 2]
    BY <2>3
  <2> QED
    BY <2>2, <2>4
<1> QED
  BY <1>2, <1>3, <1>4 DEF OneYes, NoRun

\* A send returns.
LEMMA SendEnds ==
  ASSUME IInv, IInv', SendPhase, NEW reply, Read(reply), NEW error, SendReturns(error),
         UNCHANGED <<up, server, delivered>>
  PROVE  SendPhase'
<1>0. WireTypes /\ WireTypes' /\ pc' = "idle" /\ UNCHANGED commands
  BY DEF IInv, Types, SendReturns
<1>1. PICK d \in {0, 1} : Shifted(d) /\ (d = 1 => replies # <<>>)
  BY <1>0, ReadsSome
<1>2. /\ (TextComes' <=> TextComes) /\ (Opened' <=> Opened) /\ (Answering' <=> Answering)
      /\ Len(Due) \in Nat /\ Len(Due') = Len(Due) - d
      /\ \A p \in 1 .. Len(Due') : Due'[p] = Due[p + d]
  BY <1>0, <1>1, DueRead
<1>3. Len(Due') \in Nat
  BY <1>0, DueIsPrimed DEF DueMarks
<1>4. /\ OneYes(Due) => OneYes(Due')
      /\ NoYes(Due) => NoYes(Due')
      /\ NoGo(Due) => NoGo(Due')
      /\ NoRun(Due) => NoRun(Due')
  BY <1>2, <1>3, LessIsDue
<1>5. InSession'
  BY <1>0 DEF SendPhase, InSession, Connecting, Authenticating
<1>6. NotOpened' /\ NoneThrough'
  BY <1>0, <1>2, <1>4 DEF SendPhase, Order, NotOpened, NoneThrough
<1>7. RcptRanks' /\ MailRanks' /\ OwnLast' /\ OwnGo'
  BY <1>0 DEF RcptRanks, MailRanks, OwnLast, OwnGo
<1>8. TextFirst'
  <2> SUFFICES ASSUME NEW i \in 1 .. Len(commands'), commands'[i].verb = "TEXT"
               PROVE  /\ i = 1 /\ replies' = <<>> /\ pc' \notin {"rcpt", "data"}
                      /\ server'.mode = "data" => /\ ~server'.junk /\ server'.open = commands'[i].of
                                 /\ server'.rcpts = Upto(commands'[i].of, commands'[i].n)
                      /\ server'.mode # "data" => server'.open = "none"
    BY DEF TextFirst
  <2>1. /\ i = 1 /\ replies = <<>>
        /\ server.mode = "data" => /\ ~server.junk /\ server.open = commands[i].of
                                   /\ server.rcpts = Upto(commands[i].of, commands[i].n)
        /\ server.mode # "data" => server.open = "none"
    BY <1>0 DEF SendPhase, Contents, TextFirst
  <2>2. replies' = <<>>
    BY <1>0, <1>1, <2>1 DEF WireTypes, Shifted
  <2> QED
    BY <1>0, <2>1, <2>2
<1>9. Alone' /\ FirstText' /\ SecondText'
  BY <1>0 DEF Alone, FirstText, SecondText
<1> QED
  BY <1>5, <1>6, <1>7, <1>8, <1>9 DEF SendPhase, Order, Contents

\* A text on its way is not overtaken: while one is, there is no reply to read.
LEMMA NoTextBehindReply ==
  ASSUME TextFirst, replies # <<>>, commands \in Seq(Command), NEW cmd, cmd.verb # "TEXT",
         commands' = IF up THEN Append(commands, cmd) ELSE commands
  PROVE  TextFirst'
<1>1. \A i \in 1 .. Len(commands) : commands[i].verb # "TEXT"
  BY DEF TextFirst
<1>2. \A i \in 1 .. Len(commands') : commands'[i].verb # "TEXT"
  BY <1>1
<1> QED
  BY <1>2 DEF TextFirst

\* What the wait of a send finds, when it reads a reply and sends a command.
DueNext(cmd) ==
  /\ replies # <<>>
  /\ commands' = IF up THEN Append(commands, cmd) ELSE commands
  /\ InSession' /\ TextFirst'
  /\ Len(Due) \in Nat /\ Len(Due) >= 1 /\ Due[1] = Sign(replies[1].code)
  /\ (TextComes' <=> TextComes) /\ (Opened' <=> Opened) /\ (Answering' <=> Answering)
  /\ Len(Due') \in Nat
  /\ Len(Due') = IF Answering THEN Len(Due) ELSE Len(Due) - 1
  /\ \A p \in 1 .. Len(Due) - 1 : Due'[p] = Due[p + 1]
  /\ Answering => Due'[Len(Due)] = Hope(cmd.verb)
  /\ Answering' => /\ commands' # <<>> /\ commands'[Len(commands')] = cmd
  /\ \A i \in 1 .. Len(replies') : i + 1 \in 1 .. Len(replies) /\ replies'[i] = replies[i + 1]
  /\ up /\ Len(replies') + Len(commands') = 1 =>
       /\ Len(replies) + Len(commands) = 1
       /\ replies' = <<>> /\ commands' = <<cmd>>

LEMMA Issued ==
  ASSUME IInv, IInv', SendPhase, NEW reply, Read(reply), reply.code # 0,
         NEW cmd \in Command, cmd.verb \in {"RCPT", "DATA"}, NEW next, Issue(cmd, next),
         next \notin Connecting, UNCHANGED <<up, server, delivered>>
  PROVE  DueNext(cmd) /\ reply = replies[1]
<1>0. WireTypes /\ WireTypes'
  BY DEF IInv, Types
<1>1. replies # <<>> /\ reply = replies[1] /\ Len(replies) >= 1 /\ Shifted(1)
  BY <1>0, ReadsFirst
<1>2. /\ commands' = (IF up THEN Append(commands, cmd) ELSE commands) /\ pc' = next
      /\ commands \in Seq(Command) /\ replies \in Seq(Reply) /\ replies' \in Seq(Reply)
  BY <1>0 DEF Issue, WireTypes
<1>3. /\ Len(Due) \in Nat /\ Len(Due) >= 1 /\ Due[1] = Sign(replies[1].code)
      /\ (TextComes' <=> TextComes) /\ (Opened' <=> Opened) /\ (Answering' <=> Answering)
      /\ Len(Due') = IF Answering THEN Len(Due) ELSE Len(Due) - 1
      /\ \A p \in 1 .. Len(Due) - 1 : Due'[p] = Due[p + 1]
      /\ Answering => Due'[Len(Due)] = Hope(cmd.verb)
  BY <1>0, <1>1, <1>2, DueIssued
<1>4. InSession'
  <2>1. \A i \in 1 .. Len(commands') : commands'[i].verb \in OfSend \cup {"QUIT"}
    BY <1>2 DEF SendPhase, InSession, OfSend
  <2> QED
    BY <1>2, <2>1 DEF SendPhase, InSession
<1>5. TextFirst'
  BY <1>1, <1>2, NoTextBehindReply DEF SendPhase, Contents
<1>6. Answering' => /\ commands' # <<>> /\ commands'[Len(commands')] = cmd
  BY <1>2 DEF Answering
<1>7. \A i \in 1 .. Len(replies') : i + 1 \in 1 .. Len(replies) /\ replies'[i] = replies[i + 1]
  BY <1>1, <1>2 DEF Shifted
<1>8. ASSUME up, Len(replies') + Len(commands') = 1
      PROVE  /\ Len(replies) + Len(commands) = 1
             /\ replies' = <<>> /\ commands' = <<cmd>>
  <2>1. Len(commands') = Len(commands) + 1 /\ Len(replies') = Len(replies) - 1
    BY <1>1, <1>2, <1>8 DEF Shifted
  <2>2. /\ Len(replies) + Len(commands) = 1
        /\ Len(replies') = 0 /\ Len(commands) = 0
    BY <1>1, <1>2, <1>8, <2>1
  <2> QED
    BY <1>2, <1>8, <2>2
<1> QED
  BY <1>0, <1>1, <1>2, <1>3, <1>4, <1>5, <1>6, <1>7, <1>8, DueIsPrimed DEF DueMarks, DueNext

\* One more mark at the end makes no run, if the last two were not both "yes".
LEMMA NoRunIssued ==
  ASSUME NEW m, NEW n, NEW more \in BOOLEAN, Len(m) \in Nat, Len(n) \in Nat, Len(m) >= 1,
         Len(n) = IF more THEN Len(m) ELSE Len(m) - 1,
         \A p \in 1 .. Len(m) - 1 : n[p] = m[p + 1],
         NoRun(m),
         more /\ Len(m) >= 3 => ~(m[Len(m) - 1] = "yes" /\ m[Len(m)] = "yes")
  PROVE  NoRun(n)
<1> DEFINE k == Len(m)
           l == Len(n)
<1>0. /\ k \in Nat /\ k >= 1 /\ l = (IF more THEN k ELSE k - 1)
      /\ \A p \in 1 .. k - 1 : n[p] = m[p + 1]
      /\ more /\ k >= 3 => ~(m[k - 1] = "yes" /\ m[k] = "yes")
      /\ \A p \in 1 .. k : p + 2 <= k => ~(m[p] = "yes" /\ m[p + 1] = "yes" /\ m[p + 2] # "no")
  BY DEF NoRun
<1> SUFFICES ASSUME NEW p \in 1 .. l, p + 2 <= l, n[p] = "yes", n[p + 1] = "yes", n[p + 2] # "no"
             PROVE  FALSE
  BY DEF NoRun
<1> HIDE DEF k, l
<1>1. /\ p \in 1 .. k - 1 /\ p + 1 \in 1 .. k - 1 /\ p + 1 \in 1 .. k
      /\ (p + 1) + 1 = p + 2 /\ (p + 2) + 1 = p + 3 /\ k >= 3
  BY <1>0
<1>2. m[p + 1] = "yes" /\ m[p + 2] = "yes"
  BY <1>0, <1>1
<1>3. CASE p + 2 <= k - 1
  <2>1. n[p + 2] = m[p + 3] /\ (p + 1) + 2 = p + 3 /\ p + 3 <= k
    BY <1>0, <1>1, <1>3
  <2> QED
    BY <1>0, <1>1, <1>2, <2>1
<1>4. CASE p + 2 > k - 1
  <2>1. more /\ p + 2 = k /\ p + 1 = k - 1
    BY <1>0, <1>1, <1>4
  <2> QED
    BY <1>0, <1>1, <1>2, <2>1
<1> QED
  BY <1>0, <1>1, <1>3, <1>4

LEMMA MailKeepsSendPhase ==
  ASSUME IInv, IInv', SendPhase, Mail
  PROVE  SendPhase'
<1>0. pc = "mail" /\ UNCHANGED <<up, server, delivered>> /\ caller \in Caller
  BY DEF Mail, Waits, serverVars, IInv, Types, ClientTypes
<1>1. PICK reply \in Reply :
        /\ Read(reply)
        /\ IF reply.code = 250
           THEN Issue(Of("RCPT", caller.send, 1), "rcpt") /\ caller' = [caller EXCEPT !.i = 1]
           ELSE SendReturns("error")
  BY DEF Mail
<1>2. CASE reply.code # 250
  BY <1>0, <1>1, <1>2, SendEnds
<1>3. CASE reply.code = 250
  <2> DEFINE cmd == Of("RCPT", caller.send, 1)
  <2>1. cmd \in Command /\ cmd.verb = "RCPT"
    BY <1>0 DEF Of, Command, Verb, OfSend, Caller
  <2>2. Issue(cmd, "rcpt") /\ caller' = [caller EXCEPT !.i = 1]
    BY <1>1, <1>3
  <2>3. /\ caller'.i = 1 /\ caller'.send = caller.send /\ caller'.n = caller.n /\ caller.n >= 1
        /\ caller.n \in Nat
    BY <1>0, <2>2, BoundsAssumption DEF Caller, IInv, Stage, Sending
  <2> HIDE DEF cmd
  <2>4. pc' = "rcpt"
    BY <2>2 DEF Issue
  <2>5. DueNext(cmd) /\ reply = replies[1]
    BY <1>0, <1>1, <1>3, <2>1, <2>2, Issued DEF Connecting, Authenticating
  <2>6. Due[1] = "yes" /\ (Answering => Due'[Len(Due)] = "yes")
    BY <1>3, <2>1, <2>5 DEF DueNext, Sign, Hope
  <2>7. NotOpened'
    <3> SUFFICES ASSUME ~Opened' PROVE NotOpened'
      BY DEF NotOpened
    <3>1. OneYes(Due) /\ NoGo(Due) /\ (TextComes => NoYes(Due))
      BY <2>5 DEF DueNext, SendPhase, Order, NotOpened
    <3>2. ~TextComes'
      BY <2>5, <2>6, <3>1 DEF DueNext, NoYes
    <3>3. \A p \in 1 .. Len(Due) - 1 : Due[p + 1] # "yes"
      BY <2>5, <2>6, <3>1 DEF DueNext, OneYes
    <3>4. \A p \in 1 .. Len(Due') : p \in 1 .. Len(Due) - 1 \/ (Answering /\ p = Len(Due))
      BY <2>5 DEF DueNext
    <3>5. OneYes(Due')
      BY <2>5, <3>3, <3>4 DEF DueNext, OneYes
    <3>6. NoGo(Due')
      BY <2>5, <2>6, <3>1, <3>4 DEF DueNext, NoGo
    <3>7. ASSUME NEW i \in 1 .. Len(replies'), replies'[i].code = 250
          PROVE  FALSE
      <4>1. i + 1 \in 1 .. Len(replies) /\ replies[i + 1].code = 250
        BY <2>5, <3>7 DEF DueNext
      <4>2. Due[i + 1] = "yes" /\ i + 1 \in 1 .. Len(Due)
        BY <4>1, DueIs DEF DueMarks, IInv, Types, Sign
      <4> QED
        BY <2>5, <3>3, <4>2 DEF DueNext
    <3> QED
      BY <2>3, <2>4, <3>2, <3>5, <3>6, <3>7 DEF NotOpened
  <2> DEFINE l == Len(Due)
  <2>8. /\ l \in Nat /\ l >= 1 /\ Len(Due') = (IF Answering THEN l ELSE l - 1)
        /\ \A p \in 1 .. l - 1 : Due'[p] = Due[p + 1]
        /\ Answering => Due'[l] = "yes"
    BY <2>5, <2>6 DEF DueNext
  <2>9. /\ Opened => \A p \in 1 .. l : p + 2 <= l => ~(Due[p] = "yes" /\ Due[p + 1] = "yes" /\ Due[p + 2] # "no")
        /\ Opened /\ Answering /\ Due[l] = "yes" =>
             \A p, q \in 1 .. l - 1 : Due[p] = "yes" /\ Due[q] = "yes" => p = q
    BY <1>0 DEF SendPhase, Order, NoneThrough, NoRun, MailRanks
  <2> HIDE DEF l
  <2>10. ASSUME Opened, Answering, l >= 3
         PROVE  Due[l] = "yes" => Due[l - 1] # "yes" /\ Due[2] # "yes"
    <3>1. 1 \in 1 .. l - 1 /\ 2 \in 1 .. l - 1 /\ l - 1 \in 1 .. l - 1 /\ l - 1 # 1
      BY <2>8, <2>10
    <3> QED
      BY <2>6, <2>9, <2>10, <3>1
  <2>11. NoneThrough'
    <3> SUFFICES ASSUME Opened' PROVE NoRun(Due')
      BY DEF NoneThrough
    <3>1. NoRun(Due)
      BY <2>5 DEF DueNext, SendPhase, Order, NoneThrough
    <3>2. Answering /\ Len(Due) >= 3 => ~(Due[Len(Due) - 1] = "yes" /\ Due[Len(Due)] = "yes")
      BY <2>5, <2>10 DEF DueNext, l
    <3>3. Answering \in BOOLEAN
      BY DEF Answering, Silent, TextComes
    <3> QED
      BY <2>5, <3>1, <3>2, <3>3, NoRunIssued DEF DueNext
  <2>12. RcptRanks'
    <3> SUFFICES ASSUME Opened', Answering', Len(Due') >= 3
                 PROVE  Due'[1] # "yes" \/ (Due'[2] # "yes" /\ Due'[Len(Due') - 1] # "yes")
      BY <2>3 DEF RcptRanks
    <3>0. Opened /\ Answering /\ l >= 3 /\ Len(Due') = l
      BY <2>5, <2>8 DEF DueNext
    <3>1. Due'[1] = Due[2] /\ Due'[2] = Due[3] /\ Due'[l - 1] = Due[l]
      <4>1. 1 \in 1 .. l - 1 /\ 2 \in 1 .. l - 1 /\ l - 1 \in 1 .. l - 1 /\ (l - 1) + 1 = l
        BY <2>8, <3>0
      <4> QED
        BY <2>8, <4>1
    <3>2. Due[2] = "yes" => Due[3] # "yes"
      BY <2>6, <2>8, <2>9, <3>0
    <3> QED
      BY <2>10, <3>0, <3>1, <3>2
  <2>13. MailRanks' /\ OwnLast'
    <3>1. Answering' => Len(Due') >= 1
      BY <2>5, <2>8 DEF DueNext
    <3> QED
      BY <2>1, <2>3, <2>4, <2>5, <3>1 DEF DueNext, MailRanks, OwnLast
  <2>14. OwnGo'
    <3> SUFFICES ASSUME Len(Due') >= 2, Due'[1] = "yes", Due'[2] = "go"
                 PROVE  FALSE
      BY <2>4 DEF OwnGo
    <3>1. l >= 2 /\ Due[2] = "yes"
      BY <2>8
    <3>2. CASE l = 2
      BY <2>8, <3>2
    <3>3. CASE l >= 3
      <4>1. Due[3] = "go" /\ 3 \in 1 .. l
        BY <2>8, <3>3
      <4>2. Opened
        BY <2>5, <4>1 DEF DueNext, l, SendPhase, Order, NotOpened, NoGo
      <4> QED
        BY <2>6, <2>8, <2>9, <3>1, <3>3, <4>1, <4>2
    <3> QED
      BY <2>8, <3>1, <3>2, <3>3
  <2>16. Alone'
    <3> SUFFICES ASSUME up', Len(replies') + Len(commands') = 1, server'.mode = "command"
                 PROVE  /\ server'.open = caller'.send
                        /\ commands' # <<>> => /\ commands'[1] = Of("RCPT", caller'.send, caller'.i)
                                               /\ server'.rcpts = Upto(caller'.send, caller'.i - 1)
                        /\ replies' # <<>> /\ replies'[1].code = 250 =>
                             server'.rcpts = Upto(caller'.send, caller'.i)
      BY <2>4 DEF Alone
    <3>1. /\ Len(replies) + Len(commands) = 1 /\ up /\ server.mode = "command"
          /\ replies' = <<>> /\ commands' = <<cmd>>
      BY <1>0, <2>5 DEF DueNext
    <3>2. server.open = caller.send /\ server.rcpts = {}
      BY <1>0, <1>3, <2>5, <3>1 DEF DueNext, SendPhase, Contents, Alone
    <3>3. Upto(caller.send, 0) = {}
      BY DEF Upto
    <3>4. commands'[1] = Of("RCPT", caller'.send, 1)
      BY <2>3, <3>1 DEF cmd
    <3> QED
      BY <1>0, <2>3, <3>1, <3>2, <3>3, <3>4
  <2>15. FirstText' /\ SecondText'
    BY <2>4 DEF FirstText, SecondText
  <2> QED
    BY <2>5, <2>7, <2>11, <2>12, <2>13, <2>14, <2>15, <2>16 DEF DueNext, SendPhase, Order, Contents
<1> QED
  BY <1>2, <1>3

\* What holds when the wait for the reply to an RCPT reads a 250 and sends what is next.
LEMMA AcceptedRcpt ==
  ASSUME IInv, IInv', SendPhase, pc = "rcpt", NEW reply, Read(reply), reply.code = 250,
         NEW cmd \in Command, cmd.verb \in {"RCPT", "DATA"}, NEW next \in Sending,
         Issue(cmd, next), UNCHANGED <<up, server, delivered>>
  PROVE  /\ DueNext(cmd) /\ Opened /\ Due[1] = "yes" /\ NoneThrough'
         /\ Answering /\ Len(Due) >= 3 => caller.i = 1 /\ Due[2] # "yes"
         /\ Len(Due) >= 2 => Due[2] # "go"
         /\ Len(Due) >= 3 => ~(Due[2] = "yes" /\ Due[3] = "go")
         /\ up /\ Len(replies') + Len(commands') = 1 /\ server.mode = "command" =>
              server.open = caller.send /\ server.rcpts = Upto(caller.send, caller.i)
<1> DEFINE l == Len(Due)
<1>0. next \notin Connecting
  BY DEF Connecting, Authenticating, Sending
<1>1. DueNext(cmd) /\ reply = replies[1] /\ Len(replies) \in Nat
  <2>1. DueNext(cmd) /\ reply = replies[1]
    BY <1>0, Issued
  <2> QED
    BY <2>1, DueIs DEF IInv, Types, DueMarks
<1>2. Due[1] = "yes" /\ l \in Nat /\ l >= 1
  BY <1>1 DEF DueNext, Sign
<1>3. Opened
  <2>1. 1 \in 1 .. Len(replies) /\ replies[1].code = 250
    BY <1>1 DEF IInv, Types, WireTypes, DueNext
  <2> QED
    BY <2>1 DEF SendPhase, Order, NotOpened
<1>4. caller.i \in 1 .. caller.n /\ caller.n \in Nat
  BY BoundsAssumption DEF SendPhase, Order, OwnLast, IInv, Types, ClientTypes, Caller
<1>5. /\ \A p \in 1 .. l : p + 2 <= l => ~(Due[p] = "yes" /\ Due[p + 1] = "yes" /\ Due[p + 2] # "no")
      /\ Answering /\ l >= 3 =>
           /\ caller.i <= 2
           /\ caller.i = 1 => Due[1] # "yes" \/ (Due[2] # "yes" /\ Due[l - 1] # "yes")
           /\ caller.i = 2 => Due[1] # "yes"
      /\ l >= 2 => Due[2] # "go"
  BY <1>2, <1>3 DEF SendPhase, Order, NoneThrough, NoRun, RcptRanks, OwnGo
<1> HIDE DEF l
<1>6. Answering /\ l >= 3 => caller.i = 1 /\ Due[2] # "yes" /\ Due[l - 1] # "yes"
  BY <1>2, <1>4, <1>5
<1>7. l >= 3 => ~(Due[2] = "yes" /\ Due[3] = "go")
  BY <1>2, <1>5
<1>8. NoneThrough'
  <2>1. NoRun(Due) /\ Answering \in BOOLEAN
    BY <1>3 DEF SendPhase, Order, NoneThrough, Answering, Silent, TextComes
  <2>2. Answering /\ Len(Due) >= 3 => ~(Due[Len(Due) - 1] = "yes" /\ Due[Len(Due)] = "yes")
    BY <1>6 DEF l
  <2>3. NoRun(Due')
    BY <1>1, <2>1, <2>2, NoRunIssued DEF DueNext
  <2> QED
    BY <2>3 DEF NoneThrough
<1>9. ASSUME up, Len(replies') + Len(commands') = 1, server.mode = "command"
      PROVE  server.open = caller.send /\ server.rcpts = Upto(caller.send, caller.i)
  BY <1>1, <1>9 DEF DueNext, SendPhase, Contents, Alone
<1> QED
  BY <1>1, <1>2, <1>3, <1>5, <1>6, <1>7, <1>8, <1>9 DEF l

LEMMA RcptKeepsSendPhase ==
  ASSUME IInv, IInv', SendPhase, Rcpt
  PROVE  SendPhase'
<1>0. pc = "rcpt" /\ UNCHANGED <<up, server, delivered>> /\ caller \in Caller
  BY DEF Rcpt, Waits, serverVars, IInv, Types, ClientTypes
<1>1. PICK reply \in Reply :
        Read(reply) /\ IF reply.code = 250 THEN NextRecipient(caller.n) ELSE SendReturns("error")
  BY DEF Rcpt
<1>2. caller.i \in 1 .. caller.n /\ caller.n \in Nat /\ caller.i \in Nat
  BY <1>0, BoundsAssumption DEF SendPhase, Order, OwnLast, Caller
<1>3. CASE reply.code # 250
  BY <1>0, <1>1, <1>3, SendEnds
<1>4. CASE reply.code = 250 /\ caller.i < caller.n
  <2> DEFINE cmd == Of("RCPT", caller.send, caller.i + 1)
  <2>1. cmd \in Command /\ cmd.verb = "RCPT"
    BY <1>0, <1>2 DEF Of, Command, Verb, OfSend, Caller
  <2>2. Issue(cmd, "rcpt") /\ caller' = [caller EXCEPT !.i = caller.i + 1]
    BY <1>1, <1>4 DEF NextRecipient
  <2>3. /\ caller'.i = caller.i + 1 /\ caller'.send = caller.send /\ caller'.n = caller.n
        /\ caller'.i \in 1 .. caller'.n /\ cmd = Of("RCPT", caller'.send, caller'.i)
    BY <1>0, <1>2, <1>4, <2>2 DEF Caller
  <2> HIDE DEF cmd
  <2>4. pc' = "rcpt"
    BY <2>2 DEF Issue
  <2>5. /\ DueNext(cmd) /\ Opened /\ Due[1] = "yes" /\ NoneThrough'
        /\ Answering /\ Len(Due) >= 3 => caller.i = 1 /\ Due[2] # "yes"
        /\ Len(Due) >= 3 => ~(Due[2] = "yes" /\ Due[3] = "go")
        /\ up /\ Len(replies') + Len(commands') = 1 /\ server.mode = "command" =>
             server.open = caller.send /\ server.rcpts = Upto(caller.send, caller.i)
    BY <1>0, <1>1, <1>4, <2>1, <2>2, AcceptedRcpt DEF Sending
  <2> DEFINE l == Len(Due)
  <2>6. /\ l \in Nat /\ l >= 1 /\ Len(Due') = (IF Answering THEN l ELSE l - 1)
        /\ \A p \in 1 .. l - 1 : Due'[p] = Due[p + 1]
        /\ Answering => Due'[l] = "yes"
        /\ Opened' /\ (Answering' <=> Answering)
        /\ Answering /\ l >= 3 => caller.i = 1 /\ Due[2] # "yes"
        /\ l >= 3 => ~(Due[2] = "yes" /\ Due[3] = "go")
    BY <2>1, <2>5 DEF DueNext, Hope
  <2> HIDE DEF l
  <2>7. NotOpened' /\ MailRanks' /\ FirstText' /\ SecondText'
    BY <2>4, <2>6 DEF NotOpened, MailRanks, FirstText, SecondText
  <2>8. RcptRanks'
    <3> SUFFICES ASSUME Answering, Len(Due') >= 3
                 PROVE  caller.i = 1 /\ Due'[1] # "yes"
      BY <2>3, <2>6 DEF RcptRanks
    <3>1. l >= 3 /\ 1 \in 1 .. l - 1
      BY <2>6
    <3> QED
      BY <2>6, <3>1
  <2>9. OwnLast'
    <3>1. Answering' => Len(Due') >= 1
      BY <2>6
    <3> QED
      BY <2>1, <2>3, <2>4, <2>5, <3>1 DEF DueNext, OwnLast
  <2>10. OwnGo'
    <3> SUFFICES ASSUME Len(Due') >= 2, Due'[1] = "yes", Due'[2] = "go"
                 PROVE  FALSE
      BY <2>4 DEF OwnGo
    <3>1. l >= 2 /\ Due[2] = "yes" /\ (l >= 3 => Due[3] = "go")
      BY <2>6
    <3> QED
      BY <2>6, <3>1
  <2>11. Alone'
    <3> SUFFICES ASSUME up', Len(replies') + Len(commands') = 1, server'.mode = "command"
                 PROVE  /\ server'.open = caller'.send
                        /\ commands' # <<>> => /\ commands'[1] = Of("RCPT", caller'.send, caller'.i)
                                               /\ server'.rcpts = Upto(caller'.send, caller'.i - 1)
                        /\ replies' # <<>> /\ replies'[1].code = 250 =>
                             server'.rcpts = Upto(caller'.send, caller'.i)
      BY <2>4 DEF Alone
    <3>1. server.open = caller.send /\ server.rcpts = Upto(caller.send, caller.i)
      BY <1>0, <2>5
    <3>2. replies' = <<>> /\ commands' = <<cmd>>
      BY <1>0, <2>5 DEF DueNext
    <3>3. caller'.i - 1 = caller.i
      BY <1>2, <2>3
    <3> QED
      BY <1>0, <2>3, <3>1, <3>2, <3>3
  <2> QED
    BY <2>5, <2>7, <2>8, <2>9, <2>10, <2>11 DEF DueNext, SendPhase, Order, Contents
<1>5. CASE reply.code = 250 /\ ~(caller.i < caller.n)
  <2> DEFINE cmd == Of("DATA", caller.send, 0)
  <2>1. cmd \in Command /\ cmd.verb = "DATA"
    BY <1>0 DEF Of, Command, Verb, OfSend, Caller
  <2>2. Issue(cmd, "data") /\ caller' = caller /\ caller.i = caller.n
    BY <1>1, <1>2, <1>5 DEF NextRecipient
  <2> HIDE DEF cmd
  <2>3. pc' = "data"
    BY <2>2 DEF Issue
  <2>4. /\ DueNext(cmd) /\ Opened /\ Due[1] = "yes" /\ NoneThrough'
        /\ Len(Due) >= 2 => Due[2] # "go"
        /\ up /\ Len(replies') + Len(commands') = 1 /\ server.mode = "command" =>
             server.open = caller.send /\ server.rcpts = Upto(caller.send, caller.i)
    BY <1>0, <1>1, <1>5, <2>1, <2>2, AcceptedRcpt DEF Sending
  <2>5. NotOpened' /\ RcptRanks' /\ MailRanks' /\ OwnLast' /\ FirstText' /\ SecondText'
    BY <2>3, <2>4 DEF DueNext, NotOpened, RcptRanks, MailRanks, OwnLast, FirstText, SecondText
  <2>6. OwnGo'
    <3> SUFFICES ASSUME Len(Due') >= 1, Due'[1] = "go"
                 PROVE  Len(replies') + Len(commands') = 1
      BY <2>3 DEF OwnGo
    <3> DEFINE l == Len(Due)
    <3>1. /\ l \in Nat /\ l >= 1 /\ Len(Due') = (IF Answering THEN l ELSE l - 1)
          /\ \A p \in 1 .. l - 1 : Due'[p] = Due[p + 1]
          /\ l >= 2 => Due[2] # "go"
      BY <2>4 DEF DueNext
    <3> HIDE DEF l
    <3>2. l = 1 /\ Answering
      BY <3>1
    <3>3. Len(replies) + Len(commands) = 1 /\ Len(replies) >= 1 /\ up
      BY <2>4, <3>2, DueIs DEF DueMarks, DueNext, IInv, Types, WireTypes, l, Answering
    <3>4. Len(replies') = Len(replies) - 1 /\ Len(commands') = Len(commands) + 1
      <4>1. Shifted(1) /\ commands \in Seq(Command)
        BY <1>1, <1>5, ReadsFirst DEF IInv, Types, WireTypes
      <4> QED
        BY <2>4, <3>3, <4>1 DEF DueNext, Shifted
    <3> QED
      BY <3>3, <3>4, DueIs DEF DueMarks, IInv, Types
  <2>7. Alone'
    <3> SUFFICES ASSUME up', Len(replies') + Len(commands') = 1
                 PROVE  /\ commands' # <<>> /\ server'.mode = "command" =>
                             /\ commands'[1].verb = "DATA"
                             /\ server'.open = caller'.send
                             /\ server'.rcpts = Upto(caller'.send, caller'.n)
                        /\ replies' = <<>>
      BY <2>3 DEF Alone
    <3>1. replies' = <<>> /\ commands' = <<cmd>>
      BY <1>0, <2>4 DEF DueNext
    <3> QED
      BY <1>0, <2>1, <2>2, <2>4, <3>1
  <2> QED
    BY <2>4, <2>5, <2>6, <2>7 DEF DueNext, SendPhase, Order, Contents
<1> QED
  BY <1>3, <1>4, <1>5

\* A text is sent, to a server that is ready for it or has lost the connection.
LEMMA TextSent ==
  ASSUME IInv, IInv', SendPhase, NEW reply, Read(reply), reply.code # 0,
         Len(replies) + Len(commands) = 1,
         NEW next \in {"message", "again"}, Issue(Of("TEXT", caller.send, caller.n), next),
         UNCHANGED <<up, server, delivered, caller>>,
         up /\ next = "message" =>
           /\ server.mode = "data" /\ ~server.junk
           /\ server.open = caller.send /\ server.rcpts = Upto(caller.send, caller.n),
         up /\ next = "again" => server.mode = "command" /\ server.open = "none",
         next = "again" => HasDelivered(caller.send)
  PROVE  SendPhase'
<1> DEFINE text == Of("TEXT", caller.send, caller.n)
<1>0. WireTypes /\ WireTypes' /\ pc' = next
  BY DEF IInv, Types, Issue
<1>1. text.verb = "TEXT" /\ text.of = caller.send /\ text.n = caller.n
  BY DEF Of
<1>2. replies' = <<>> /\ commands = <<>> /\ commands' = IF up THEN <<text>> ELSE <<>>
  <2>1. /\ commands \in Seq(Command) /\ replies \in Seq(Reply) /\ replies' \in Seq(Reply)
        /\ Len(replies) >= 1 /\ Len(replies') = Len(replies) - 1
    BY <1>0, ReadsFirst DEF WireTypes, Shifted
  <2>2. Len(commands) = 0 /\ Len(replies') = 0
    BY <2>1
  <2>3. commands = <<>> /\ replies' = <<>>
    BY <2>1, <2>2
  <2> QED
    BY <2>3 DEF Issue
<1> HIDE DEF text
<1>3. /\ up => commands' # <<>> /\ Len(commands') = 1 /\ commands'[1] = text
      /\ ~up => commands' = <<>> /\ Len(commands') = 0
      /\ Len(replies') = 0 /\ up \in BOOLEAN
  BY <1>0, <1>2 DEF WireTypes
<1>4. /\ Len(Due') \in Nat /\ Len(Due') <= 1
      /\ Answering' => Len(Due') >= 1
      /\ \A p \in 1 .. Len(Due') : Due'[p] = "no"
  <2>1. DueMarks'
    BY <1>0, DueIsPrimed
  <2>2. Len(Due') = (IF Answering' THEN Len(commands') ELSE 0) /\ (Answering' => up)
    BY <1>3, <2>1 DEF DueMarks, Answering
  <2>3. Answering' => Due'[1] = Hope(text.verb)
    BY <1>2, <1>3, <2>1, <2>2 DEF DueMarks
  <2>4. Hope(text.verb) = "no"
    BY <1>1 DEF Hope
  <2>5. Len(Due') = 0 \/ (Len(Due') = 1 /\ Due'[1] = "no")
    BY <1>3, <2>2, <2>3, <2>4
  <2>6. Answering' => Len(Due') = 1
    BY <1>3, <2>2
  <2> DEFINE l == Len(Due')
  <2>7. (l = 0 \/ (l = 1 /\ Due'[1] = "no")) /\ (Answering' => l = 1)
    BY <2>5, <2>6
  <2> HIDE DEF l
  <2>8. CASE l = 0
    <3>1. (1 .. l) = {} /\ l \in Nat /\ l <= 1
      BY <2>8
    <3> QED
      BY <2>7, <2>8, <3>1 DEF l
  <2>9. CASE l = 1 /\ Due'[1] = "no"
    <3>1. (1 .. l) = {1} /\ l \in Nat /\ l <= 1 /\ l >= 1
      BY <2>9
    <3> QED
      BY <2>9, <3>1 DEF l
  <2> QED
    BY <2>7, <2>8, <2>9
<1>5. InSession'
  <2>1. \A i \in 1 .. Len(commands') : commands'[i].verb \in OfSend \cup {"QUIT"}
    BY <1>1, <1>3 DEF OfSend
  <2> QED
    BY <1>0, <2>1 DEF SendPhase, InSession, Connecting, Authenticating
<1>6. Order'
  <2>1. OneYes(Due') /\ NoYes(Due') /\ NoGo(Due') /\ NoRun(Due')
    BY <1>4 DEF OneYes, NoYes, NoGo, NoRun
  <2> QED
    BY <1>0, <2>1 DEF Order, NotOpened, NoneThrough, RcptRanks, MailRanks, OwnLast, OwnGo
<1>7. Alone'
  BY <1>0 DEF Alone
<1>8. TextFirst'
  BY <1>0, <1>1, <1>2, <1>3 DEF TextFirst
<1>9. FirstText'
  BY <1>0, <1>2, <1>3 DEF FirstText, text
<1>10. SecondText'
  <2>1. HasDelivered(caller.send) => HasDelivered(caller.send)'
    BY DEF HasDelivered
  <2>2. \A i \in 1 .. Len(commands') : i = 1 /\ commands'[i].verb = "TEXT" /\ up
    <3>1. CASE up
      <4>0. Len(commands') = 1
        BY <1>3, <3>1
      <4>1. 1 .. Len(commands') = {1}
        BY ONLY <4>0
      <4> QED
        BY <1>1, <1>3, <3>1, <4>1
    <3>2. CASE ~up
      <4>1. 1 .. Len(commands') = {}
        BY <1>3, <3>2
      <4> QED
        BY <4>1
    <3> QED
      BY <3>1, <3>2
  <2> QED
    BY <1>0, <1>3, <2>1, <2>2 DEF SecondText, HasDelivered
<1> QED
  BY <1>5, <1>6, <1>7, <1>8, <1>9, <1>10 DEF SendPhase, Contents

LEMMA DataKeepsSendPhase ==
  ASSUME IInv, IInv', SendPhase, Data
  PROVE  SendPhase'
<1>0. pc = "data" /\ UNCHANGED <<up, server, delivered>> /\ WireTypes
  BY DEF Data, Waits, serverVars, IInv, Types
<1>1. PICK reply \in Reply :
        /\ Read(reply)
        /\ IF reply.code = 354
           THEN Issue(Of("TEXT", caller.send, caller.n), "message") /\ UNCHANGED caller
           ELSE SendReturns("error")
  BY DEF Data
<1>2. CASE reply.code # 354
  BY <1>0, <1>1, <1>2, SendEnds
<1>3. CASE reply.code = 354
  <2>1. Len(replies) >= 1 /\ replies # <<>> /\ replies[1].code = 354
    BY <1>0, <1>1, <1>3, ReadsFirst
  <2>2. Len(Due) >= 1 /\ Due[1] = "go"
    BY <1>0, <2>1, DueIs DEF DueMarks, Sign
  <2>3. Len(replies) + Len(commands) = 1
    BY <1>0, <2>2 DEF SendPhase, Order, OwnGo
  <2>4. up => /\ server.mode = "data" /\ ~server.junk
              /\ server.open = caller.send /\ server.rcpts = Upto(caller.send, caller.n)
    BY <1>0, <2>1, <2>3 DEF SendPhase, Contents, Alone
  <2> QED
    BY <1>0, <1>1, <1>3, <2>3, <2>4, TextSent
<1> QED
  BY <1>2, <1>3

LEMMA MessageKeepsSendPhase ==
  ASSUME IInv, IInv', SendPhase, Message, NilMeansDelivered
  PROVE  SendPhase' /\ NilMeansDelivered'
<1>0. /\ pc \in {"message", "again"} /\ UNCHANGED <<up, server, delivered>>
      /\ WireTypes /\ ClientTypes /\ caller.send \in Send
  BY DEF Message, Waits, serverVars, IInv, Types, Stage, Sending
<1>1. PICK reply \in Reply :
        /\ Read(reply)
        /\ IF reply.code # 250 THEN SendReturns("error")
           ELSE IF pc = "message" /\ ~session.esmtp
           THEN Issue(Of("TEXT", caller.send, caller.n), "again") /\ UNCHANGED caller
           ELSE SendReturns("nil")
  BY DEF Message
<1>2. CASE reply.code # 250
  <2>1. SendPhase'
    BY <1>0, <1>1, <1>2, SendEnds
  <2>2. \A s \in Send : result'[s] = "nil" => result[s] = "nil"
    BY <1>0, <1>1, <1>2 DEF SendReturns, ClientTypes
  <2> QED
    BY <1>0, <2>1, <2>2 DEF NilMeansDelivered
<1>3. CASE reply.code = 250
  <2>1. Len(replies) >= 1 /\ replies # <<>> /\ replies[1].code = 250 /\ Len(replies) \in Nat
    BY <1>0, <1>1, <1>3, ReadsFirst, DueIs DEF DueMarks
  <2>2. pc = "message"
    BY <1>0, <2>1 DEF SendPhase, Contents, SecondText
  <2>3. /\ HasDelivered(caller.send) /\ Len(replies) + Len(commands) <= 1
        /\ up => server.mode = "command" /\ server.open = "none"
    BY <2>1, <2>2 DEF SendPhase, Contents, FirstText
  <2>4. Len(replies) + Len(commands) = 1
    BY <1>0, <2>1, <2>3, DueIs DEF DueMarks
  <2>5. CASE ~session.esmtp
    <3>1. Issue(Of("TEXT", caller.send, caller.n), "again") /\ UNCHANGED caller
      BY <1>1, <1>3, <2>2, <2>5
    <3>2. SendPhase'
      BY <1>0, <1>1, <1>3, <2>3, <2>4, <3>1, TextSent
    <3> QED
      BY <1>0, <3>1, <3>2 DEF Issue, actorVars, NilMeansDelivered
  <2>6. CASE session.esmtp
    <3>1. SendReturns("nil")
      BY <1>1, <1>3, <2>2, <2>6
    <3>2. SendPhase'
      BY <1>0, <1>1, <3>1, SendEnds
    <3>3. \A s \in Send : result'[s] = "nil" => result[s] = "nil" \/ s = caller.send
      BY <1>0, <3>1 DEF SendReturns, ClientTypes
    <3> QED
      BY <1>0, <2>3, <3>2, <3>3 DEF NilMeansDelivered, HasDelivered
  <2> QED
    BY <2>5, <2>6 DEF IInv, Types, ClientTypes, Session
<1> QED
  BY <1>2, <1>3

----------------------------------------------------------------------------
(***************************************************************************)
(* The other calls, and the end of the connection.                         *)
(***************************************************************************)

\* A command that brings no 250 or 354 for an RCPT or a DATA is sent while no reply is read.
LEMMA DueAppended ==
  ASSUME WireTypes, WireTypes', NEW cmd \in Command, cmd.verb \in {"MAIL", "QUIT"},
         commands' = commands \/ (up /\ commands' = Append(commands, cmd)),
         UNCHANGED <<up, server, replies>>
  PROVE  /\ (TextComes' <=> TextComes) /\ (Opened' <=> Opened) /\ (Answering' <=> Answering)
         /\ Len(Due) \in Nat /\ Len(Due') \in {Len(Due), Len(Due) + 1}
         /\ \A p \in 1 .. Len(Due) : Due'[p] = Due[p]
         /\ Len(Due') = Len(Due) + 1 => Due'[Len(Due) + 1] = "no"
         /\ Len(commands') \in {Len(commands), Len(commands) + 1}
         /\ \A i \in 1 .. Len(commands) : commands'[i] = commands[i]
         /\ Len(commands') = Len(commands) + 1 => commands'[Len(commands')] = cmd
         /\ Answering /\ commands' # commands => Len(Due') = Len(Due) + 1
<1>1. DueMarks /\ DueMarks'
  BY DueIs, DueIsPrimed
<1>2. /\ commands \in Seq(Command) /\ replies \in Seq(Reply)
      /\ Len(commands) \in Nat /\ Len(replies) \in Nat
  BY DEF WireTypes
<1> DEFINE more == commands' # commands
<1>3. /\ Len(commands') = (IF more THEN Len(commands) + 1 ELSE Len(commands))
      /\ more => commands'[Len(commands) + 1] = cmd
      /\ \A i \in 1 .. Len(commands) : commands'[i] = commands[i]
  BY <1>2
<1> HIDE DEF more
<1>4. TextComes' <=> TextComes
  <2>1. CASE Len(commands) = 0
    BY <1>2, <2>1 DEF TextComes
  <2>2. CASE Len(commands) # 0
    BY <1>2, <1>3, <2>2 DEF TextComes
  <2> QED
    BY <2>1, <2>2
<1>5. (Opened' <=> Opened) /\ (Answering' <=> Answering)
  BY <1>4 DEF Opened, Answering, Silent
<1> DEFINE k == Len(commands)
           r == Len(replies)
           l == Len(Due)
<1>6. /\ k \in Nat /\ r \in Nat /\ l \in Nat /\ l = r + (IF Answering THEN k ELSE 0)
      /\ Len(commands') = (IF more THEN k + 1 ELSE k)
      /\ Len(Due') = r + (IF Answering THEN Len(commands') ELSE 0)
  BY <1>1, <1>3, <1>5 DEF DueMarks
<1> HIDE DEF k, r, l
<1>7. Len(Due') = IF Answering /\ more THEN l + 1 ELSE l
  BY <1>6
<1>8. ASSUME NEW p \in 1 .. l
      PROVE  Due'[p] = Due[p]
  <2>1. CASE p <= r
    BY <1>1, <1>6, <2>1 DEF DueMarks, r
  <2>2. CASE p > r
    <3> DEFINE q == p - r
    <3>1. Answering /\ q \in 1 .. k /\ q \in 1 .. Len(commands') /\ p = r + q
      BY <1>6, <2>2
    <3> HIDE DEF q
    <3>2. Due'[r + q] = Hope(commands'[q].verb) /\ Due[r + q] = Hope(commands[q].verb)
      BY <1>1, <1>5, <3>1 DEF DueMarks, k, r
    <3> QED
      BY <1>3, <3>1, <3>2 DEF k
  <2> QED
    BY <1>6, <2>1, <2>2
<1>9. ASSUME Answering, more
      PROVE  Due'[l + 1] = "no"
  <2>1. k + 1 \in 1 .. Len(commands') /\ l + 1 = r + (k + 1) /\ commands'[k + 1] = cmd
    BY <1>3, <1>6, <1>9 DEF k
  <2>2. Due'[r + (k + 1)] = Hope(commands'[k + 1].verb)
    BY <1>1, <1>5, <1>9, <2>1 DEF DueMarks, r
  <2> QED
    BY <2>1, <2>2 DEF Hope
<1>10. Len(Due') = l + 1 => Answering /\ more
  BY <1>6, <1>7
<1> QED
  BY <1>3, <1>4, <1>5, <1>6, <1>7, <1>8, <1>9, <1>10 DEF k, l, more

\* A "no" at the end changes nothing.
LEMMA NoAtEnd ==
  ASSUME NEW m, NEW n, Len(m) \in Nat, Len(n) \in {Len(m), Len(m) + 1},
         \A p \in 1 .. Len(m) : n[p] = m[p],
         Len(n) = Len(m) + 1 => n[Len(m) + 1] = "no"
  PROVE  /\ OneYes(m) => OneYes(n)
         /\ NoYes(m) => NoYes(n)
         /\ NoGo(m) => NoGo(n)
         /\ NoRun(m) => NoRun(n)
<1> DEFINE k == Len(m)
           l == Len(n)
<1>1. /\ k \in Nat /\ l \in {k, k + 1} /\ (\A p \in 1 .. k : n[p] = m[p])
      /\ l = k + 1 => n[k + 1] = "no"
  OBVIOUS
<1> HIDE DEF k, l
<1>2. \A p \in 1 .. l : n[p] = "no" \/ (p \in 1 .. k /\ n[p] = m[p])
  BY <1>1
<1>3. OneYes(m) => OneYes(n)
  BY <1>2 DEF OneYes, k, l
<1>4. (NoYes(m) => NoYes(n)) /\ (NoGo(m) => NoGo(n))
  BY <1>2 DEF NoYes, NoGo, k, l
<1>5. ASSUME \A p \in 1 .. k : p + 2 <= k => ~(m[p] = "yes" /\ m[p + 1] = "yes" /\ m[p + 2] # "no"),
             NEW p \in 1 .. l, p + 2 <= l, n[p] = "yes", n[p + 1] = "yes", n[p + 2] # "no"
      PROVE  FALSE
  <2>1. p + 2 \in 1 .. l /\ p + 1 \in 1 .. l
    BY <1>1, <1>5
  <2>2. p + 2 \in 1 .. k /\ n[p + 2] = m[p + 2]
    BY <1>2, <1>5, <2>1
  <2>3. p \in 1 .. k /\ p + 1 \in 1 .. k /\ n[p] = m[p] /\ n[p + 1] = m[p + 1] /\ p + 2 <= k
    BY <1>1, <1>5, <2>2
  <2> QED
    BY <1>5, <2>2, <2>3
<1> QED
  BY <1>3, <1>4, <1>5 DEF NoRun, k, l

\* Nothing that the invariant speaks of has changed.
LEMMA SameSendPhase ==
  ASSUME SendPhase, UNCHANGED <<pc, caller, commands, replies, up, server, delivered>>
  PROVE  SendPhase'
<1>1. Due' = Due
  BY DEF Due, Live, Silent, TextComes
<1>2. (TextComes' <=> TextComes) /\ (Opened' <=> Opened) /\ (Answering' <=> Answering)
  BY DEF TextComes, Opened, Answering, Silent
<1>3. InSession'
  BY DEF SendPhase, InSession
<1>4. Order'
  BY <1>1, <1>2
     DEF SendPhase, Order, NotOpened, NoneThrough, RcptRanks, MailRanks, OwnLast, OwnGo
<1>5. Alone' /\ TextFirst'
  BY DEF SendPhase, Contents, Alone, TextFirst
<1>6. FirstText' /\ SecondText'
  BY DEF SendPhase, Contents, FirstText, SecondText, HasDelivered
<1> QED
  BY <1>3, <1>4, <1>5, <1>6 DEF SendPhase, Contents

\* beSend's MAIL, or beClose's QUIT, is sent.
LEMMA CallKeepsSendPhase ==
  ASSUME IInv, IInv', SendPhase, pc = "idle", NEW cmd \in Command,
         commands' = commands \/ (up /\ commands' = Append(commands, cmd)),
         UNCHANGED <<up, server, replies, delivered>>,
         \/ cmd.verb = "QUIT" /\ pc' = "idle"
         \/ /\ cmd.verb = "MAIL" /\ pc' = "mail" /\ cmd.of = caller'.send
            /\ up => commands' = Append(commands, cmd)
  PROVE  SendPhase'
<1>0. /\ WireTypes /\ WireTypes' /\ DueMarks /\ DueMarks'
      /\ commands \in Seq(Command) /\ replies \in Seq(Reply) /\ replies' \in Seq(Reply)
      /\ cmd.verb \in {"MAIL", "QUIT"} /\ pc' \in {"idle", "mail"}
  BY DueIs, DueIsPrimed DEF IInv, Types, WireTypes
<1>1. /\ (TextComes' <=> TextComes) /\ (Opened' <=> Opened) /\ (Answering' <=> Answering)
      /\ Len(Due) \in Nat /\ Len(Due') \in {Len(Due), Len(Due) + 1}
      /\ \A p \in 1 .. Len(Due) : Due'[p] = Due[p]
      /\ Len(Due') = Len(Due) + 1 => Due'[Len(Due) + 1] = "no"
      /\ Len(commands') \in {Len(commands), Len(commands) + 1}
      /\ \A i \in 1 .. Len(commands) : commands'[i] = commands[i]
      /\ Len(commands') = Len(commands) + 1 => commands'[Len(commands')] = cmd
      /\ Answering /\ commands' # commands => Len(Due') = Len(Due) + 1
  BY <1>0, DueAppended
<1>2. /\ OneYes(Due) => OneYes(Due')
      /\ NoYes(Due) => NoYes(Due')
      /\ NoGo(Due) => NoGo(Due')
      /\ NoRun(Due) => NoRun(Due')
  BY <1>1, NoAtEnd
<1>3. \A i \in 1 .. Len(commands') : (i \in 1 .. Len(commands) /\ commands'[i] = commands[i]) \/ commands'[i] = cmd
  BY <1>0
<1>4. InSession'
  <2>1. \A i \in 1 .. Len(commands') : commands'[i].verb \in OfSend \cup {"QUIT"}
    BY <1>0, <1>3 DEF SendPhase, InSession, OfSend
  <2> QED
    BY <1>0, <2>1 DEF SendPhase, InSession, Connecting, Authenticating
<1>5. NotOpened' /\ NoneThrough'
  BY <1>0, <1>1, <1>2 DEF SendPhase, Order, NotOpened, NoneThrough
<1>6. RcptRanks' /\ OwnGo'
  BY <1>0 DEF RcptRanks, OwnGo
<1>7. ASSUME pc' = "mail", Answering'
      PROVE  /\ Len(Due') = Len(Due) + 1 /\ Due'[Len(Due')] = "no"
             /\ commands'[Len(commands')].verb = "MAIL"
  <2>1. commands' = Append(commands, cmd) /\ cmd.verb = "MAIL"
    BY <1>1, <1>7 DEF Answering
  <2>2. commands' # commands /\ Len(commands') = Len(commands) + 1
    BY <1>0, <2>1
  <2> QED
    BY <1>1, <1>7, <2>1, <2>2
<1>8. MailRanks' /\ OwnLast'
  BY <1>0, <1>1, <1>7 DEF MailRanks, OwnLast
<1>9. Alone'
  <2> SUFFICES ASSUME up', Len(replies') + Len(commands') = 1, pc' = "mail"
               PROVE  replies' = <<>> /\ commands'[1] = cmd /\ cmd.verb = "MAIL" /\ cmd.of = caller'.send
    BY <1>0 DEF Alone
  <2>1. commands' = Append(commands, cmd) /\ cmd.verb = "MAIL" /\ cmd.of = caller'.send
    OBVIOUS
  <2>2. Len(commands') = Len(commands) + 1
    BY <1>0, <2>1
  <2>3. Len(replies') = 0 /\ Len(commands) = 0
    BY <1>0, <2>2
  <2> QED
    BY <1>0, <2>1, <2>3
<1>10. TextFirst'
  <2> SUFFICES ASSUME NEW i \in 1 .. Len(commands'), commands'[i].verb = "TEXT"
               PROVE  /\ i = 1 /\ replies' = <<>>
                      /\ server'.mode = "data" => /\ ~server'.junk /\ server'.open = commands'[i].of
                                 /\ server'.rcpts = Upto(commands'[i].of, commands'[i].n)
                      /\ server'.mode # "data" => server'.open = "none"
    BY <1>0 DEF TextFirst
  <2>1. i \in 1 .. Len(commands) /\ commands'[i] = commands[i]
    BY <1>0, <1>3
  <2> QED
    BY <2>1 DEF SendPhase, Contents, TextFirst
<1>11. FirstText' /\ SecondText'
  BY <1>0 DEF FirstText, SecondText
<1> QED
  BY <1>4, <1>5, <1>6, <1>8, <1>9, <1>10, <1>11 DEF SendPhase, Order, Contents

LEMMA beSendKeepsEnvelope ==
  ASSUME IInv, IInv', CallersAsk = "result", EnvelopeInv,
         NEW s \in Send, NEW n \in 0 .. MaxRecipients, NEW big \in BOOLEAN, beSend(s, n, big)
  PROVE  EnvelopeInv'
<1>0. /\ pc = "idle" /\ connected /\ session.stream /\ result \in [Send -> {"none", "nil", "error", "tooBig"}]
      /\ UNCHANGED <<session, replies, up, timeouts, server, delivered>>
  BY DEF beSend, serverVars, IInv, Stage, Types, ClientTypes
<1>1. SendPhase
  BY <1>0 DEF EnvelopeInv, Quiet
<1>2. AllComposed'
  BY <1>0 DEF EnvelopeInv, AllComposed
<1>3. CASE n = 0 \/ ExceedsLimit(big)
  <2>1. /\ UNCHANGED <<pc, caller, commands>>
        /\ result' = [result EXCEPT ![s] = IF n = 0 THEN "error" ELSE "tooBig"]
    BY <1>3 DEF beSend
  <2>2. SendPhase'
    BY <1>0, <1>1, <2>1, SameSendPhase
  <2>3. NilMeansDelivered'
    BY <1>0, <2>1 DEF EnvelopeInv, NilMeansDelivered
  <2> QED
    BY <1>2, <2>2, <2>3 DEF EnvelopeInv
<1>4. CASE ~(n = 0 \/ ExceedsLimit(big))
  <2> DEFINE cmd == Of("MAIL", s, IF big THEN 1 ELSE 0)
  <2>1. cmd \in Command /\ cmd.verb = "MAIL" /\ cmd.of = s
    BY DEF Of, Command, Verb, OfSend, Sender
  <2>2. /\ caller' = [NoCaller EXCEPT !.op = "send", !.send = s, !.n = n, !.big = big]
        /\ Issue(cmd, "mail") /\ UNCHANGED result
    BY <1>0, <1>4 DEF beSend, SendIssues, actorVars
  <2>3. caller'.send = s
    BY <2>2 DEF NoCaller
  <2> HIDE DEF cmd
  <2>4. SendPhase'
    BY <1>0, <1>1, <2>1, <2>2, <2>3, CallKeepsSendPhase DEF Issue
  <2>5. NilMeansDelivered'
    BY <1>0, <2>2 DEF EnvelopeInv, NilMeansDelivered
  <2> QED
    BY <1>2, <2>4, <2>5 DEF EnvelopeInv
<1> QED
  BY <1>3, <1>4

LEMMA beCloseKeepsEnvelope ==
  ASSUME IInv, IInv', EnvelopeInv, beClose
  PROVE  EnvelopeInv'
<1>0. /\ pc = "idle" /\ connected' = FALSE
      /\ commands' = IF session.stream /\ up THEN Append(commands, Plain("QUIT")) ELSE commands
      /\ UNCHANGED <<pc, caller, result, replies, up, server, delivered>>
      /\ commands \in Seq(Command)
  BY DEF beClose, serverVars, IInv, Types, WireTypes
<1>1. Plain("QUIT") \in Command /\ Plain("QUIT").verb = "QUIT"
  BY PlainIsCommand DEF Verb, Plain
<1>2. AllComposed' /\ NilMeansDelivered'
  BY <1>0 DEF EnvelopeInv, AllComposed, NilMeansDelivered
<1>3. CASE SendPhase
  <2>1. SendPhase'
    BY <1>0, <1>1, <1>3, CallKeepsSendPhase
  <2> QED
    BY <1>2, <2>1 DEF EnvelopeInv
<1>4. CASE Quiet
  <2>1. \A i \in 1 .. Len(commands') : commands'[i].verb \notin OfSend
    BY <1>0, <1>1, <1>4 DEF Quiet, OfSend
  <2>2. Quiet'
    BY <1>0, <1>4, <2>1 DEF Quiet, AuthLast, Connecting, Authenticating
  <2> QED
    BY <1>2, <2>2 DEF EnvelopeInv
<1> QED
  BY <1>3, <1>4 DEF EnvelopeInv

\* The connection ends.  Replies may be lost, and commands are.
LEMMA CutKeepsSendPhase ==
  ASSUME IInv, IInv', SendPhase, up, up' = FALSE, UNCHANGED <<pc, caller, server, delivered>>,
         NEW n \in 0 .. Len(replies), replies' = SubSeq(replies, 1, n),
         \/ commands' = <<>>
         \/ commands # <<>> /\ commands[1].verb = "QUIT" /\ commands' = Tail(commands)
  PROVE  SendPhase'
<1>0. /\ WireTypes /\ WireTypes' /\ DueMarks /\ DueMarks'
      /\ commands \in Seq(Command) /\ replies \in Seq(Reply) /\ replies' \in Seq(Reply)
  BY DueIs, DueIsPrimed DEF IInv, Types, WireTypes
<1>1. /\ Len(replies) \in Nat /\ Len(replies') = n /\ n <= Len(replies) /\ n \in Nat
      /\ \A i \in 1 .. n : replies'[i] = replies[i]
  BY <1>0
<1>2. /\ ~Answering' /\ Len(Due') = n /\ Len(Due) \in Nat /\ n <= Len(Due)
      /\ \A p \in 1 .. n : Due'[p] = Due[p]
  BY <1>0, <1>1 DEF DueMarks, Answering
<1>3. \A i \in 1 .. Len(commands') : commands'[i].verb \in {"MAIL", "RCPT", "DATA", "QUIT"}
  <2>1. CASE commands' = <<>>
    BY <2>1
  <2>2. CASE commands # <<>> /\ commands[1].verb = "QUIT" /\ commands' = Tail(commands)
    <3>1. \A i \in 1 .. Len(commands') : i + 1 \in 1 .. Len(commands) /\ commands'[i] = commands[i + 1] /\ i + 1 # 1
      BY <1>0, <2>2
    <3>2. \A i \in 1 .. Len(commands) : i # 1 => commands[i].verb # "TEXT"
      BY DEF SendPhase, Contents, TextFirst
    <3>3. \A i \in 1 .. Len(commands) : commands[i].verb \in OfSend \cup {"QUIT"}
      BY DEF SendPhase, InSession
    <3> QED
      BY <3>1, <3>2, <3>3 DEF OfSend
  <2> QED
    BY <2>1, <2>2
<1>4. ~TextComes'
  <2>1. commands' # <<>> => 1 \in 1 .. Len(commands')
    BY <1>0 DEF WireTypes
  <2> QED
    BY <1>3, <2>1 DEF TextComes
<1>5. /\ OneYes(Due) => OneYes(Due')
      /\ NoGo(Due) => NoGo(Due')
      /\ NoRun(Due) => NoRun(Due')
  <2>1. \A p \in 1 .. n : p \in 1 .. Len(Due) /\ Due'[p] = Due[p] /\ (p + 2 <= n => p + 2 <= Len(Due))
    BY <1>2
  <2>2. ASSUME NoRun(Due), NEW p \in 1 .. n, p + 2 <= n
        PROVE  ~(Due'[p] = "yes" /\ Due'[p + 1] = "yes" /\ Due'[p + 2] # "no")
    <3>1. p + 1 \in 1 .. n /\ p + 2 \in 1 .. n
      BY <1>1, <2>2
    <3> QED
      BY <2>1, <2>2, <3>1 DEF NoRun
  <2>3. (OneYes(Due) => OneYes(Due')) /\ (NoGo(Due) => NoGo(Due'))
    BY <1>2, <2>1 DEF OneYes, NoGo
  <2> QED
    BY <1>2, <2>2, <2>3 DEF NoRun
<1>6. TextComes => n = 0
  <2>1. ASSUME TextComes PROVE replies = <<>>
    <3>1. commands # <<>> /\ commands[1].verb = "TEXT" /\ 1 \in 1 .. Len(commands)
      BY <1>0, <2>1 DEF TextComes
    <3> QED
      BY <3>1 DEF SendPhase, Contents, TextFirst
  <2> QED
    BY <1>1, <2>1
<1>7. NoneThrough'
  <2>1. CASE TextComes
    BY <1>2, <1>6, <2>1 DEF NoneThrough, NoRun
  <2>2. CASE ~TextComes
    BY <1>4, <1>5, <2>2 DEF SendPhase, Order, NoneThrough, Opened
  <2> QED
    BY <2>1, <2>2
<1>8. NotOpened'
  <2>1. ~Opened' => ~Opened
    BY <1>4 DEF Opened
  <2> QED
    BY <1>1, <1>4, <1>5, <2>1 DEF SendPhase, Order, NotOpened
<1>9. RcptRanks' /\ MailRanks' /\ Alone'
  BY <1>2 DEF RcptRanks, MailRanks, Alone
<1>10. OwnLast'
  BY <1>2 DEF SendPhase, Order, OwnLast
<1>11. OwnGo'
  <2>1. ASSUME pc = "data", Len(Due') >= 1, Due'[1] = "go"
        PROVE  Len(replies') + Len(commands') = 1
    <3>1. n >= 1 /\ Len(Due) >= 1 /\ Due[1] = "go" /\ Len(replies) >= 1
      BY <1>1, <1>2, <2>1
    <3>2. Len(replies) + Len(commands) = 1
      BY <2>1, <3>1 DEF SendPhase, Order, OwnGo
    <3>3. Len(commands) = 0 /\ n = 1
      BY <1>0, <1>1, <3>1, <3>2
    <3>4. commands' = <<>>
      BY <1>0, <3>3
    <3> QED
      BY <1>1, <3>3, <3>4
  <2>2. ASSUME pc = "rcpt", Len(Due') >= 2
        PROVE  ~(Due'[1] = "yes" /\ Due'[2] = "go")
    <3>1. 1 \in 1 .. n /\ 2 \in 1 .. n /\ Len(Due) >= 2
      BY <1>2, <2>2
    <3> QED
      BY <1>2, <2>2, <3>1 DEF SendPhase, Order, OwnGo
  <2> QED
    BY <2>1, <2>2 DEF OwnGo
<1>12. InSession' /\ TextFirst'
  BY <1>3 DEF SendPhase, InSession, OfSend, TextFirst
<1>13. pc \in {"message", "again"} => commands' = <<>> /\ Len(commands') = 0
  <2>1. commands # <<>> => 1 \in 1 .. Len(commands)
    BY <1>0
  <2>2. pc \in {"message", "again"} /\ commands # <<>> => commands[1].verb = "TEXT"
    BY <2>1 DEF SendPhase, Contents, FirstText, SecondText, Of
  <2> QED
    BY <2>2
<1>14. FirstText'
  <2> SUFFICES ASSUME pc = "message"
               PROVE  /\ Len(replies') + Len(commands') <= 1
                      /\ replies' # <<>> /\ replies'[1].code = 250 => HasDelivered(caller.send)
    BY <1>13 DEF FirstText, HasDelivered
  <2>1. /\ Len(replies) + Len(commands) <= 1
        /\ replies # <<>> /\ replies[1].code = 250 => HasDelivered(caller.send)
    BY DEF SendPhase, Contents, FirstText
  <2>2. replies' # <<>> => replies # <<>> /\ replies'[1] = replies[1]
    BY <1>0, <1>1
  <2> QED
    BY <1>0, <1>1, <1>13, <2>1, <2>2
<1>15. SecondText'
  BY <1>1, <1>13 DEF SendPhase, Contents, SecondText, HasDelivered
<1> QED
  BY <1>7, <1>8, <1>9, <1>10, <1>11, <1>12, <1>14, <1>15 DEF SendPhase, Order, Contents

LEMMA DropKeepsEnvelope ==
  ASSUME IInv, IInv', EnvelopeInv, Drop
  PROVE  EnvelopeInv'
<1>0. /\ up /\ up' = FALSE /\ commands' = <<>>
      /\ UNCHANGED <<pc, caller, connected, result, server, delivered>>
      /\ replies \in Seq(Reply)
  BY DEF Drop, clientVars, actorVars, serverVars, IInv, Types, WireTypes
<1>1. PICK n \in 0 .. Len(replies) : replies' = SubSeq(replies, 1, n)
  BY DEF Drop
<1>2. AllComposed' /\ NilMeansDelivered'
  BY <1>0 DEF EnvelopeInv, AllComposed, NilMeansDelivered
<1>3. CASE SendPhase
  BY <1>0, <1>1, <1>2, <1>3, CutKeepsSendPhase DEF EnvelopeInv
<1>4. CASE Quiet
  <2>1. Len(replies') = n /\ n \in 0 .. Len(replies) /\ \A i \in 1 .. n : replies'[i] = replies[i]
    BY <1>0, <1>1
  <2>2. ASSUME pc' \in Connecting, NEW i \in 1 .. Len(replies'), replies'[i].code \in {235, 334}
        PROVE  /\ i = Len(replies') /\ pc' \in Authenticating
               /\ replies'[i].code = 235 => server'.mode = "command"
    <3>1. i \in 1 .. Len(replies) /\ replies[i].code \in {235, 334} /\ replies'[i] = replies[i]
      BY <2>1, <2>2
    <3>2. /\ i = Len(replies) /\ pc \in Authenticating
          /\ replies[i].code = 235 => server.mode = "command"
      BY <1>0, <1>4, <2>2, <3>1 DEF Quiet, AuthLast
    <3> QED
      BY <1>0, <2>1, <3>1, <3>2
  <2>3. Quiet'
    BY <1>0, <1>4, <2>2 DEF Quiet, AuthLast
  <2> QED
    BY <1>2, <2>3 DEF EnvelopeInv
<1> QED
  BY <1>3, <1>4 DEF EnvelopeInv

LEMMA beConnectKeepsEnvelope ==
  ASSUME IInv, EnvelopeInv, NEW security \in {"ssl", "startTLS"}, NEW oauth2 \in BOOLEAN,
         beConnect(security, oauth2)
  PROVE  EnvelopeInv'
<1>0. pc = "idle" /\ connected' = FALSE /\ UNCHANGED <<result, delivered>>
  BY DEF beConnect, serverVars
<1>1. AllComposed' /\ NilMeansDelivered'
  BY <1>0 DEF EnvelopeInv, AllComposed, NilMeansDelivered
<1>2. CASE UNCHANGED <<clientVars, connectionInfo, result, wire, serverVars>>
  <2>0. UNCHANGED <<pc, caller, commands, replies, up, server, delivered>>
    BY <1>2 DEF clientVars, wire, serverVars
  <2>1. Quiet => Quiet'
    BY <1>0, <2>0 DEF Quiet, AuthLast
  <2>2. SendPhase => SendPhase'
    BY <2>0, SameSendPhase
  <2> QED
    BY <1>1, <2>1, <2>2 DEF EnvelopeInv
<1>3. CASE /\ pc' = "greeting"
           /\ commands' = <<Plain("CONNECT")>> /\ replies' = <<>>
           /\ server' = NewServer(security = "ssl")
  <2>1. \A i \in 1 .. Len(commands') : commands'[i].verb = "CONNECT"
    BY <1>3 DEF Plain
  <2>2. server'.open = "none" /\ server'.rcpts = {} /\ server'.mode = "command"
    BY <1>3 DEF NewServer
  <2>3. Quiet'
    BY <1>0, <1>3, <2>1, <2>2 DEF Quiet, AuthLast, OfSend, Credentials, Sending
  <2> QED
    BY <1>1, <2>3 DEF EnvelopeInv
<1> QED
  BY <1>2, <1>3 DEF beConnect

\* beConnect sends its next command: the one that may end the authentication is alone.
LEMMA QuietGoesOn ==
  ASSUME WireTypes, WireTypes', Quiet, pc \in Connecting, UNCHANGED server,
         NEW verb \in Verb \ OfSend, NEW next \in Connecting, Issue(Plain(verb), next),
         verb \in Credentials => next \in Authenticating,
         \A i \in 1 .. Len(replies') : \E j \in 1 .. Len(replies) : replies'[i] = replies[j],
         \/ pc \notin Authenticating
         \/ /\ replies # <<>> /\ replies[1].code = 334 /\ Len(replies') = Len(replies) - 1
  PROVE  Quiet'
<1>0. /\ commands \in Seq(Command) /\ replies \in Seq(Reply) /\ replies' \in Seq(Reply)
      /\ commands' = (IF up THEN Append(commands, Plain(verb)) ELSE commands)
      /\ pc' = next /\ UNCHANGED connected /\ Plain(verb).verb = verb
  BY DEF WireTypes, Issue, actorVars, Plain
<1>1. \A i \in 1 .. Len(commands') :
        \/ i \in 1 .. Len(commands) /\ commands'[i] = commands[i]
        \/ i = Len(commands') /\ commands'[i].verb = verb
  BY <1>0
<1>2. \A i \in 1 .. Len(commands') : commands'[i].verb \notin OfSend
  BY <1>0, <1>1 DEF Quiet
<1>3. next \notin Sending
  BY DEF Sending, Connecting, Authenticating
<1>4. AuthLast'
  <2>1. CASE pc \notin Authenticating
    <3>1. /\ \A i \in 1 .. Len(commands) : commands[i].verb \notin Credentials
          /\ \A i \in 1 .. Len(replies) : replies[i].code \notin {235, 334}
      BY <2>1 DEF Quiet, AuthLast
    <3>2. \A i \in 1 .. Len(replies') : replies'[i].code \notin {235, 334}
      BY <3>1
    <3> QED
      BY <1>0, <1>1, <3>1, <3>2 DEF AuthLast
  <2>2. CASE pc \in Authenticating
    <3>1. Len(replies) >= 1 /\ 1 \in 1 .. Len(replies) /\ replies[1].code = 334
      BY <1>0, <2>2
    <3>2. Len(replies) = 1 /\ commands = <<>>
      BY <3>1 DEF Quiet, AuthLast
    <3>3. Len(replies') = 0
      BY <2>2, <3>2
    <3>4. \A i \in 1 .. Len(commands') : i = Len(commands') /\ commands'[i].verb = verb
      BY <1>1, <3>2
    <3> QED
      BY <1>0, <3>3, <3>4 DEF AuthLast
  <2> QED
    BY <2>1, <2>2
<1> QED
  BY <1>0, <1>2, <1>3, <1>4 DEF Quiet

\* beConnect returns an error.
LEMMA QuietFails ==
  ASSUME Quiet, UNCHANGED server, ConnectReturns("error")
  PROVE  Quiet'
BY DEF Quiet, ConnectReturns, Sending, AuthLast, Connecting, Authenticating

\* beConnect returns nil: nothing is on its way.
LEMMA SendPhaseBegins ==
  ASSUME WireTypes, WireTypes', Quiet, pc \in Connecting, UNCHANGED server,
         NEW reply, Read(reply), reply.code = 235, ConnectReturns("nil")
  PROVE  SendPhase'
<1>1. replies # <<>> /\ reply = replies[1] /\ 1 \in 1 .. Len(replies) /\ Shifted(1)
  BY ReadsFirst DEF WireTypes
<1>2. Len(replies) = 1 /\ commands = <<>> /\ server.mode = "command"
  <2>1. \A i \in 1 .. Len(replies) :
          replies[i].code \in {235, 334} =>
            /\ i = Len(replies) /\ commands = <<>>
            /\ replies[i].code = 235 => server.mode = "command"
    BY DEF Quiet, AuthLast
  <2>2. replies[1].code = 235
    BY <1>1
  <2>3. replies[1].code \in {235, 334} /\ 1 \in 1 .. Len(replies)
    BY <1>1, <2>2
  <2> QED
    BY <2>1, <2>2, <2>3
<1>3. Len(replies') = 0 /\ Len(commands') = 0 /\ commands' = <<>> /\ replies' = <<>> /\ pc' = "idle"
  BY <1>1, <1>2 DEF Shifted, ConnectReturns
<1>4. Len(Due') = 0
  BY <1>3, DueIsPrimed DEF DueMarks
<1>5. InSession'
  BY <1>2, <1>3 DEF InSession, Quiet, Connecting, Authenticating
<1>6. Order'
  BY <1>3, <1>4 DEF Order, NotOpened, NoneThrough, RcptRanks, MailRanks, OwnLast, OwnGo,
                    OneYes, NoYes, NoGo, NoRun
<1>7. Contents'
  BY <1>3 DEF Contents, Alone, TextFirst, FirstText, SecondText
<1> QED
  BY <1>5, <1>6, <1>7 DEF SendPhase

\* mailsmtp_init has succeeded.
LEMMA InitialisedKeepsQuiet ==
  ASSUME WireTypes, WireTypes', Quiet, pc \in {"ehlo", "helo"}, UNCHANGED server,
         NEW s, Initialised(s),
         \A i \in 1 .. Len(replies') : \E j \in 1 .. Len(replies) : replies'[i] = replies[j]
  PROVE  Quiet'
<1>1. pc \in Connecting /\ pc \notin Authenticating
  BY DEF Connecting, Authenticating
<1>2. \/ Issue(Plain("STARTTLS"), "starttls") \/ Issue(Plain("AUTH"), "oauth")
      \/ Issue(Plain("AUTH"), "sasl") \/ ConnectReturns("error")
  BY DEF Initialised, Authenticate
<1>3. /\ "STARTTLS" \in (Verb \ OfSend) \ Credentials /\ "AUTH" \in Verb \ OfSend
      /\ "starttls" \in Connecting /\ {"oauth", "sasl"} \subseteq Connecting \cap Authenticating
  BY DEF Verb, OfSend, Credentials, Connecting, Authenticating
<1>4. CASE Issue(Plain("STARTTLS"), "starttls")
  BY <1>1, <1>3, <1>4, QuietGoesOn
<1>5. CASE Issue(Plain("AUTH"), "oauth")
  BY <1>1, <1>3, <1>5, QuietGoesOn
<1>6. CASE Issue(Plain("AUTH"), "sasl")
  BY <1>1, <1>3, <1>6, QuietGoesOn
<1> QED
  BY <1>2, <1>4, <1>5, <1>6, QuietFails

LEMMA ConnectingKeepsEnvelope ==
  ASSUME IInv, IInv', EnvelopeInv, Greeting \/ Ehlo \/ Helo \/ Starttls \/ Sasl \/ Oauth
  PROVE  EnvelopeInv'
<1>0. WireTypes /\ WireTypes'
  BY DEF IInv, Types
<1>1. pc \in Connecting /\ UNCHANGED <<server, delivered>>
  BY DEF Greeting, Ehlo, Helo, Starttls, Sasl, Oauth, Waits, serverVars, Connecting, Authenticating
<1>2. UNCHANGED result
  BY DEF Greeting, Ehlo, Helo, Starttls, Sasl, Oauth, Initialised, Authenticate, ConnectReturns,
         Issue, actorVars
<1>3. Quiet
  BY <1>1 DEF EnvelopeInv, SendPhase, InSession
<1>4. AllComposed' /\ NilMeansDelivered'
  BY <1>1, <1>2 DEF EnvelopeInv, AllComposed, NilMeansDelivered
<1>5. ASSUME NEW reply, Read(reply)
      PROVE  \A i \in 1 .. Len(replies') : \E j \in 1 .. Len(replies) : replies'[i] = replies[j]
  BY <1>0, <1>5, ReadReceives DEF Received
<1>6. /\ {"EHLO", "HELO", "TLS+EHLO"} \subseteq (Verb \ OfSend) \ Credentials
      /\ "RESPONSE" \in Verb \ OfSend /\ {"ehlo", "helo"} \subseteq Connecting
      /\ {"sasl", "oauthError"} \subseteq Connecting \cap Authenticating
  BY DEF Verb, OfSend, Hello, Credentials, Connecting, Authenticating
<1>7. CASE Greeting
  <2>1. pc \notin Authenticating
    BY <1>7 DEF Greeting, Waits, Authenticating
  <2>2. PICK reply \in Reply : Read(reply) /\ (Issue(Plain("EHLO"), "ehlo") \/ ConnectReturns("error"))
    BY <1>7 DEF Greeting
  <2>3. CASE Issue(Plain("EHLO"), "ehlo")
    <3>1. Quiet'
      BY <1>0, <1>1, <1>3, <1>5, <1>6, <2>1, <2>2, <2>3, QuietGoesOn
    <3> QED
      BY <1>4, <3>1 DEF EnvelopeInv
  <2> QED
    BY <1>1, <1>3, <1>4, <2>2, <2>3, QuietFails DEF EnvelopeInv
<1>8. CASE Ehlo
  <2>1. pc = "ehlo" /\ pc \notin Authenticating
    BY <1>8 DEF Ehlo, Waits, Authenticating
  <2>2. PICK reply \in Reply :
          Read(reply) /\ (Issue(Plain("HELO"), "helo") \/ Initialised(ParseEhlo(reply.caps)))
    BY <1>8 DEF Ehlo
  <2>3. CASE Issue(Plain("HELO"), "helo")
    <3>1. Quiet'
      BY <1>0, <1>1, <1>3, <1>5, <1>6, <2>1, <2>2, <2>3, QuietGoesOn
    <3> QED
      BY <1>4, <3>1 DEF EnvelopeInv
  <2>4. CASE Initialised(ParseEhlo(reply.caps))
    <3>1. Quiet'
      BY <1>0, <1>1, <1>3, <1>5, <2>1, <2>2, <2>4, InitialisedKeepsQuiet
    <3> QED
      BY <1>4, <3>1 DEF EnvelopeInv
  <2> QED
    BY <2>2, <2>3, <2>4
<1>9. CASE Helo
  <2>1. pc = "helo"
    BY <1>9 DEF Helo, Waits
  <2>2. PICK reply \in Reply :
          Read(reply) /\ (ConnectReturns("error") \/ \E s : Initialised(s))
    BY <1>9 DEF Helo
  <2>3. CASE \E s : Initialised(s)
    <3>1. Quiet'
      BY <1>0, <1>1, <1>3, <1>5, <2>1, <2>2, <2>3, InitialisedKeepsQuiet
    <3> QED
      BY <1>4, <3>1 DEF EnvelopeInv
  <2> QED
    BY <1>1, <1>3, <1>4, <2>2, <2>3, QuietFails DEF EnvelopeInv
<1>10. CASE Starttls
  <2>1. pc \notin Authenticating
    BY <1>10 DEF Starttls, Waits, Authenticating
  <2>2. ConnectReturns("error") \/ (replies' = <<>> /\ Issue(Plain("TLS+EHLO"), "ehlo"))
    BY <1>10 DEF Starttls
  <2>3. CASE replies' = <<>> /\ Issue(Plain("TLS+EHLO"), "ehlo")
    <3>1. \A i \in 1 .. Len(replies') : \E j \in 1 .. Len(replies) : replies'[i] = replies[j]
      BY <2>3
    <3>2. Quiet'
      BY <1>0, <1>1, <1>3, <1>6, <2>1, <2>3, <3>1, QuietGoesOn
    <3> QED
      BY <1>4, <3>2 DEF EnvelopeInv
  <2> QED
    BY <1>1, <1>3, <1>4, <2>2, <2>3, QuietFails DEF EnvelopeInv
<1>11. ASSUME NEW reply \in Reply, Read(reply), reply.code = 334,
              NEW next \in {"sasl", "oauthError"}, Issue(Plain("RESPONSE"), next)
       PROVE  Quiet'
  <2>1. /\ replies # <<>> /\ replies[1].code = 334 /\ Len(replies') = Len(replies) - 1
    BY <1>0, <1>11, ReadsFirst DEF Shifted
  <2> QED
    BY <1>0, <1>1, <1>3, <1>5, <1>6, <1>11, <2>1, QuietGoesOn
<1>12. ASSUME NEW reply \in Reply, Read(reply), reply.code # 0
       PROVE  1 \in 1 .. Len(replies) /\ reply = replies[1]
  BY <1>0, <1>12, ReadsFirst DEF WireTypes
<1>13. CASE Sasl
  <2>1. PICK reply \in Reply :
          /\ Read(reply)
          /\ \/ reply.code = 334 /\ Issue(Plain("RESPONSE"), "sasl")
             \/ ConnectReturns("error")
             \/ AuthSucceeds(reply.code) /\ reply.code # 334 /\ ConnectReturns("nil")
    BY <1>13 DEF Sasl
  <2>2. CASE AuthSucceeds(reply.code) /\ reply.code # 334 /\ ConnectReturns("nil")
    <3>1. reply.code # 0 /\ reply.code \notin 400 .. 599
      BY <2>2 DEF AuthSucceeds
    <3>2. reply.code \in {235, 334, 500, 501, 535}
      <4>1. pc = "sasl"
        BY <1>13 DEF Sasl, Waits
      <4>2. \A i \in 1 .. Len(replies) : replies[i].code \in {235, 334, 500, 501, 535}
        BY <4>1 DEF IInv, Expected, One
      <4>3. 1 \in 1 .. Len(replies) /\ reply = replies[1]
        BY <1>12, <2>1, <3>1
      <4> QED
        BY <4>2, <4>3
    <3>3. reply.code = 235
      BY <2>2, <3>1, <3>2
    <3>4. SendPhase'
      BY <1>0, <1>1, <1>3, <2>1, <2>2, <3>3, SendPhaseBegins
    <3> QED
      BY <1>4, <3>4 DEF EnvelopeInv
  <2>3. CASE reply.code = 334 /\ Issue(Plain("RESPONSE"), "sasl")
    BY <1>4, <1>11, <2>1, <2>3 DEF EnvelopeInv
  <2> QED
    BY <1>1, <1>3, <1>4, <2>1, <2>2, <2>3, QuietFails DEF EnvelopeInv
<1>14. CASE Oauth
  <2>1. PICK reply \in Reply :
          /\ Read(reply)
          /\ \/ reply.code = 334 /\ Issue(Plain("RESPONSE"), "oauthError")
             \/ ConnectReturns("error")
             \/ reply.code \in {220, 235} /\ ConnectReturns("nil")
    BY <1>14 DEF Oauth
  <2>2. CASE reply.code \in {220, 235} /\ ConnectReturns("nil")
    <3>1. reply.code # 220
      BY <1>12, <1>14, <2>1 DEF Oauth, Waits, IInv, Expected
    <3>2. SendPhase'
      BY <1>0, <1>1, <1>3, <2>1, <2>2, <3>1, SendPhaseBegins
    <3> QED
      BY <1>4, <3>2 DEF EnvelopeInv
  <2>3. CASE reply.code = 334 /\ Issue(Plain("RESPONSE"), "oauthError")
    BY <1>4, <1>11, <2>1, <2>3 DEF EnvelopeInv
  <2> QED
    BY <1>1, <1>3, <1>4, <2>1, <2>2, <2>3, QuietFails DEF EnvelopeInv
<1> QED
  BY <1>7, <1>8, <1>9, <1>10, <1>13, <1>14

----------------------------------------------------------------------------
(***************************************************************************)
(* The server, while beConnect is at work.                                 *)
(***************************************************************************)

\* The server starts no transaction, and answers with 235 or 334 only in an authentication.
ServedQuietly(cmd) ==
  /\ server'.open = "none" /\ server'.rcpts = {} /\ server'.mode # "data"
  /\ delivered' = delivered
  /\ \/ replies' = replies
     \/ \E r : /\ replies' = Append(replies, r)
               /\ r.code \in {235, 334} =>
                    /\ cmd.verb \in Credentials
                    /\ r.code = 235 => server'.mode = "command"

LEMMA AuthServedQuietly ==
  ASSUME server \in Server, server.open = "none", server.rcpts = {}, server.mode # "data",
         NEW cmd \in Command, cmd.verb \in Credentials, ServeAuth
  PROVE  ServedQuietly(cmd)
<1>0. delivered' = delivered
  BY DEF ServeAuth
<1>1. CASE replies' = Append(replies, Code(334))
           /\ server' = [server EXCEPT !.mode = "auth", !.rounds = @ + 1]
  <2>1. server'.open = "none" /\ server'.rcpts = {} /\ server'.mode # "data"
    BY <1>1 DEF Server
  <2>2. Code(334).code = 334
    BY DEF Code
  <2> QED
    BY <1>0, <1>1, <2>1, <2>2 DEF ServedQuietly
<1>2. CASE replies' = Append(replies, Code(235))
           /\ server' = [server EXCEPT !.mode = "command", !.auth = TRUE]
  <2>1. server'.open = "none" /\ server'.rcpts = {} /\ server'.mode = "command"
    BY <1>2 DEF Server
  <2>2. Code(235).code = 235
    BY DEF Code
  <2> QED
    BY <1>0, <1>2, <2>1, <2>2 DEF ServedQuietly
<1>3. CASE replies' = Append(replies, Code(535)) /\ server' = [server EXCEPT !.mode = "command"]
  <2>1. server'.open = "none" /\ server'.rcpts = {} /\ server'.mode = "command"
    BY <1>3 DEF Server
  <2>2. Code(535).code = 535
    BY DEF Code
  <2> QED
    BY <1>0, <1>3, <2>1, <2>2 DEF ServedQuietly
<1> QED
  BY <1>1, <1>2, <1>3 DEF ServeAuth

LEMMA HelloServedQuietly ==
  ASSUME NEW srv \in Server, srv.open = "none", srv.rcpts = {}, srv.mode # "data",
         NEW cmd \in Command, NEW verb, ServeHello(verb, srv)
  PROVE  ServedQuietly(cmd)
<1>0. delivered' = delivered
  BY DEF ServeHello
<1>1. PICK r : replies' = Append(replies, r) /\ r.code \in {250, 502}
  <2>1. CASE replies' = Append(replies, Code(250)) \/ replies' = Append(replies, Code(502))
    <3>1. Code(250).code = 250 /\ Code(502).code = 502
      BY DEF Code
    <3> QED
      BY <2>1, <3>1
  <2>2. CASE \E caps \in Capabilities : replies' = Append(replies, [code |-> 250, caps |-> caps])
    <3>1. PICK caps \in Capabilities : replies' = Append(replies, [code |-> 250, caps |-> caps])
      BY <2>2
    <3>2. [code |-> 250, caps |-> caps].code = 250
      OBVIOUS
    <3> QED
      BY <3>1, <3>2
  <2> QED
    BY <2>1, <2>2, ZenonT(30) DEF ServeHello
<1>2. server'.open = "none" /\ server'.rcpts = {} /\ server'.mode # "data"
  <2>1. CASE server' = srv
    BY <2>1
  <2>2. CASE server' = [Reset(srv) EXCEPT !.hello = TRUE]
    BY <2>2 DEF Reset, Server
  <2>3. CASE \E caps \in Capabilities : server' = [Reset(srv) EXCEPT !.hello = TRUE, !.caps = caps]
    BY <2>3 DEF Reset, Server
  <2> QED
    BY <2>1, <2>2, <2>3 DEF ServeHello
<1> QED
  BY <1>0, <1>1, <1>2 DEF ServedQuietly

LEMMA AllServedQuietly ==
  ASSUME server \in Server, server.open = "none", server.rcpts = {}, server.mode # "data",
         replies \in Seq(Reply), NEW cmd \in Command, cmd.verb \notin OfSend,
         ServeText(cmd) \/ ServeCommand(cmd) \/ ServeExchange(cmd) \/ ServeHandshake(cmd)
  PROVE  ServedQuietly(cmd)
<1>1. CASE ServeExchange(cmd)
  <2>1. CASE cmd.verb = "RESPONSE" /\ ServeAuth
    BY <2>1, AuthServedQuietly DEF Credentials
  <2>2. CASE /\ replies' = Append(replies, Code(501)) /\ delivered' = delivered
             /\ server' = [server EXCEPT !.mode = "command"]
    <3>1. server'.open = "none" /\ server'.rcpts = {} /\ server'.mode = "command"
      BY <2>2 DEF Server
    <3>2. Code(501).code = 501
      BY DEF Code
    <3> QED
      BY <2>2, <3>1, <3>2 DEF ServedQuietly
  <2> QED
    BY <1>1, <2>1, <2>2 DEF ServeExchange
<1>2. CASE ServeHandshake(cmd)
  <2>1. CASE ServeHello("EHLO", NewServer(TRUE))
    <3>1. /\ NewServer(TRUE) \in Server /\ NewServer(TRUE).open = "none"
          /\ NewServer(TRUE).rcpts = {} /\ NewServer(TRUE).mode # "data"
      BY DEF NewServer, Server, Sender, Recipients, Announced
    <3> QED
      BY <2>1, <3>1, HelloServedQuietly
  <2>2. CASE UNCHANGED <<replies, serverVars>>
    BY <2>2 DEF serverVars, ServedQuietly
  <2> QED
    BY <1>2, <2>1, <2>2 DEF ServeHandshake
<1>3. CASE ServeCommand(cmd)
  <2>1. CASE ServeHello(cmd.verb, server)
    BY <2>1, HelloServedQuietly
  <2>2. CASE cmd.verb = "AUTH" /\ ServeAuth
    BY <2>2, AuthServedQuietly DEF Credentials
  <2>3. CASE Answer("CONNECT", 220, 554) /\ UNCHANGED <<up, serverVars>>
    <3>1. PICK r : replies' = Append(replies, r) /\ r.code \in {220, 554}
      <4>1. Code(220).code = 220 /\ Code(554).code = 554
        BY DEF Code
      <4> QED
        BY <2>3, <4>1 DEF Answer
    <3> QED
      BY <2>3, <3>1 DEF serverVars, ServedQuietly
  <2>4. CASE /\ Answer("STARTTLS", 220, 454) /\ delivered' = delivered
             /\ server' = IF Accepted THEN [server EXCEPT !.mode = "tls"] ELSE server
    <3>1. PICK r : replies' = Append(replies, r) /\ r.code \in {220, 454}
      <4>1. Code(220).code = 220 /\ Code(454).code = 454
        BY DEF Code
      <4> QED
        BY <2>4, <4>1 DEF Answer
    <3>2. server'.open = "none" /\ server'.rcpts = {} /\ server'.mode # "data"
      BY <2>4 DEF Server
    <3> QED
      BY <2>4, <3>1, <3>2 DEF ServedQuietly
  <2>5. CASE UNCHANGED <<replies, serverVars>>
    BY <2>5 DEF serverVars, ServedQuietly
  <2>6. CASE /\ cmd.verb = "RESPONSE" /\ UNCHANGED serverVars
             /\ replies' = replies \o IF cmd.verb = "TEXT" THEN <<Code(500), Code(500)>>
                                      ELSE <<Code(500)>>
    <3>1. replies' = replies \o <<Code(500)>>
      BY <2>6
    <3>2. replies' = Append(replies, Code(500)) /\ Code(500).code = 500
      BY <3>1, CodeIsReply DEF Codes, Code
    <3> QED
      BY <2>6, <3>2 DEF serverVars, ServedQuietly
  <2> QED
    BY <1>3, <2>1, <2>2, <2>3, <2>4, <2>5, <2>6 DEF ServeCommand, OfSend
<1> QED
  BY <1>1, <1>2, <1>3 DEF ServeText

LEMMA ServeKeepsQuiet ==
  ASSUME IInv, IInv', Quiet, Serve
  PROVE  Quiet' /\ UNCHANGED <<result, delivered>>
<1>0. /\ commands \in Seq(Command) /\ commands # <<>> /\ commands' = Tail(commands)
      /\ replies \in Seq(Reply) /\ replies' \in Seq(Reply) /\ Len(replies) \in Nat
      /\ UNCHANGED <<pc, connected, result>> /\ server \in Server
  BY DEF Serve, clientVars, actorVars, IInv, Types, WireTypes, ServerTypes
<1> DEFINE cmd == Head(commands)
<1>1. cmd \in Command /\ cmd = commands[1] /\ 1 \in 1 .. Len(commands)
  BY <1>0
<1>2. cmd.verb \notin OfSend
  BY <1>1 DEF Quiet
<1>3. ServedQuietly(cmd)
  BY <1>0, <1>1, <1>2, AllServedQuietly DEF Quiet, Serve
<1> HIDE DEF cmd
<1>4. /\ Len(commands') = Len(commands) - 1
      /\ \A i \in 1 .. Len(commands') : i + 1 \in 1 .. Len(commands) /\ commands'[i] = commands[i + 1]
  BY <1>0
<1>5. AuthLast'
  <2> SUFFICES ASSUME pc \in Connecting PROVE AuthLast'
    BY <1>0 DEF AuthLast
  <2>1. \A i \in 1 .. Len(replies) : replies[i].code \notin {235, 334}
    BY <1>0 DEF Quiet, AuthLast
  <2>2. \A i \in 1 .. Len(commands) :
          commands[i].verb \in Credentials => i = Len(commands) /\ pc \in Authenticating
    BY DEF Quiet, AuthLast
  <2>3. ASSUME NEW i \in 1 .. Len(commands'), commands'[i].verb \in Credentials
        PROVE  /\ i = Len(commands') /\ pc \in Authenticating
               /\ Len(commands) >= 2 /\ cmd.verb \notin Credentials
    <3>1. i + 1 = Len(commands) /\ pc \in Authenticating
      BY <1>4, <2>2, <2>3
    <3>2. cmd.verb \in Credentials => 1 = Len(commands)
      BY <1>1, <2>2
    <3> DEFINE k == Len(commands)
               l == Len(commands')
    <3>3. i \in 1 .. l /\ i + 1 = k /\ l = k - 1
      BY <1>4, <3>1
    <3>5. k \in Nat
      BY <1>0
    <3>6. cmd.verb \in Credentials => 1 = k
      BY <3>2
    <3> HIDE DEF k, l
    <3>4. i = l /\ k >= 2 /\ cmd.verb \notin Credentials
      BY <3>3, <3>5, <3>6
    <3> QED
      BY <3>1, <3>4 DEF k, l
  <2>4. CASE \A i \in 1 .. Len(replies') : replies'[i].code \notin {235, 334}
    BY <1>0, <2>3, <2>4 DEF AuthLast
  <2>5. CASE ~(\A i \in 1 .. Len(replies') : replies'[i].code \notin {235, 334})
    <3>1. replies' # replies
      <4> SUFFICES ASSUME replies' = replies
                   PROVE  \A i \in 1 .. Len(replies') : replies'[i].code \notin {235, 334}
        BY <2>5
      <4> QED
        BY <2>1
    <3>2. PICK r : /\ replies' = Append(replies, r)
                   /\ r.code \in {235, 334} =>
                        /\ cmd.verb \in Credentials
                        /\ r.code = 235 => server'.mode = "command"
      BY <1>3, <3>1, Zenon DEF ServedQuietly
    <3>3. /\ Len(replies') = Len(replies) + 1 /\ replies'[Len(replies) + 1] = r
          /\ \A i \in 1 .. Len(replies) : replies'[i] = replies[i]
      BY <1>0, <3>2
    <3>4. ASSUME NEW i \in 1 .. Len(replies'), replies'[i].code \in {235, 334}
          PROVE  i = Len(replies') /\ r.code = replies'[i].code
      BY <1>0, <2>1, <3>3, <3>4
    <3>5. cmd.verb \in Credentials
      BY <2>5, <3>2, <3>4
    <3>6. Len(commands) = 1 /\ pc \in Authenticating
      BY <1>1, <2>2, <3>5
    <3>7. Len(commands') = 0 /\ commands' = <<>>
      BY <1>0, <1>4, <3>6
    <3>8. ASSUME NEW i \in 1 .. Len(replies'), replies'[i].code \in {235, 334}
          PROVE  i = Len(replies') /\ (replies'[i].code = 235 => server'.mode = "command")
      BY <3>2, <3>4, <3>8
    <3>9. \A i \in 1 .. Len(commands') : FALSE
      BY <3>7
    <3> QED
      BY <1>0, <3>6, <3>7, <3>8, <3>9 DEF AuthLast
  <2> QED
    BY <2>4, <2>5
<1>6. Quiet'
  BY <1>0, <1>3, <1>4, <1>5 DEF Quiet, ServedQuietly
<1> QED
  BY <1>0, <1>3, <1>6 DEF ServedQuietly

----------------------------------------------------------------------------
(***************************************************************************)
(* The server, after beConnect has returned nil.                           *)
(***************************************************************************)

\* The server takes in the first command, and the connection stays.
Taken == up /\ up' = up /\ commands # <<>> /\ commands' = Tail(commands)

LEMMA TakenShifts ==
  ASSUME WireTypes, Taken
  PROVE  /\ commands[1] \in Command /\ 1 \in 1 .. Len(commands) /\ Len(commands) \in Nat
         /\ commands' \in Seq(Command) /\ Len(commands') = Len(commands) - 1
         /\ \A i \in 1 .. Len(commands') :
              i + 1 \in 1 .. Len(commands) /\ i + 1 # 1 /\ commands'[i] = commands[i + 1]
         /\ commands' # <<>> => commands'[Len(commands')] = commands[Len(commands)]
BY DEF WireTypes, Taken

\* No text is behind another command.
LEMMA NoTextLeft ==
  ASSUME WireTypes, Taken, TextFirst
  PROVE  \A i \in 1 .. Len(commands') : commands'[i].verb # "TEXT"
BY TakenShifts DEF TextFirst

\* The command gets one reply.
LEMMA DueServed ==
  ASSUME WireTypes, WireTypes', Taken, server.mode = "command", server'.mode = "command",
         NEW reply, replies' = Append(replies, reply)
  PROVE  /\ Answering /\ Answering' /\ ~TextComes /\ ~TextComes'
         /\ Len(replies) \in Nat /\ Len(Due) \in Nat /\ Len(Due') = Len(Due)
         /\ Len(replies') = Len(replies) + 1 /\ replies'[Len(replies) + 1] = reply
         /\ \A i \in 1 .. Len(replies) : replies'[i] = replies[i]
         /\ Len(replies) + 1 \in 1 .. Len(Due)
         /\ Due[Len(replies) + 1] = Hope(commands[1].verb)
         /\ Due'[Len(replies) + 1] = Sign(reply.code)
         /\ \A p \in 1 .. Len(Due) : p # Len(replies) + 1 => Due'[p] = Due[p]
<1>0. DueMarks /\ DueMarks'
  BY DueIs, DueIsPrimed
<1>1. /\ Answering /\ Answering' /\ ~TextComes /\ ~TextComes'
  BY DEF Taken, Answering, Silent, TextComes
<1>2. /\ commands[1] \in Command /\ 1 \in 1 .. Len(commands) /\ Len(commands) \in Nat
      /\ Len(commands') = Len(commands) - 1
      /\ \A i \in 1 .. Len(commands') : i + 1 \in 1 .. Len(commands) /\ commands'[i] = commands[i + 1]
  BY TakenShifts
<1>3. /\ replies \in Seq(Reply) /\ replies' \in Seq(Reply)
      /\ Len(replies') = Len(replies) + 1 /\ replies'[Len(replies) + 1] = reply
      /\ \A i \in 1 .. Len(replies) : replies'[i] = replies[i]
  BY DEF WireTypes
<1> DEFINE r == Len(replies)
           c == Len(commands)
<1>4. /\ r \in Nat /\ c \in Nat /\ c >= 1
      /\ Len(replies') = r + 1 /\ Len(commands') = c - 1
      /\ Len(Due) = r + c /\ Len(Due') = (r + 1) + (c - 1)
  BY <1>0, <1>1, <1>2, <1>3 DEF DueMarks
<1>5. /\ \A p \in 1 .. r : Due[p] = Sign(replies[p].code)
      /\ \A p \in 1 .. c : Due[r + p] = Hope(commands[p].verb)
      /\ \A p \in 1 .. r + 1 : Due'[p] = Sign(replies'[p].code)
      /\ \A p \in 1 .. c - 1 : Due'[(r + 1) + p] = Hope(commands'[p].verb)
  BY <1>0, <1>1, <1>4 DEF DueMarks
<1>6. /\ \A p \in 1 .. r : replies'[p] = replies[p]
      /\ \A p \in 1 .. c - 1 : commands'[p] = commands[p + 1]
      /\ replies'[r + 1] = reply
  BY <1>2, <1>3
<1> HIDE DEF r, c
<1>7. ASSUME NEW p \in 1 .. r + c, p # r + 1
      PROVE  Due'[p] = Due[p]
  <2>1. CASE p \in 1 .. r
    <3>1. p \in 1 .. r + 1
      BY <1>4, <2>1
    <3> QED
      BY <1>5, <1>6, <2>1, <3>1
  <2>2. CASE p \notin 1 .. r
    <3> DEFINE q == p - (r + 1)
    <3>1. q \in 1 .. c - 1 /\ q + 1 \in 1 .. c /\ p = (r + 1) + q /\ p = r + (q + 1)
      BY <1>4, <1>7, <2>2
    <3> HIDE DEF q
    <3>2. Due'[(r + 1) + q] = Hope(commands'[q].verb) /\ Due[r + (q + 1)] = Hope(commands[q + 1].verb)
      BY <1>5, <3>1
    <3> QED
      BY <1>6, <3>1, <3>2
  <2> QED
    BY <2>1, <2>2
<1>8. r + 1 \in 1 .. r + c /\ 1 \in 1 .. c /\ (r + 1) + (c - 1) = r + c /\ r + 1 \in 1 .. r + 1 /\ r + c \in Nat
  BY <1>4
<1>9. Due[r + 1] = Hope(commands[1].verb) /\ Due'[r + 1] = Sign(reply.code)
  BY <1>5, <1>6, <1>8
<1> QED
  BY <1>1, <1>3, <1>4, <1>7, <1>8, <1>9 DEF r, c

\* A command gets a reply that is no better than was to be hoped for.
LEMMA ServeLess ==
  ASSUME IInv, IInv', SendPhase, Taken, server.mode = "command", server'.mode = "command",
         NEW reply, replies' = Append(replies, reply),
         commands[1].verb \in {"MAIL", "RCPT", "DATA"},
         reply.code = 250 => /\ commands[1].verb = "RCPT" /\ server.open # "none"
                             /\ server'.rcpts = server.rcpts \cup {<<commands[1].of, commands[1].n>>},
         reply.code # 354,
         server'.open = server.open, server.open = "none" => server'.rcpts = {},
         UNCHANGED <<pc, caller, delivered>>
  PROVE  SendPhase'
<1>0. WireTypes /\ WireTypes'
  BY DEF IInv, Types
<1>1. /\ Answering /\ Answering' /\ ~TextComes /\ ~TextComes'
      /\ Len(replies) \in Nat /\ Len(Due) \in Nat /\ Len(Due') = Len(Due)
      /\ Len(replies') = Len(replies) + 1 /\ replies'[Len(replies) + 1] = reply
      /\ \A i \in 1 .. Len(replies) : replies'[i] = replies[i]
      /\ Due[Len(replies) + 1] = Hope(commands[1].verb)
      /\ Due'[Len(replies) + 1] = Sign(reply.code)
      /\ \A p \in 1 .. Len(Due) : p # Len(replies) + 1 => Due'[p] = Due[p]
  BY <1>0, DueServed
<1>2. \A p \in 1 .. Len(Due) : Due'[p] = Due[p] \/ Due'[p] = "no"
  <2>1. Sign(reply.code) = "no" \/ Sign(reply.code) = Hope(commands[1].verb)
    BY DEF Sign, Hope
  <2> QED
    BY <1>1, <2>1
<1>3. /\ commands[1] \in Command /\ 1 \in 1 .. Len(commands) /\ Len(commands) \in Nat
      /\ commands' \in Seq(Command) /\ Len(commands') = Len(commands) - 1
      /\ \A i \in 1 .. Len(commands') : i + 1 \in 1 .. Len(commands) /\ commands'[i] = commands[i + 1]
      /\ commands' # <<>> => commands'[Len(commands')] = commands[Len(commands)]
  BY <1>0, TakenShifts
<1>4. \A i \in 1 .. Len(commands') : commands'[i].verb # "TEXT"
  BY <1>0, NoTextLeft DEF SendPhase, Contents
<1>5. commands # <<>>
  BY DEF Taken
<1>6. Opened' <=> Opened
  BY <1>1 DEF Opened
<1>7. InSession'
  <2>1. \A i \in 1 .. Len(commands') : commands'[i].verb \in OfSend \cup {"QUIT"}
    BY <1>3, SMTT(30) DEF SendPhase, InSession
  <2>2. pc \notin Connecting
    BY DEF SendPhase, InSession
  <2> QED
    BY <2>1, <2>2 DEF InSession
<1>8. NoneThrough'
  <2> SUFFICES ASSUME NoRun(Due) PROVE NoRun(Due')
    BY <1>6 DEF SendPhase, Order, NoneThrough
  <2> DEFINE l == Len(Due)
  <2>1. /\ l \in Nat /\ Len(Due') = l
        /\ \A p \in 1 .. l : Due'[p] = Due[p] \/ Due'[p] = "no"
        /\ \A p \in 1 .. l : p + 2 <= l => ~(Due[p] = "yes" /\ Due[p + 1] = "yes" /\ Due[p + 2] # "no")
    BY <1>1, <1>2 DEF NoRun
  <2> HIDE DEF l
  <2>2. ASSUME NEW p \in 1 .. l, p + 2 <= l, Due'[p] = "yes", Due'[p + 1] = "yes", Due'[p + 2] # "no"
        PROVE  FALSE
    <3>1. p + 1 \in 1 .. l /\ p + 2 \in 1 .. l
      BY <2>1, <2>2
    <3>2. Due[p] = "yes" /\ Due[p + 1] = "yes" /\ Due[p + 2] # "no"
      BY <2>1, <2>2, <3>1
    <3> QED
      BY <2>1, <2>2, <3>2
  <2> QED
    BY <2>1, <2>2 DEF NoRun
<1>9. NotOpened'
  <2> SUFFICES ASSUME ~Opened' PROVE NotOpened'
    BY DEF NotOpened
  <2>1. /\ OneYes(Due) /\ NoGo(Due) /\ pc # "data"
        /\ pc = "rcpt" => caller.i = 1 /\ \A i \in 1 .. Len(replies) : replies[i].code # 250
    BY <1>6 DEF SendPhase, Order, NotOpened
  <2>2. OneYes(Due') /\ NoGo(Due')
    BY <1>1, <1>2, <2>1 DEF OneYes, NoGo
  <2>3. reply.code # 250
    BY <1>1 DEF Opened
  <2>4. pc = "rcpt" => \A i \in 1 .. Len(replies') : replies'[i].code # 250
    <3>1. \A i \in 1 .. Len(replies') : i \in 1 .. Len(replies) \/ i = Len(replies) + 1
      BY <1>1
    <3> QED
      BY <1>1, <2>1, <2>3, <3>1
  <2> QED
    BY <1>1, <2>1, <2>2, <2>4 DEF NotOpened
<1>10. RcptRanks' /\ MailRanks' /\ OwnGo'
  <2> DEFINE l == Len(Due)
  <2>1. /\ l \in Nat /\ Len(Due') = l
        /\ \A p \in 1 .. l : Due'[p] = Due[p] \/ Due'[p] = "no"
    BY <1>1, <1>2
  <2>2. RcptRanks'
    <3> SUFFICES ASSUME Opened, pc = "rcpt", l >= 3
                 PROVE  /\ caller.i <= 2
                        /\ caller.i = 1 => Due'[1] # "yes" \/ (Due'[2] # "yes" /\ Due'[l - 1] # "yes")
                        /\ caller.i = 2 => Due'[1] # "yes"
      BY <1>6, <2>1 DEF RcptRanks
    <3>1. /\ caller.i <= 2
          /\ caller.i = 1 => Due[1] # "yes" \/ (Due[2] # "yes" /\ Due[l - 1] # "yes")
          /\ caller.i = 2 => Due[1] # "yes"
      BY <1>1 DEF SendPhase, Order, RcptRanks
    <3> HIDE DEF l
    <3>2. 1 \in 1 .. l /\ 2 \in 1 .. l /\ l - 1 \in 1 .. l
      BY <2>1
    <3>3. /\ Due'[1] = "yes" => Due[1] = "yes"
          /\ Due'[2] = "yes" => Due[2] = "yes"
          /\ Due'[l - 1] = "yes" => Due[l - 1] = "yes"
      BY <2>1, <3>2
    <3> QED
      BY <3>1, <3>3
  <2>3. MailRanks'
    <3> SUFFICES ASSUME Opened, pc = "mail", Due'[l] = "yes"
                 PROVE  \A p, q \in 1 .. l - 1 : Due'[p] = "yes" /\ Due'[q] = "yes" => p = q
      BY <1>6, <2>1 DEF MailRanks
    <3>1. Due[l] = "yes" => \A p, q \in 1 .. l - 1 : Due[p] = "yes" /\ Due[q] = "yes" => p = q
      BY <1>1 DEF SendPhase, Order, MailRanks
    <3>2. l >= 1
      BY <1>1 DEF SendPhase, Order, OwnLast
    <3> HIDE DEF l
    <3>3. l \in 1 .. l /\ \A p \in 1 .. l - 1 : p \in 1 .. l
      BY <2>1, <3>2
    <3> QED
      BY <2>1, <3>1, <3>3
  <2>4. OwnGo'
    <3>1. Len(replies') + Len(commands') = Len(replies) + Len(commands)
      BY <1>1, <1>3
    <3>2. /\ pc = "rcpt" /\ l >= 2 => ~(Due[1] = "yes" /\ Due[2] = "go")
          /\ pc = "data" /\ l >= 1 /\ Due[1] = "go" => Len(replies) + Len(commands) = 1
      BY DEF SendPhase, Order, OwnGo
    <3>3. /\ l >= 1 => 1 \in 1 .. l
          /\ l >= 2 => 1 \in 1 .. l /\ 2 \in 1 .. l
      BY <2>1
    <3> HIDE DEF l
    <3>4. /\ l >= 2 /\ Due'[1] = "yes" => Due[1] = "yes"
          /\ l >= 2 /\ Due'[2] = "go" => Due[2] = "go"
          /\ l >= 1 /\ Due'[1] = "go" => Due[1] = "go"
      BY <2>1, <3>3
    <3> QED
      BY <2>1, <3>1, <3>2, <3>4 DEF OwnGo
  <2> QED
    BY <2>2, <2>3, <2>4
<1>11. OwnLast'
  BY <1>1, <1>3, <1>5 DEF SendPhase, Order, OwnLast
<1>12. TextFirst'
  BY <1>4 DEF TextFirst
<1>13. pc \notin {"message", "again"}
  <2>1. commands[1].verb # "TEXT"
    OBVIOUS
  <2> QED
    BY <1>3, <1>5, <2>1 DEF SendPhase, Contents, FirstText, SecondText, Of
<1>14. Alone'
  <2> SUFFICES ASSUME Len(replies') + Len(commands') = 1 PROVE Alone'
    BY DEF Alone
  <2>1. Len(replies) = 0 /\ Len(commands) = 1 /\ Len(commands') = 0 /\ Len(replies) + Len(commands) = 1
    BY <1>1, <1>3
  <2>2. commands' = <<>> /\ replies'[1] = reply /\ up
    BY <1>1, <1>3, <2>1 DEF Taken
  <2>3. CASE pc = "mail"
    <3>1. commands[1].verb = "MAIL"
      BY <1>5, <2>1, <2>2, <2>3 DEF SendPhase, Contents, Alone
    <3>2. reply.code # 250
      BY <3>1
    <3> QED
      BY <2>2, <2>3, <3>2 DEF Alone
  <2>4. CASE pc = "rcpt"
    <3>1. /\ server.open = caller.send /\ commands[1] = Of("RCPT", caller.send, caller.i)
          /\ server.rcpts = Upto(caller.send, caller.i - 1)
      BY <1>5, <2>1, <2>2, <2>4 DEF SendPhase, Contents, Alone
    <3>2. Upto(caller.send, caller.i) = Upto(caller.send, caller.i - 1) \cup {<<caller.send, caller.i>>}
      <4>1. caller.i \in 1 .. caller.n /\ caller.n \in Nat
        BY <2>4, BoundsAssumption DEF SendPhase, Order, OwnLast, IInv, Types, ClientTypes, Caller
      <4>2. 1 .. caller.i = (1 .. caller.i - 1) \cup {caller.i}
        BY <4>1
      <4> QED
        BY <4>2 DEF Upto
    <3>3. reply.code = 250 => server'.rcpts = Upto(caller.send, caller.i)
      BY <3>1, <3>2 DEF Of
    <3> QED
      BY <2>2, <2>4, <3>1, <3>3 DEF Alone
  <2>5. CASE pc = "data"
    BY <2>2, <2>5 DEF Alone
  <2> QED
    BY <2>3, <2>4, <2>5 DEF Alone
<1> QED
  BY <1>7, <1>8, <1>9, <1>10, <1>11, <1>12, <1>13, <1>14
     DEF SendPhase, Order, Contents, FirstText, SecondText

\* MAIL starts a transaction.  At most one 250 was due before.
LEMMA MailAccepted ==
  ASSUME IInv, IInv', SendPhase, Taken, server.mode = "command", commands[1].verb = "MAIL",
         server.open = "none", replies' = Append(replies, Code(250)),
         server' = [server EXCEPT !.open = commands[1].of, !.rcpts = {}],
         UNCHANGED <<pc, caller, delivered>>
  PROVE  SendPhase'
<1>0. WireTypes /\ WireTypes' /\ server \in Server /\ Code(250).code = 250
  BY DEF IInv, Types, ServerTypes, Code
<1>1. server'.mode = "command" /\ server'.open = commands[1].of /\ server'.rcpts = {}
  BY <1>0 DEF Server
<1>2. /\ Answering /\ Answering' /\ ~TextComes /\ ~TextComes'
      /\ Len(replies) \in Nat /\ Len(Due) \in Nat /\ Len(Due') = Len(Due)
      /\ Len(replies') = Len(replies) + 1 /\ replies'[Len(replies) + 1] = Code(250)
      /\ \A i \in 1 .. Len(replies) : replies'[i] = replies[i]
      /\ Len(replies) + 1 \in 1 .. Len(Due)
      /\ Due[Len(replies) + 1] = Hope(commands[1].verb)
      /\ Due'[Len(replies) + 1] = Sign(Code(250).code)
      /\ \A p \in 1 .. Len(Due) : p # Len(replies) + 1 => Due'[p] = Due[p]
  BY <1>0, <1>1, DueServed
<1>3. /\ commands[1] \in Command /\ 1 \in 1 .. Len(commands) /\ Len(commands) \in Nat
      /\ commands' \in Seq(Command) /\ Len(commands') = Len(commands) - 1
      /\ \A i \in 1 .. Len(commands') : i + 1 \in 1 .. Len(commands) /\ commands'[i] = commands[i + 1]
      /\ commands' # <<>> => commands'[Len(commands')] = commands[Len(commands)]
  BY <1>0, TakenShifts
<1>4. \A i \in 1 .. Len(commands') : commands'[i].verb # "TEXT"
  BY <1>0, NoTextLeft DEF SendPhase, Contents
<1>5. commands # <<>> /\ ~Opened
  BY DEF Taken, Opened
<1>6. Opened'
  <2>1. commands[1].of \in Send
    BY <1>0, <1>3 DEF WireTypes, OfSend
  <2> QED
    BY <1>1, <1>2, <2>1, SendAssumption DEF Opened
<1>7. /\ OneYes(Due) /\ NoGo(Due) /\ pc # "data"
      /\ pc = "rcpt" => caller.i = 1 /\ \A i \in 1 .. Len(replies) : replies[i].code # 250
  BY <1>5 DEF SendPhase, Order, NotOpened
<1> DEFINE k == Len(replies) + 1
           l == Len(Due)
<1>8. /\ l \in Nat /\ k \in 1 .. l /\ Len(Due') = l
      /\ Due[k] = "no" /\ Due'[k] = "yes"
      /\ \A p \in 1 .. l : p # k => Due'[p] = Due[p]
      /\ \A p, q \in 1 .. l : Due[p] = "yes" /\ Due[q] = "yes" => p = q
      /\ \A p \in 1 .. l : Due[p] # "go"
  BY <1>0, <1>2, <1>7 DEF Hope, Sign, OneYes, NoGo
<1>9. pc = "rcpt" \/ pc = "mail" => commands[Len(commands)].verb = (IF pc = "rcpt" THEN "RCPT" ELSE "MAIL")
  BY <1>2, <1>5 DEF SendPhase, Order, OwnLast
<1>10. pc = "rcpt" \/ pc = "mail" => l >= 1 /\ Due[l] = (IF pc = "rcpt" THEN "yes" ELSE "no")
  <2>1. DueMarks
    BY <1>0, DueIs
  <2> DEFINE c == Len(commands)
  <2>2. /\ c \in Nat /\ c >= 1 /\ l = Len(replies) + c
        /\ \A p \in 1 .. c : Due[Len(replies) + p] = Hope(commands[p].verb)
    BY <1>2, <1>3, <2>1 DEF DueMarks
  <2>3. pc = "rcpt" \/ pc = "mail" => commands[c].verb = (IF pc = "rcpt" THEN "RCPT" ELSE "MAIL")
    BY <1>9
  <2> HIDE DEF c, l
  <2>4. l >= 1 /\ Due[l] = Hope(commands[c].verb)
    BY <1>2, <2>2
  <2> QED
    BY <2>3, <2>4 DEF Hope
<1>11. pc \in {"rcpt", "mail"} /\ Len(replies') + Len(commands') = 1 =>
         /\ commands' = <<>> /\ replies'[1] = Code(250) /\ pc = "mail" /\ commands[1].of = caller.send
  <2> SUFFICES ASSUME pc \in {"rcpt", "mail"}, Len(replies') + Len(commands') = 1
               PROVE  /\ commands' = <<>> /\ replies'[1] = Code(250)
                      /\ pc = "mail" /\ commands[1].of = caller.send
    OBVIOUS
  <2>1. Len(replies) = 0 /\ Len(commands) = 1 /\ Len(commands') = 0 /\ Len(replies) + Len(commands) = 1
    BY <1>2, <1>3
  <2>2. commands' = <<>> /\ replies'[1] = Code(250) /\ up
    BY <1>2, <1>3, <2>1 DEF Taken
  <2>3. pc = "mail"
    BY <1>9, <2>1
  <2>4. commands[1].of = caller.send
    BY <1>5, <2>1, <2>2, <2>3 DEF SendPhase, Contents, Alone
  <2> QED
    BY <2>2, <2>3, <2>4
<1> HIDE DEF k, l
<1>12. InSession'
  <2>1. \A i \in 1 .. Len(commands') : commands'[i].verb \in OfSend \cup {"QUIT"}
    BY <1>3 DEF SendPhase, InSession
  <2>2. pc \notin Connecting
    BY DEF SendPhase, InSession
  <2> QED
    BY <1>1, <2>1, <2>2 DEF InSession
<1>13. \A p \in 1 .. l : Due'[p] # "go" /\ (Due'[p] = "yes" => p = k \/ Due[p] = "yes")
  BY <1>8
<1>14. NoneThrough'
  <2>1. ASSUME NEW p \in 1 .. l, p + 2 <= l, Due'[p] = "yes", Due'[p + 1] = "yes", Due'[p + 2] = "yes"
        PROVE  FALSE
    <3>1. p + 1 \in 1 .. l /\ p + 2 \in 1 .. l
      BY <1>8, <2>1
    <3>2. (p = k \/ Due[p] = "yes") /\ (p + 1 = k \/ Due[p + 1] = "yes") /\ (p + 2 = k \/ Due[p + 2] = "yes")
      BY <1>13, <2>1, <3>1
    <3> QED
      BY <1>8, <3>1, <3>2
  <2>2. ASSUME NEW p \in 1 .. l PROVE Due'[p] \in {"yes", "no"}
    <3>1. DueMarks'
      BY <1>0, DueIsPrimed
    <3>2. Due'[p] \in {"yes", "no", "go"}
      BY <1>8 DEF Due, Sign, Hope
    <3> QED
      BY <1>13, <3>2
  <2> QED
    BY <1>8, <2>1, <2>2 DEF NoneThrough, NoRun
<1>15. RcptRanks'
  <2> SUFFICES ASSUME pc = "rcpt", l >= 3
               PROVE  Due'[1] # "yes" \/ (Due'[2] # "yes" /\ Due'[l - 1] # "yes")
    BY <1>7, <1>8 DEF RcptRanks
  <2>1. Due[l] = "yes" /\ l \in 1 .. l /\ 1 \in 1 .. l /\ 2 \in 1 .. l /\ l - 1 \in 1 .. l
    BY <1>8, <1>10
  <2>2. /\ Due'[1] = "yes" => 1 = k
        /\ Due'[2] = "yes" => 2 = k
        /\ Due'[l - 1] = "yes" => l - 1 = k
    BY <1>8, <1>13, <2>1
  <2> QED
    BY <1>8, <2>2
<1>16. MailRanks'
  <2> SUFFICES ASSUME pc = "mail", Due'[l] = "yes"
               PROVE  \A p, q \in 1 .. l - 1 : Due'[p] = "yes" /\ Due'[q] = "yes" => p = q
    BY <1>8 DEF MailRanks
  <2>1. l = k
    BY <1>8, <1>10, <1>13
  <2>2. \A p \in 1 .. l - 1 : p \in 1 .. l /\ p # k
    BY <1>8, <2>1
  <2> QED
    BY <1>8, <2>2
<1>17. OwnGo'
  <2>1. l >= 2 => Due'[2] # "go"
    BY <1>8, <1>13
  <2> QED
    BY <1>7, <1>8, <2>1 DEF OwnGo
<1>18. OwnLast'
  BY <1>2, <1>3, <1>5 DEF SendPhase, Order, OwnLast
<1>19. NotOpened' /\ TextFirst'
  BY <1>4, <1>6 DEF NotOpened, TextFirst
<1>20. pc \notin {"message", "again"}
  BY <1>3, <1>5 DEF SendPhase, Contents, FirstText, SecondText, Of
<1>21. Alone'
  BY <1>0, <1>1, <1>7, <1>11 DEF Alone
<1> QED
  BY <1>12, <1>14, <1>15, <1>16, <1>17, <1>18, <1>19, <1>20, <1>21
     DEF SendPhase, Order, Contents, FirstText, SecondText

\* DATA has its 354: until the text, every command will be read as one.
LEMMA DataAccepted ==
  ASSUME IInv, IInv', SendPhase, Taken, server.mode = "command", commands[1].verb = "DATA",
         server.rcpts # {}, replies' = Append(replies, Code(354)),
         server' = [server EXCEPT !.mode = "data", !.junk = FALSE],
         UNCHANGED <<pc, caller, delivered>>
  PROVE  SendPhase'
<1>0. WireTypes /\ WireTypes' /\ server \in Server /\ DueMarks /\ DueMarks'
  BY DueIs, DueIsPrimed DEF IInv, Types, ServerTypes
<1>1. /\ server'.mode = "data" /\ server'.junk = FALSE
      /\ server'.open = server.open /\ server'.rcpts = server.rcpts
      /\ server.open # "none" /\ Code(354).code = 354
  BY <1>0 DEF Server, SendPhase, InSession, Code
<1>2. /\ commands[1] \in Command /\ 1 \in 1 .. Len(commands) /\ Len(commands) \in Nat
      /\ Len(commands') = Len(commands) - 1
      /\ \A i \in 1 .. Len(commands') : i + 1 \in 1 .. Len(commands) /\ commands'[i] = commands[i + 1]
  BY <1>0, TakenShifts
<1>3. \A i \in 1 .. Len(commands') : commands'[i].verb # "TEXT"
  BY <1>0, NoTextLeft DEF SendPhase, Contents
<1>4. /\ commands # <<>> /\ ~TextComes /\ ~TextComes' /\ Silent' /\ ~Answering' /\ Answering
  <2>1. ~TextComes'
    <3> SUFFICES ASSUME commands' # <<>> PROVE commands'[1].verb # "TEXT"
      BY DEF TextComes
    <3>1. commands' \in Seq(Command)
      BY <1>0 DEF WireTypes
    <3>2. 1 \in 1 .. Len(commands')
      BY <3>1
    <3> QED
      BY <1>3, <3>2
  <2> QED
    BY <1>1, <2>1 DEF Taken, TextComes, Silent, Answering
<1>5. Opened /\ Opened'
  BY <1>1, <1>4 DEF Opened
<1>6. /\ Len(replies) \in Nat /\ Len(replies') = Len(replies) + 1
      /\ replies'[Len(replies) + 1] = Code(354)
      /\ \A i \in 1 .. Len(replies) : replies'[i] = replies[i]
  BY <1>0 DEF WireTypes
<1> DEFINE k == Len(replies) + 1
           l == Len(Due)
<1>7. /\ l \in Nat /\ k \in 1 .. l /\ Len(Due') = k /\ k \in Nat
      /\ \A p \in 1 .. k : Due'[p] = Due[p]
  <2>1. l = Len(replies) + Len(commands) /\ Len(Due') = k
    BY <1>0, <1>4, <1>6 DEF DueMarks
  <2>2. ASSUME NEW p \in 1 .. Len(replies) PROVE Due'[p] = Due[p]
    <3>1. p \in 1 .. Len(replies') /\ replies'[p] = replies[p]
      BY <1>6
    <3>2. Due'[p] = Sign(replies'[p].code) /\ Due[p] = Sign(replies[p].code)
      BY <1>0, <3>1, ZenonT(30) DEF DueMarks
    <3> QED
      BY <3>1, <3>2
  <2>3. Due'[k] = Sign(354) /\ Due[k] = Hope("DATA")
    <3>1. k \in 1 .. Len(replies')
      BY <1>6
    <3>2. Due'[k] = Sign(replies'[k].code)
      BY <1>0, <3>1 DEF DueMarks
    <3>3. Due[Len(replies) + 1] = Hope(commands[1].verb)
      BY <1>0, <1>2, <1>4 DEF DueMarks
    <3> QED
      BY <1>1, <1>6, <3>2, <3>3
  <2>4. Due'[k] = Due[k]
    BY <2>3 DEF Sign, Hope
  <2>5. l \in Nat /\ k \in Nat /\ k \in 1 .. l
    BY <1>2, <1>6, <2>1
  <2> HIDE DEF l
  <2>6. \A p \in 1 .. k : p \in 1 .. Len(replies) \/ p = k
    BY <1>6
  <2> HIDE DEF k
  <2> QED
    BY <2>1, <2>2, <2>4, <2>5, <2>6
<1>8. Len(replies') + Len(commands') = Len(replies) + Len(commands)
  BY <1>2, <1>6
<1> HIDE DEF k, l
<1>9. NoneThrough'
  <2>1. NoRun(Due)
    BY <1>5 DEF SendPhase, Order, NoneThrough
  <2>2. ASSUME NEW p \in 1 .. k, p + 2 <= k
        PROVE  ~(Due'[p] = "yes" /\ Due'[p + 1] = "yes" /\ Due'[p + 2] # "no")
    <3>1. p \in 1 .. l /\ p + 2 <= l /\ p + 1 \in 1 .. k /\ p + 2 \in 1 .. k
      BY <1>7, <2>2
    <3>2. ~(Due[p] = "yes" /\ Due[p + 1] = "yes" /\ Due[p + 2] # "no")
      BY <2>1, <3>1 DEF NoRun, l
    <3> QED
      BY <1>7, <3>1, <3>2
  <2> QED
    BY <1>7, <2>2 DEF NoneThrough, NoRun
<1>10. OwnGo'
  <2>1. /\ pc = "rcpt" /\ l >= 2 => ~(Due[1] = "yes" /\ Due[2] = "go")
        /\ pc = "data" /\ l >= 1 /\ Due[1] = "go" => Len(replies) + Len(commands) = 1
    BY DEF SendPhase, Order, OwnGo, l
  <2>2. /\ Due'[1] = Due[1] /\ l >= 1
        /\ k >= 2 => Due'[2] = Due[2] /\ l >= 2
    BY <1>7
  <2> QED
    BY <1>7, <1>8, <2>1, <2>2 DEF OwnGo
<1>11. OwnLast' /\ RcptRanks' /\ MailRanks' /\ NotOpened'
  BY <1>4, <1>5 DEF SendPhase, Order, OwnLast, RcptRanks, MailRanks, NotOpened
<1>12. InSession'
  <2>1. \A i \in 1 .. Len(commands') : commands'[i].verb \in OfSend \cup {"QUIT"}
    BY <1>2 DEF SendPhase, InSession
  <2>2. pc \notin Connecting
    BY DEF SendPhase, InSession
  <2> QED
    BY <1>1, <2>1, <2>2 DEF InSession
<1>13. pc \notin {"message", "again"}
  BY <1>2, <1>4 DEF SendPhase, Contents, FirstText, SecondText, Of
<1>14. Alone'
  <2> SUFFICES ASSUME pc = "data", Len(replies') + Len(commands') = 1, replies' # <<>>
               PROVE  /\ commands' = <<>> /\ server.open = caller.send
                      /\ server.rcpts = Upto(caller.send, caller.n)
    BY <1>1 DEF Alone
  <2>1. Len(replies) = 0 /\ Len(commands) = 1 /\ Len(commands') = 0 /\ Len(replies) + Len(commands) = 1
    BY <1>2, <1>6
  <2>2. commands' = <<>> /\ up
    BY <1>0, <2>1 DEF Taken, WireTypes
  <2> QED
    BY <1>4, <2>1, <2>2 DEF SendPhase, Contents, Alone
<1>15. TextFirst'
  BY <1>3 DEF TextFirst
<1> QED
  BY <1>9, <1>10, <1>11, <1>12, <1>13, <1>14, <1>15
     DEF SendPhase, Order, Contents, FirstText, SecondText

\* In data mode the server reads a command as text, and answers nothing.
LEMMA CommandReadAsText ==
  ASSUME IInv, IInv', SendPhase, Taken, server.mode = "data", commands[1].verb # "TEXT",
         server' = [server EXCEPT !.junk = TRUE],
         UNCHANGED <<pc, caller, replies, delivered>>
  PROVE  SendPhase'
<1>0. WireTypes /\ WireTypes' /\ server \in Server /\ DueMarks /\ DueMarks'
  BY DueIs, DueIsPrimed DEF IInv, Types, ServerTypes
<1>1. server'.mode = "data" /\ server'.open = server.open /\ server'.rcpts = server.rcpts
  BY <1>0 DEF Server
<1>2. /\ commands[1] \in Command /\ 1 \in 1 .. Len(commands) /\ Len(commands) \in Nat
      /\ Len(commands') = Len(commands) - 1
      /\ \A i \in 1 .. Len(commands') : i + 1 \in 1 .. Len(commands) /\ commands'[i] = commands[i + 1]
  BY <1>0, TakenShifts
<1>3. \A i \in 1 .. Len(commands') : commands'[i].verb # "TEXT"
  BY <1>0, NoTextLeft DEF SendPhase, Contents
<1>4. /\ commands # <<>> /\ ~TextComes /\ ~TextComes' /\ Silent /\ Silent'
      /\ ~Answering' /\ ~Answering
  <2>1. ~TextComes'
    <3> SUFFICES ASSUME commands' # <<>> PROVE commands'[1].verb # "TEXT"
      BY DEF TextComes
    <3>1. commands' \in Seq(Command)
      BY <1>0 DEF WireTypes
    <3>2. 1 \in 1 .. Len(commands')
      BY <3>1
    <3> QED
      BY <1>3, <3>2
  <2> QED
    BY <1>1, <2>1 DEF Taken, TextComes, Silent, Answering
<1>5. Opened /\ Opened'
  BY <1>1, <1>4 DEF Opened, SendPhase, InSession
<1>6. Due' = Due
  BY <1>4 DEF Due, Live
<1>7. pc \notin {"message", "again"}
  BY <1>2, <1>4 DEF SendPhase, Contents, FirstText, SecondText, Of
<1>8. ~(pc = "data" /\ replies # <<>> /\ replies[1].code = 354)
  <2> SUFFICES ASSUME pc = "data", replies # <<>>, replies[1].code = 354 PROVE FALSE
    OBVIOUS
  <2>1. replies \in Seq(Reply)
    BY <1>0 DEF WireTypes
  <2>2. Len(replies) >= 1 /\ 1 \in 1 .. Len(replies)
    BY <2>1
  <2>3. Due[1] = "go" /\ Len(Due) >= 1
    BY <1>0, <1>4, <2>2 DEF DueMarks, Sign
  <2>4. Len(replies) + Len(commands) = 1
    BY <2>3 DEF SendPhase, Order, OwnGo
  <2> QED
    BY <1>2, <2>2, <2>4
<1>9. InSession'
  <2>1. \A i \in 1 .. Len(commands') : commands'[i].verb \in OfSend \cup {"QUIT"}
    BY <1>2 DEF SendPhase, InSession
  <2>2. pc \notin Connecting
    BY DEF SendPhase, InSession
  <2> QED
    BY <1>1, <1>5, <2>1, <2>2 DEF InSession, Opened
<1>10. OwnGo'
  <2>1. pc = "data" /\ Len(Due) >= 1 => Due[1] # "go"
    <3> SUFFICES ASSUME pc = "data", Len(Due) >= 1, Due[1] = "go" PROVE FALSE
      OBVIOUS
    <3>1. Len(replies) >= 1 /\ Len(replies) \in Nat
      BY <1>0, <1>4 DEF DueMarks
    <3>2. Len(replies) + Len(commands) = 1
      BY DEF SendPhase, Order, OwnGo
    <3> QED
      BY <1>2, <3>1, <3>2
  <2> QED
    BY <1>6, <2>1 DEF SendPhase, Order, OwnGo
<1>11. Order'
  BY <1>4, <1>5, <1>6, <1>10
     DEF SendPhase, Order, OwnLast, NoneThrough, RcptRanks, MailRanks, NotOpened
<1>12. Alone' /\ TextFirst'
  BY <1>1, <1>3, <1>8 DEF Alone, TextFirst
<1> QED
  BY <1>7, <1>9, <1>11, <1>12 DEF SendPhase, Contents, FirstText, SecondText

\* The text ends the data, and the server accepts the message or not.
LEMMA TextTaken ==
  ASSUME IInv, IInv', SendPhase, Taken, server.mode = "data", commands[1].verb = "TEXT",
         NEW code \in {250, 554}, replies' = Append(replies, Code(code)),
         server' = [Reset(server) EXCEPT !.mode = "command"],
         delivered' = IF code = 250
                      THEN delivered \cup {[from |-> server.open, to |-> server.rcpts,
                                            text |-> commands[1].of, n |-> commands[1].n,
                                            junk |-> server.junk]}
                      ELSE delivered,
         UNCHANGED <<pc, caller>>
  PROVE  SendPhase' /\ (AllComposed => AllComposed') /\ delivered \subseteq delivered'
<1>0. /\ WireTypes /\ WireTypes' /\ server \in Server /\ DueMarks /\ DueMarks'
      /\ Code(code).code = code
  BY DueIs, DueIsPrimed DEF IInv, Types, ServerTypes, Code
<1>1. server'.mode = "command" /\ server'.open = "none" /\ server'.rcpts = {}
  BY <1>0 DEF Server, Reset
<1>2. /\ commands[1] \in Command /\ 1 \in 1 .. Len(commands) /\ Len(commands) \in Nat
      /\ commands' \in Seq(Command) /\ Len(commands') = Len(commands) - 1
      /\ \A i \in 1 .. Len(commands') : i + 1 \in 1 .. Len(commands) /\ commands'[i] = commands[i + 1]
      /\ commands' # <<>> => commands'[Len(commands')] = commands[Len(commands)]
  BY <1>0, TakenShifts
<1>3. \A i \in 1 .. Len(commands') : commands'[i].verb # "TEXT"
  BY <1>0, NoTextLeft DEF SendPhase, Contents
<1>4. /\ replies = <<>> /\ pc \notin {"rcpt", "data"}
      /\ ~server.junk /\ server.open = commands[1].of
      /\ server.rcpts = Upto(commands[1].of, commands[1].n)
  BY <1>2 DEF SendPhase, Contents, TextFirst
<1>5. replies' = <<Code(code)>> /\ Len(replies') = 1 /\ replies'[1] = Code(code) /\ Len(replies) = 0
  BY <1>4
<1>6. /\ commands # <<>> /\ TextComes /\ ~TextComes' /\ ~Opened /\ ~Opened'
      /\ Answering /\ Answering'
  BY <1>1 DEF Taken, TextComes, Opened, Answering, Silent
<1>7. OneYes(Due) /\ NoGo(Due) /\ NoYes(Due)
  BY <1>6 DEF SendPhase, Order, NotOpened
<1>8. /\ Len(Due) = Len(commands) /\ Len(Due') = Len(Due) /\ Len(Due) >= 1
      /\ \A p \in 1 .. Len(Due) : p # 1 => Due'[p] = Due[p]
      /\ Due'[1] = Sign(code)
  <2>1. Len(Due) = Len(commands) /\ Len(Due') = Len(Due) /\ Len(Due) >= 1
    BY <1>0, <1>2, <1>5, <1>6 DEF DueMarks
  <2>2. Due'[1] = Sign(code)
    BY <1>0, <1>5 DEF DueMarks
  <2>3. ASSUME NEW p \in 1 .. Len(Due), p # 1 PROVE Due'[p] = Due[p]
    <3> DEFINE q == p - 1
    <3>1. q \in 1 .. Len(commands') /\ p = 1 + q /\ q + 1 \in 1 .. Len(commands) /\ p = 0 + (q + 1)
      BY <1>2, <2>1, <2>3
    <3> HIDE DEF q
    <3>2. Due'[1 + q] = Hope(commands'[q].verb)
      BY <1>0, <1>5, <1>6, <3>1 DEF DueMarks
    <3>3. Due[0 + (q + 1)] = Hope(commands[q + 1].verb)
      BY <1>0, <1>5, <1>6, <3>1 DEF DueMarks
    <3> QED
      BY <1>2, <3>1, <3>2, <3>3
  <2> QED
    BY <2>1, <2>2, <2>3
<1>9. OneYes(Due') /\ NoGo(Due')
  <2>1. Sign(code) # "go"
    BY DEF Sign
  <2>2. \A p \in 1 .. Len(Due) : Due[p] # "yes" /\ Due[p] # "go"
    BY <1>7 DEF NoYes, NoGo
  <2>3. \A p \in 1 .. Len(Due') : Due'[p] # "go" /\ (Due'[p] = "yes" => p = 1)
    BY <1>8, <2>1, <2>2
  <2> QED
    BY <2>3 DEF OneYes, NoGo
<1>10. NotOpened'
  BY <1>4, <1>6, <1>9 DEF NotOpened
<1>11. OwnLast'
  BY <1>2, <1>4, <1>6, <1>8 DEF SendPhase, Order, OwnLast
<1>12. NoneThrough' /\ RcptRanks' /\ MailRanks' /\ OwnGo'
  BY <1>4, <1>6 DEF NoneThrough, RcptRanks, MailRanks, OwnGo
<1>13. Alone'
  <2> SUFFICES ASSUME pc = "mail", Len(replies') + Len(commands') = 1 PROVE FALSE
    BY <1>4 DEF Alone
  <2>1. Len(commands) = 1
    BY <1>2, <1>5
  <2> QED
    BY <1>6, <2>1 DEF SendPhase, Order, OwnLast
<1>14. TextFirst'
  BY <1>3 DEF TextFirst
<1> DEFINE d == [from |-> server.open, to |-> server.rcpts, text |-> commands[1].of,
                 n |-> commands[1].n, junk |-> server.junk]
<1>15. d.text = commands[1].of /\ AsComposed(d)
  BY <1>4 DEF AsComposed, Upto
<1>16. code = 250 => d \in delivered'
  OBVIOUS
<1> HIDE DEF d
<1>17. FirstText'
  <2> SUFFICES ASSUME pc = "message" PROVE FirstText'
    BY DEF FirstText
  <2>1. Len(commands) <= 1 /\ commands[1] = Of("TEXT", caller.send, caller.n)
    BY <1>2, <1>5, <1>6 DEF SendPhase, Contents, FirstText
  <2>2. Len(commands') = 0 /\ commands' = <<>>
    BY <1>2, <2>1
  <2>3. code = 250 => HasDelivered(caller.send)'
    BY <1>15, <1>16, <2>1 DEF HasDelivered, Of
  <2> QED
    BY <1>0, <1>1, <1>5, <2>2, <2>3 DEF FirstText
<1>18. SecondText'
  BY <1>2 DEF SendPhase, Contents, SecondText
<1>19. AllComposed => AllComposed'
  <2>1. \A e \in delivered' : e \in delivered \/ e = d
    BY DEF d
  <2> QED
    BY <1>15, <2>1 DEF AllComposed
<1>20. InSession'
  <2>1. \A i \in 1 .. Len(commands') : commands'[i].verb \in OfSend \cup {"QUIT"}
    BY <1>2 DEF SendPhase, InSession
  <2>2. pc \notin Connecting
    BY DEF SendPhase, InSession
  <2> QED
    BY <1>1, <2>1, <2>2 DEF InSession
<1>21. delivered \subseteq delivered'
  OBVIOUS
<1> QED
  BY <1>10, <1>11, <1>12, <1>13, <1>14, <1>17, <1>18, <1>19, <1>20, <1>21
     DEF SendPhase, Order, Contents

\* A text out of data mode is taken for two commands that do not exist.
LEMMA StrayTextTaken ==
  ASSUME IInv, IInv', SendPhase, Taken, server.mode = "command", commands[1].verb = "TEXT",
         replies' = replies \o <<Code(500), Code(500)>>,
         UNCHANGED <<pc, caller, server, delivered>>
  PROVE  SendPhase'
<1>0. /\ WireTypes /\ WireTypes' /\ DueMarks /\ DueMarks' /\ Code(500).code = 500
  BY DueIs, DueIsPrimed DEF IInv, Types, Code
<1>2. /\ commands[1] \in Command /\ 1 \in 1 .. Len(commands) /\ Len(commands) \in Nat
      /\ commands' \in Seq(Command) /\ Len(commands') = Len(commands) - 1
      /\ \A i \in 1 .. Len(commands') : i + 1 \in 1 .. Len(commands) /\ commands'[i] = commands[i + 1]
      /\ commands' # <<>> => commands'[Len(commands')] = commands[Len(commands)]
  BY <1>0, TakenShifts
<1>3. \A i \in 1 .. Len(commands') : commands'[i].verb # "TEXT"
  BY <1>0, NoTextLeft DEF SendPhase, Contents
<1>4. replies = <<>> /\ pc \notin {"rcpt", "data"} /\ server.open = "none"
  BY <1>2 DEF SendPhase, Contents, TextFirst
<1>5. /\ Len(replies') = 2 /\ Len(replies) = 0
      /\ \A i \in 1 .. 2 : replies'[i] = Code(500)
  BY <1>4
<1>6. /\ commands # <<>> /\ ~TextComes /\ ~TextComes' /\ ~Opened /\ ~Opened'
      /\ Answering /\ Answering'
  BY <1>4 DEF Taken, TextComes, Opened, Answering, Silent
<1>7. OneYes(Due) /\ NoGo(Due)
  BY <1>6 DEF SendPhase, Order, NotOpened
<1>8. /\ Len(Due) = Len(commands) /\ Len(Due') = Len(Due) + 1 /\ Len(Due) >= 1 /\ Len(Due) \in Nat
      /\ \A p \in 1 .. Len(Due') :
           Due'[p] = "no" \/ (p - 1 \in 1 .. Len(Due) /\ Due'[p] = Due[p - 1])
  <2>1. Len(Due) = Len(commands) /\ Len(Due') = Len(Due) + 1 /\ Len(Due) >= 1 /\ Len(Due) \in Nat
    BY <1>0, <1>2, <1>5, <1>6 DEF DueMarks
  <2>2. ASSUME NEW p \in 1 .. 2 PROVE Due'[p] = "no"
    <3>1. Due'[p] = Sign(500)
      BY <1>0, <1>5, <2>2 DEF DueMarks
    <3> QED
      BY <3>1 DEF Sign
  <2>3. ASSUME NEW p \in 1 .. Len(Due'), p \notin 1 .. 2
        PROVE  p - 1 \in 1 .. Len(Due) /\ Due'[p] = Due[p - 1]
    <3> DEFINE q == p - 2
    <3>1. /\ q \in 1 .. Len(commands') /\ p = 2 + q /\ q + 1 \in 1 .. Len(commands)
          /\ p - 1 = 0 + (q + 1) /\ p - 1 \in 1 .. Len(Due)
      BY <1>2, <2>1, <2>3
    <3> HIDE DEF q
    <3>2. Due'[2 + q] = Hope(commands'[q].verb)
      BY <1>0, <1>5, <1>6, <3>1 DEF DueMarks
    <3>3. Due[0 + (q + 1)] = Hope(commands[q + 1].verb)
      BY <1>0, <1>5, <1>6, <3>1 DEF DueMarks
    <3> QED
      BY <1>2, <3>1, <3>2, <3>3
  <2> QED
    BY <2>1, <2>2, <2>3
<1>9. OneYes(Due') /\ NoGo(Due')
  <2> DEFINE l == Len(Due)
  <2>1. /\ \A p, q \in 1 .. l : Due[p] = "yes" /\ Due[q] = "yes" => p = q
        /\ \A p \in 1 .. l : Due[p] # "go"
        /\ Len(Due') = l + 1 /\ l \in Nat
        /\ \A p \in 1 .. l + 1 : Due'[p] = "no" \/ (p - 1 \in 1 .. l /\ Due'[p] = Due[p - 1])
    BY <1>7, <1>8 DEF OneYes, NoGo
  <2> HIDE DEF l
  <2>2. ASSUME NEW p \in 1 .. l + 1, NEW q \in 1 .. l + 1, Due'[p] = "yes", Due'[q] = "yes"
        PROVE  p = q
    <3>1. p - 1 \in 1 .. l /\ q - 1 \in 1 .. l /\ Due[p - 1] = "yes" /\ Due[q - 1] = "yes"
      BY <2>1, <2>2
    <3>2. p - 1 = q - 1
      BY <2>1, <3>1
    <3> QED
      BY <3>2
  <2> QED
    BY <2>1, <2>2 DEF OneYes, NoGo
<1>10. NotOpened'
  BY <1>4, <1>6, <1>9 DEF NotOpened
<1>11. OwnLast'
  BY <1>2, <1>4, <1>6, <1>8 DEF SendPhase, Order, OwnLast
<1>12. NoneThrough' /\ RcptRanks' /\ MailRanks' /\ OwnGo'
  BY <1>4, <1>6 DEF NoneThrough, RcptRanks, MailRanks, OwnGo
<1>13. Alone'
  BY <1>2, <1>5 DEF Alone
<1>14. TextFirst'
  BY <1>3 DEF TextFirst
<1>15. pc # "message"
  BY <1>6 DEF SendPhase, Contents, FirstText
<1>16. SecondText'
  <2> SUFFICES ASSUME pc = "again" PROVE SecondText'
    BY DEF SecondText
  <2>1. \A i \in 1 .. Len(commands) : i = 1
    BY DEF SendPhase, Contents, SecondText
  <2>2. \A i \in 1 .. Len(commands') : FALSE
    BY <1>2, <2>1
  <2>3. HasDelivered(caller.send)'
    BY DEF SendPhase, Contents, SecondText, HasDelivered
  <2>4. \A i \in 1 .. Len(replies') : replies'[i].code # 250
    BY <1>0, <1>5
  <2> QED
    BY <2>2, <2>3, <2>4 DEF SecondText
<1>17. InSession'
  <2>1. \A i \in 1 .. Len(commands') : commands'[i].verb \in OfSend \cup {"QUIT"}
    BY <1>2 DEF SendPhase, InSession
  <2> QED
    BY <2>1 DEF SendPhase, InSession
<1> QED
  BY <1>10, <1>11, <1>12, <1>13, <1>14, <1>15, <1>16, <1>17
     DEF SendPhase, Order, Contents, FirstText

\* The answer to a command of a send, in a session.
LEMMA CommandKeepsSendPhase ==
  ASSUME IInv, IInv', SendPhase, NestedMailRefused = TRUE, up, commands # <<>>,
         commands' = Tail(commands), ServeCommand(commands[1]), UNCHANGED <<pc, caller>>
  PROVE  SendPhase' /\ delivered' = delivered
<1> DEFINE cmd == commands[1]
<1>0. /\ cmd \in Command /\ 1 \in 1 .. Len(commands) /\ cmd.verb \in OfSend \cup {"QUIT"}
      /\ server \in Server /\ server.mode = "command" /\ replies \in Seq(Reply)
      /\ server.open = "none" => server.rcpts = {}
      /\ \A c \in Codes : replies' = Append(replies, Code(c)) => (Accepted <=> c \notin 400 .. 599)
      /\ \A c \in Codes : Code(c).code = c
  <2>1. cmd \in Command /\ 1 \in 1 .. Len(commands)
    BY DEF IInv, Types, WireTypes
  <2>2. cmd.verb \in OfSend \cup {"QUIT"}
    BY <2>1 DEF SendPhase, InSession
  <2>3. replies \in Seq(Reply) /\ server \in Server
    BY DEF IInv, Types, WireTypes, ServerTypes
  <2>4. \A c \in Codes : replies' = Append(replies, Code(c)) => (Accepted <=> c \notin 400 .. 599)
    BY <2>3, AcceptedMeans
  <2> QED
    BY <2>1, <2>2, <2>3, <2>4, CodeIsReply DEF ServeCommand, SendPhase, InSession
<1>1. CASE cmd.verb = "MAIL" /\ ServeMail(cmd)
  <2>0. Taken /\ delivered' = delivered
    BY <1>1 DEF Taken, ServeMail
  <2>1. CASE replies' = Append(replies, Code(250)) /\ server.open = "none"
    <3>1. server' = [server EXCEPT !.open = cmd.of, !.rcpts = {}]
      BY <1>0, <1>1, <2>1 DEF ServeMail, Codes
    <3> QED
      BY <1>0, <1>1, <2>0, <2>1, <3>1, MailAccepted
  <2>2. CASE \E c \in {503, 552, 550} : replies' = Append(replies, Code(c))
    <3>1. PICK c \in {503, 552, 550} : replies' = Append(replies, Code(c))
      BY <2>2
    <3>2. c \in Codes /\ c \in 400 .. 599
      BY DEF Codes
    <3>3. server' = server /\ Code(c).code = c
      BY <1>0, <1>1, <3>1, <3>2 DEF ServeMail
    <3> QED
      BY <1>0, <1>1, <2>0, <3>1, <3>3, ServeLess
  <2> QED
    BY <1>1, <2>1, <2>2 DEF ServeMail, Answer
<1>2. CASE cmd.verb = "RCPT" /\ ServeRcpt(cmd)
  <2>0. Taken /\ delivered' = delivered
    BY <1>2 DEF Taken, ServeRcpt
  <2>1. CASE replies' = Append(replies, Code(250)) /\ server.open # "none"
    <3>1. server' = [server EXCEPT !.rcpts = @ \cup {<<cmd.of, cmd.n>>}]
      BY <1>0, <1>2, <2>1 DEF ServeRcpt, Codes
    <3>2. /\ server'.mode = "command" /\ server'.open = server.open
          /\ server'.rcpts = server.rcpts \cup {<<cmd.of, cmd.n>>}
      BY <1>0, <3>1 DEF Server
    <3>3. Code(250).code = 250
      BY DEF Code
    <3> QED
      BY <1>0, <1>2, <2>0, <2>1, <3>2, <3>3, ServeLess
  <2>2. CASE \E c \in {503, 550} : replies' = Append(replies, Code(c))
    <3>1. PICK c \in {503, 550} : replies' = Append(replies, Code(c))
      BY <2>2
    <3>2. c \in Codes /\ c \in 400 .. 599
      BY DEF Codes
    <3>3. server' = server /\ Code(c).code = c
      BY <1>0, <1>2, <3>1, <3>2 DEF ServeRcpt
    <3> QED
      BY <1>0, <1>2, <2>0, <3>1, <3>3, ServeLess
  <2> QED
    BY <1>2, <2>1, <2>2 DEF ServeRcpt, Answer
<1>3. CASE cmd.verb = "DATA" /\ ServeData
  <2>0. Taken /\ delivered' = delivered
    BY <1>3 DEF Taken, ServeData
  <2>1. CASE replies' = Append(replies, Code(354)) /\ server.rcpts # {}
    <3>1. server' = [server EXCEPT !.mode = "data", !.junk = FALSE]
      BY <1>0, <1>3, <2>1 DEF ServeData, Codes
    <3> QED
      BY <1>0, <1>3, <2>0, <2>1, <3>1, DataAccepted
  <2>2. CASE \E c \in {503, 451} : replies' = Append(replies, Code(c))
    <3>1. PICK c \in {503, 451} : replies' = Append(replies, Code(c))
      BY <2>2
    <3>2. c \in Codes /\ c \in 400 .. 599
      BY DEF Codes
    <3>3. server' = server /\ Code(c).code = c
      BY <1>0, <1>3, <3>1, <3>2 DEF ServeData
    <3> QED
      BY <1>0, <1>3, <2>0, <3>1, <3>3, ServeLess
  <2> QED
    BY <1>3, <2>1, <2>2 DEF ServeData, Answer
<1>4. CASE cmd.verb = "QUIT" /\ up' = FALSE /\ UNCHANGED <<replies, serverVars>>
  <2>1. Len(replies) \in 0 .. Len(replies) /\ replies' = SubSeq(replies, 1, Len(replies))
    BY <1>0, <1>4
  <2> QED
    BY <1>4, <2>1, CutKeepsSendPhase DEF serverVars
<1>5. CASE /\ cmd.verb = "TEXT" /\ replies' = replies \o <<Code(500), Code(500)>>
           /\ UNCHANGED <<up, serverVars>>
  <2>1. Taken /\ UNCHANGED <<server, delivered>>
    BY <1>5 DEF Taken, serverVars
  <2> QED
    BY <1>0, <1>5, <2>1, StrayTextTaken
<1> HIDE DEF cmd
<1>6. /\ cmd.verb \in {"MAIL", "RCPT", "DATA", "TEXT", "QUIT"}
      /\ ServeCommand(cmd)
  BY <1>0 DEF OfSend, cmd
<1> QED
  BY <1>1, <1>2, <1>3, <1>4, <1>5, <1>6, ZenonT(30) DEF ServeCommand

\* What the server does in data mode.
LEMMA TextKeepsSendPhase ==
  ASSUME IInv, IInv', SendPhase, up, commands # <<>>,
         commands' = Tail(commands), ServeText(commands[1]), UNCHANGED <<pc, caller>>
  PROVE  SendPhase' /\ (AllComposed => AllComposed') /\ delivered \subseteq delivered'
<1>0. Taken /\ server.mode = "data" /\ replies \in Seq(Reply)
  BY DEF Taken, ServeText, IInv, Types, WireTypes
<1>1. CASE commands[1].verb # "TEXT"
  <2>1. server' = [server EXCEPT !.junk = TRUE] /\ UNCHANGED <<replies, delivered>>
    BY <1>1 DEF ServeText
  <2> QED
    BY <1>0, <1>1, <2>1, CommandReadAsText DEF AllComposed
<1>2. CASE commands[1].verb = "TEXT"
  <2>1. PICK c \in {250, 554} : replies' = Append(replies, Code(c))
    BY <1>2 DEF ServeText, Answer
  <2>2. c \in Codes /\ (c \notin 400 .. 599 <=> c = 250)
    BY DEF Codes
  <2>3. Accepted <=> c = 250
    BY <1>0, <2>1, <2>2, AcceptedMeans
  <2>4. /\ server' = [Reset(server) EXCEPT !.mode = "command"]
        /\ delivered' = IF c = 250
                        THEN delivered \cup {[from |-> server.open, to |-> server.rcpts,
                                              text |-> commands[1].of, n |-> commands[1].n,
                                              junk |-> server.junk]}
                        ELSE delivered
    BY <1>2, <2>3 DEF ServeText
  <2> QED
    BY <1>0, <1>2, <2>1, <2>4, TextTaken
<1> QED
  BY <1>1, <1>2

LEMMA ServeKeepsEnvelope ==
  ASSUME IInv, IInv', EnvelopeInv, Serve, NestedMailRefused = TRUE
  PROVE  EnvelopeInv'
<1>0. /\ up /\ commands # <<>> /\ commands' = Tail(commands) /\ UNCHANGED <<pc, caller, result>>
      /\ commands \in Seq(Command) /\ Head(commands) = commands[1]
      /\ LET cmd == Head(commands) IN
         ServeText(cmd) \/ ServeCommand(cmd) \/ ServeExchange(cmd) \/ ServeHandshake(cmd)
  BY DEF Serve, clientVars, actorVars, IInv, Types, WireTypes
<1>1. CASE Quiet
  <2>1. Quiet' /\ UNCHANGED <<result, delivered>>
    BY <1>1, ServeKeepsQuiet
  <2> QED
    BY <2>1 DEF EnvelopeInv, AllComposed, NilMeansDelivered
<1>2. CASE SendPhase
  <2>1. ServeText(commands[1]) \/ ServeCommand(commands[1])
    BY <1>0, <1>2 DEF SendPhase, InSession, ServeExchange, ServeHandshake
  <2>2. SendPhase' /\ (AllComposed => AllComposed') /\ delivered \subseteq delivered'
    <3>1. CASE ServeText(commands[1])
      BY <1>0, <1>2, <3>1, TextKeepsSendPhase
    <3>2. CASE ServeCommand(commands[1])
      BY <1>0, <1>2, <3>2, CommandKeepsSendPhase DEF AllComposed
    <3> QED
      BY <2>1, <3>1, <3>2
  <2>3. NilMeansDelivered'
    BY <1>0, <2>2 DEF EnvelopeInv, NilMeansDelivered
  <2> QED
    BY <2>2, <2>3 DEF EnvelopeInv
<1> QED
  BY <1>1, <1>2 DEF EnvelopeInv

----------------------------------------------------------------------------
(***************************************************************************)
(* Every step.                                                             *)
(***************************************************************************)

\* No send has become successful.
LEMMA NoNewNil ==
  ASSUME ClientTypes, NilMeansDelivered, delivered' = delivered,
         \/ result' = result
         \/ \E s \in Send : result' = [result EXCEPT ![s] = "error"]
  PROVE  NilMeansDelivered'
BY DEF ClientTypes, NilMeansDelivered

LEMMA SendStepKeepsEnvelope ==
  ASSUME IInv, IInv', EnvelopeInv, Mail \/ Rcpt \/ Data \/ Message
  PROVE  EnvelopeInv'
<1>0. pc \in Sending /\ UNCHANGED <<server, delivered>> /\ ClientTypes /\ caller.send \in Send
  BY DEF Mail, Rcpt, Data, Message, Waits, serverVars, Sending, IInv, Types, Stage
<1>1. SendPhase /\ NilMeansDelivered /\ AllComposed'
  BY <1>0 DEF EnvelopeInv, Quiet, AllComposed
<1>2. CASE Message
  BY <1>1, <1>2, MessageKeepsSendPhase DEF EnvelopeInv
<1>3. CASE Mail \/ Rcpt \/ Data
  <2>1. SendPhase'
    BY <1>1, <1>3, MailKeepsSendPhase, RcptKeepsSendPhase, DataKeepsSendPhase
  <2>2. result' = result \/ result' = [result EXCEPT ![caller.send] = "error"]
    BY <1>3 DEF Mail, Rcpt, Data, NextRecipient, Issue, SendReturns, actorVars
  <2>3. NilMeansDelivered'
    BY <1>0, <1>1, <2>2, NoNewNil
  <2> QED
    BY <1>1, <2>1, <2>3 DEF EnvelopeInv
<1> QED
  BY <1>2, <1>3

LEMMA InitImpliesEnvelope == Init => EnvelopeInv
<1> SUFFICES ASSUME Init PROVE EnvelopeInv
  OBVIOUS
<1>1. /\ ~connected /\ pc = "idle" /\ commands = <<>> /\ replies = <<>> /\ delivered = {}
      /\ server.open = "none" /\ server.rcpts = {} /\ server.mode = "command"
      /\ result = [s \in Send |-> "none"]
  BY DEF Init, NewServer
<1>2. Quiet
  BY <1>1 DEF Quiet, AuthLast, Sending, Connecting, Authenticating
<1> QED
  BY <1>1, <1>2 DEF EnvelopeInv, AllComposed, NilMeansDelivered

LEMMA NextKeepsEnvelope ==
  ASSUME NestedMailRefused = TRUE, CallersAsk = "result"
  PROVE  IInv /\ IInv' /\ EnvelopeInv /\ [Next]_vars => EnvelopeInv'
<1> SUFFICES ASSUME IInv, IInv', EnvelopeInv, [Next]_vars PROVE EnvelopeInv'
  OBVIOUS
<1>1. CASE \E security \in {"ssl", "startTLS"}, oauth2 \in BOOLEAN : beConnect(security, oauth2)
  BY <1>1, beConnectKeepsEnvelope
<1>2. CASE \E s \in Send, n \in 0 .. MaxRecipients, big \in BOOLEAN : beSend(s, n, big)
  BY <1>2, beSendKeepsEnvelope
<1>3. CASE beClose
  BY <1>3, beCloseKeepsEnvelope
<1>4. CASE BehaviourStep
  <2>1. CASE Greeting \/ Ehlo \/ Helo \/ Starttls \/ Sasl \/ Oauth
    BY <2>1, ConnectingKeepsEnvelope
  <2>2. CASE Mail \/ Rcpt \/ Data \/ Message
    BY <2>2, SendStepKeepsEnvelope
  <2> QED
    BY <1>4, <2>1, <2>2 DEF BehaviourStep
<1>5. CASE Serve
  BY <1>5, ServeKeepsEnvelope
<1>6. CASE Drop
  BY <1>6, DropKeepsEnvelope
<1>7. CASE UNCHANGED vars
  <2>1. UNCHANGED <<pc, caller, connected, result, commands, replies, up, server, delivered>>
    BY <1>7 DEF vars, clientVars, actorVars, wire, serverVars
  <2>2. Quiet => Quiet'
    BY <2>1 DEF Quiet, AuthLast
  <2>3. SendPhase => SendPhase'
    BY <2>1, SameSendPhase
  <2>4. AllComposed' /\ NilMeansDelivered'
    BY <2>1 DEF EnvelopeInv, AllComposed, NilMeansDelivered
  <2> QED
    BY <2>2, <2>3, <2>4 DEF EnvelopeInv
<1> QED
  BY <1>1, <1>2, <1>3, <1>4, <1>5, <1>6, <1>7 DEF Next

LEMMA EnvelopeInvariance ==
  ASSUME NestedMailRefused = TRUE, CallersAsk = "result"
  PROVE  Spec => []EnvelopeInv
<1>1. Init => EnvelopeInv
  BY InitImpliesEnvelope
<1>2. IInv /\ IInv' /\ EnvelopeInv /\ [Next]_vars => EnvelopeInv'
  BY NextKeepsEnvelope
<1> QED
  BY <1>1, <1>2, Invariance, PTL DEF Spec

----------------------------------------------------------------------------
(***************************************************************************)
(* The theorems.                                                           *)
(***************************************************************************)

\* A beSend that calls back with nil has delivered its message, whole and alone, to each of
\* its recipients and to nobody else: for callers who look at what their last beConnect
\* returned, however many replies come late and whatever the server refuses, if it refuses
\* MAIL inside a transaction.
THEOREM NilAlwaysMeansDelivered ==
  ASSUME NestedMailRefused = TRUE, CallersAsk = "result"
  PROVE  Spec => []NilMeansDelivered
<1>1. EnvelopeInv => NilMeansDelivered
  BY DEF EnvelopeInv
<1> QED
  BY <1>1, EnvelopeInvariance, PTL

\* Under the same assumptions no message ever reaches the recipients of another send, though
\* a failed send leaves its transaction, and its recipients, open on the server.
THEOREM EnvelopesAreNeverMixed ==
  ASSUME NestedMailRefused = TRUE, CallersAsk = "result"
  PROVE  Spec => []EnvelopesUnmixed
<1>1. EnvelopeInv => EnvelopesUnmixed
  BY DEF EnvelopeInv, AllComposed, AsComposed, EnvelopesUnmixed
<1> QED
  BY <1>1, EnvelopeInvariance, PTL
=============================================================================
