----------------------------- MODULE ImapProofs -----------------------------
(***************************************************************************)
(* Proofs about Imap, for any folders, numbers of calls and time-outs, and *)
(* every fault that Imap allows: types, and that a nil error belongs to    *)
(* the command, that an appended message is stored, that a session that    *)
(* takes itself for logged in is, and that data come from the folder that  *)
(* the client takes for selected.                                          *)
(***************************************************************************)
EXTENDS Imap, SequenceTheorems, FiniteSetTheorems, WellFoundedInduction, TLAPS

----------------------------------------------------------------------------
(***************************************************************************)
(* The inductive invariant.                                                *)
(***************************************************************************)
Tag == 0 .. 2 * MaxCalls
Place == Folder \cup {"none"}
Op == {"none", "connect", "close", "list", "examine", "searchExamine", "fetch", "fetchNone",
       "append"}
Data == Place \cup {"folders"}
Result == [op : Op, folder : Place, error : {"nil", "error"}, tag : Tag, data : Data]
\* What is returned without an answer of the server.
Empty == {Failed, NothingReturned, NoFolders, [NothingReturned EXCEPT !.op = "close"],
          [NothingReturned EXCEPT !.op = "fetchNone"]}
Verb == {"CONNECT", "LOGIN", "AUTHENTICATE", "EMPTY", "LOGOUT", "LIST", "EXAMINE",
         "SEARCH", "FETCH", "APPEND", "LITERAL"}
Command == [verb : Verb, tag : Tag, folder : Place]

\* What a command continues: it has no tag of its own.
Special == {"LITERAL", "EMPTY"}

Pc == {"idle", "greeting", "oauth", "login", "logout", "list", "examine",
       "searchExamine", "search", "fetch", "append", "appendRefused", "appended"}

ClientTypes ==
  /\ session \in [stream : BOOLEAN, state : State, tag : Tag]
  /\ pc \in Pc
  /\ caller \in [op : Op, folder : Place, oauth2 : BOOLEAN]
  /\ connectionInfo \in BOOLEAN /\ selected \in Place
  /\ returned \in Result
  /\ calls \in 0 .. MaxCalls
WireTypes ==
  /\ commands \in Seq(Command) /\ replies \in Seq(Reply)
  /\ up \in BOOLEAN /\ timeouts \in 0 .. MaxTimeouts
Server == [auth : BOOLEAN, selected : Place, mode : {"command", "authenticate", "literal"},
           tag : Tag, folder : Place, junk : BOOLEAN, swallowed : BOOLEAN, cut : BOOLEAN]
ServerTypes == server \in Server /\ served \in Tag

\* No behaviour uses more than two tags, and those that have used one keep one.
Budget ==
  /\ session.tag <= 2 * calls
  /\ pc \in {"oauth", "login", "searchExamine"} => session.tag <= 2 * calls - 1
  /\ pc = "greeting" => session.tag <= 2 * calls - 2
  /\ pc \notin {"idle", "greeting"} => session.tag >= 1
\* A behaviour that selects a folder names one, and does so in a session that takes
\* itself for logged in.
NamesFolder ==
  /\ pc \in {"oauth", "login", "greeting", "examine", "searchExamine"} => caller.folder \in Folder
  /\ pc \in {"examine", "searchExamine"} => session.state \in LoggedIn

OneCommand(cmd) ==
  /\ cmd.tag <= session.tag
  /\ served <= cmd.tag
  /\ cmd.verb = "EXAMINE" => cmd.folder \in Folder
  /\ cmd.verb = "CONNECT" => server = NewServer /\ replies = <<>>
  /\ cmd.verb # "CONNECT" => cmd.tag >= 1
  /\ server.mode = "literal" =>
       /\ server.tag <= cmd.tag
       /\ cmd.verb \notin Special => server.tag < cmd.tag
TwoCommands(first, second) ==
  /\ first.tag <= second.tag
  /\ second.verb \notin Special => first.tag < second.tag
  /\ second.verb # "CONNECT"
\* The commands on their way: the tags grow, and no smaller one is served any more.
Order ==
  /\ \A i \in 1 .. Len(commands) : OneCommand(commands[i])
  /\ \A i, j \in 1 .. Len(commands) : i < j => TwoCommands(commands[i], commands[j])
  /\ served <= session.tag /\ server.tag <= session.tag
  /\ server.mode = "literal" => served <= server.tag /\ 1 <= server.tag

Success(reply) == reply.kind = "tagged" /\ (reply.status = "ok" \/ reply.data # "none")
\* A reply to the last command sent that tells of success means that the server has
\* carried it out, and nothing after it.
OneReply(reply) ==
  /\ reply.kind = "tagged" => reply.tag <= session.tag
  /\ Success(reply) /\ reply.tag = session.tag => served = session.tag
  /\ reply.kind = "greeting" /\ reply.status = "preauth" => server.auth
Answered == \A i \in 1 .. Len(replies) : OneReply(replies[i])

\* The result of the last behaviour stays true.
ResultHolds ==
  /\ pc # "idle" => returned = NothingReturned
  /\ returned.error = "nil" /\ ~SaysNothing(returned) =>
       returned.tag = session.tag /\ served = session.tag

\* While the client logs in, only the login can be answered with its tag.
LoginInv ==
  pc \in {"oauth", "login"} =>
    /\ server.mode = "literal" => server.tag < session.tag
    /\ \A i \in 1 .. Len(commands) :
         commands[i].tag = session.tag => commands[i].verb \in {"LOGIN", "AUTHENTICATE", "EMPTY"}
    /\ \A i \in 1 .. Len(replies) :
         Success(replies[i]) /\ replies[i].tag = session.tag => server.auth

\* While the client appends, only the message can be answered with its tag.
AppendInv ==
  pc \in {"append", "appendRefused", "appended"} =>
    /\ caller.op = "append"
    /\ \A i \in 1 .. Len(commands) :
         commands[i].tag = session.tag =>
           /\ commands[i].verb \in {"APPEND", "LITERAL"}
           /\ commands[i].verb = "APPEND" => commands[i].folder = caller.folder
    /\ server.mode = "literal" /\ server.tag = session.tag =>
         server.folder = caller.folder /\ ~server.junk
    /\ \A i \in 1 .. Len(replies) :
         Success(replies[i]) /\ replies[i].tag = session.tag =>
           [tag |-> session.tag, folder |-> caller.folder, intact |-> TRUE] \in stored
\* Other behaviours are not append's.
AppendOnly == caller.op = "append" => pc \in {"append", "appendRefused", "appended"}

Types == ClientTypes /\ WireTypes /\ ServerTypes
IInv ==
  /\ Types /\ Budget /\ NamesFolder /\ Order /\ Answered /\ ResultHolds
  /\ LoggedInMeansAuthenticated /\ LoginInv /\ AppendInv /\ AppendOnly /\ AppendedMeansStored
----------------------------------------------------------------------------
(***************************************************************************)
(* What a wait brings.                                                     *)
(***************************************************************************)

\* What is left in the network came before, and what is read did, or is nothing.
Received(reply) ==
  /\ replies' \in Seq(Reply)
  /\ \A i \in 1 .. Len(replies') : \E j \in 1 .. Len(replies) : replies'[i] = replies[j]
  /\ reply = NoReply \/ \E j \in 1 .. Len(replies) : reply = replies[j]
  /\ timeouts' \in 0 .. MaxTimeouts

\* A set of numbers has a least one.
LEMMA LeastExists ==
  ASSUME NEW S, S \subseteq Nat, S # {}
  PROVE  \E least \in S : \A k \in S : least <= k
<1> DEFINE R == {ss \in Nat \X Nat : ss[1] < ss[2]}
<1>1. IsWellFoundedOn(R, Nat)
  BY NatLessThanWellFounded, Zenon DEF OpToRel
<1>2. PICK least \in S : \A k \in S : <<k, least>> \notin R
  BY <1>1, WFMin, Zenon
<1>3. ASSUME NEW k \in S, ~(least <= k)
      PROVE  FALSE
  <2>1. <<k, least>> \in Nat \X Nat /\ k < least
    BY <1>3
  <2>2. <<k, least>>[1] = k /\ <<k, least>>[2] = least
    OBVIOUS
  <2>3. <<k, least>> \in R
    BY <2>1, <2>2
  <2> QED
    BY <1>2, <2>3
<1> QED
  BY <1>3

\* A wait that ends with nothing has used up a time-out, or none.
LEMMA WaitEnds ==
  ASSUME WireTypes, NothingComes
  PROVE  timeouts' \in 0 .. MaxTimeouts
BY ImapBoundsAssumption DEF WireTypes, NothingComes

\* mailimap_read_line.
LEMMA LineReceived ==
  ASSUME WireTypes, NEW reply, ReadLine(reply)
  PROVE  Received(reply)
<1>1. CASE replies # <<>> /\ reply = Head(replies) /\ replies' = Tail(replies) /\ UNCHANGED timeouts
  <2>1. replies \in Seq(Reply) /\ replies # <<>>
    BY <1>1 DEF WireTypes
  <2>2. /\ Tail(replies) \in Seq(Reply) /\ Len(Tail(replies)) = Len(replies) - 1
        /\ \A i \in 1 .. Len(Tail(replies)) : Tail(replies)[i] = replies[i + 1]
    BY <2>1
  <2>3. Head(replies) = replies[1] /\ 1 \in 1 .. Len(replies)
    BY <2>1
  <2>4. \A i \in 1 .. Len(replies') : i + 1 \in 1 .. Len(replies) /\ replies'[i] = replies[i + 1]
    BY <1>1, <2>1, <2>2
  <2>5. timeouts' \in 0 .. MaxTimeouts
    BY <1>1 DEF WireTypes
  <2> QED
    BY <1>1, <2>2, <2>3, <2>4, <2>5 DEF Received
<1>2. CASE replies = <<>> /\ reply = NoReply /\ NothingComes /\ UNCHANGED replies
  BY <1>2, WaitEnds DEF Received, WireTypes
<1> QED
  BY <1>1, <1>2 DEF ReadLine

\* mailimap_parse_response.
LEMMA ResponseReceived ==
  ASSUME WireTypes, NEW reply, ReadResponse(reply)
  PROVE  Received(reply) /\ (reply = NoReply \/ reply.kind = "tagged")
<1> DEFINE tagged == {k \in 1 .. Len(replies) : replies[k].kind = "tagged"}
<1>1. CASE /\ tagged # {}
           /\ reply = replies[Min(tagged)]
           /\ replies' = SubSeq(replies, Min(tagged) + 1, Len(replies))
           /\ UNCHANGED timeouts
  <2>1. tagged \subseteq Nat /\ tagged \subseteq 1 .. Len(replies)
    BY DEF WireTypes
  <2>2. \E least \in tagged : \A k \in tagged : least <= k
    BY <1>1, <2>1, LeastExists
  <2>3. Min(tagged) \in tagged
    BY <2>2 DEF Min
  <2>4. Min(tagged) \in 1 .. Len(replies) /\ replies[Min(tagged)].kind = "tagged"
    BY <2>3
  <2> DEFINE m == Min(tagged)
  <2> HIDE DEF m
  <2>5. m \in 1 .. Len(replies) /\ replies \in Seq(Reply) /\ Len(replies) \in Nat
    BY <2>4 DEF m, WireTypes
  <2>6. /\ SubSeq(replies, m + 1, Len(replies)) \in Seq(Reply)
        /\ Len(SubSeq(replies, m + 1, Len(replies))) = Len(replies) - m
        /\ \A i \in 1 .. Len(replies) - m :
             SubSeq(replies, m + 1, Len(replies))[i] = replies[m + i]
    BY <2>5
  <2>7. replies' = SubSeq(replies, m + 1, Len(replies)) /\ reply = replies[m] /\ UNCHANGED timeouts
    BY <1>1 DEF m
  <2>8. \A i \in 1 .. Len(replies') : m + i \in 1 .. Len(replies) /\ replies'[i] = replies[m + i]
    BY <2>5, <2>6, <2>7
  <2>9. timeouts' \in 0 .. MaxTimeouts
    BY <2>7 DEF WireTypes
  <2> QED
    BY <2>4, <2>5, <2>6, <2>7, <2>8, <2>9 DEF Received, m
<1>2. CASE tagged = {} /\ reply = NoReply /\ NothingComes /\ replies' = <<>>
  BY <1>2, WaitEnds DEF Received
<1> QED
  BY <1>1, <1>2 DEF ReadResponse

----------------------------------------------------------------------------
(***************************************************************************)
(* What the client sends.                                                  *)
(***************************************************************************)

\* Tags are numbers.
LEMMA TagsAreNumbers ==
  ASSUME Types
  PROVE  /\ Tag \subseteq Nat
         /\ session.tag \in Nat /\ served \in Nat /\ server.tag \in Nat
         /\ Len(commands) \in Nat /\ Len(replies) \in Nat
         /\ \A i \in 1 .. Len(commands) : commands[i] \in Command /\ commands[i].tag \in Nat
         /\ \A i \in 1 .. Len(replies) : replies[i] \in Reply
<1>1. Tag \subseteq Nat
  BY ImapBoundsAssumption DEF Tag
<1>2. session.tag \in Tag
  BY DEF Types, ClientTypes
<1>3. served \in Tag /\ server.tag \in Tag
  BY DEF Types, ServerTypes, Server
<1>4. commands \in Seq(Command) /\ replies \in Seq(Reply)
  BY DEF Types, WireTypes
<1>5. \A i \in 1 .. Len(commands) : commands[i] \in Command
  BY <1>4
<1>6. \A i \in 1 .. Len(replies) : replies[i] \in Reply
  BY <1>4
<1>7. \A cmd \in Command : cmd.tag \in Tag
  BY DEF Command
<1>8. Len(commands) \in Nat /\ Len(replies) \in Nat
  BY <1>4
<1> QED
  BY <1>1, <1>2, <1>3, <1>5, <1>6, <1>7, <1>8, Zenon

\* A command that is sent is behind the others, or lost.
LEMMA SentIsLast ==
  ASSUME commands \in Seq(Command), NEW cmd \in Command,
         commands' = commands \/ commands' = Append(commands, cmd)
  PROVE  /\ commands' \in Seq(Command)
         /\ \A i \in 1 .. Len(commands') :
              \/ i \in 1 .. Len(commands) /\ commands'[i] = commands[i]
              \/ i = Len(commands) + 1 /\ commands'[i] = cmd
<1>1. CASE commands' = commands
  BY <1>1
<1>2. CASE commands' = Append(commands, cmd)
  <2>1. /\ Append(commands, cmd) \in Seq(Command)
        /\ Len(Append(commands, cmd)) = Len(commands) + 1
        /\ Len(commands) \in Nat
        /\ \A i \in 1 .. Len(commands) + 1 :
             Append(commands, cmd)[i] = IF i <= Len(commands) THEN commands[i] ELSE cmd
    OBVIOUS
  <2> QED
    BY <1>2, <2>1
<1> QED
  BY <1>1, <1>2

\* Only what came before is left.
Fewer ==
  /\ replies' \in Seq(Reply)
  /\ \A i \in 1 .. Len(replies') : \E j \in 1 .. Len(replies) : replies'[i] = replies[j]

\* Where nothing was, nothing is left.
LEMMA FewerKeepEmpty ==
  ASSUME WireTypes, Fewer, replies = <<>>
  PROVE  replies' = <<>>
<1>1. Len(replies) = 0 /\ replies' \in Seq(Reply) /\ Len(replies') \in Nat
  BY DEF WireTypes, Fewer
<1>2. Len(replies') = 0
  <2>1. ASSUME Len(replies') # 0 PROVE FALSE
    <3>1. 1 \in 1 .. Len(replies')
      BY <1>1, <2>1
    <3>2. PICK j \in 1 .. Len(replies) : TRUE
      BY <3>1 DEF Fewer
    <3> QED
      BY <1>1, <3>2
  <2> QED
    BY <2>1
<1> QED
  BY <1>1, <1>2

\* The tags of commands and replies stay in order when the client reads, and sends
\* nothing, a part of its last command or a command with a new tag.
LEMMA ClientKeepsOrder ==
  ASSUME Types, session' \in [stream : BOOLEAN, state : State, tag : Tag],
         Order, Fewer, UNCHANGED <<server, served>>,
         NEW cmd \in Command, cmd.verb # "CONNECT", cmd.tag >= 1,
         cmd.verb = "EXAMINE" => cmd.folder \in Folder,
         cmd.tag = session'.tag,
         \/ commands' = commands /\ session'.tag \in {session.tag, session.tag + 1}
         \/ commands' \in {commands, Append(commands, cmd)} /\ session'.tag = session.tag
              /\ cmd.verb \in Special
         \/ commands' \in {commands, Append(commands, cmd)} /\ session'.tag = session.tag + 1
  PROVE  Order'
<1>1. /\ commands' \in Seq(Command)
      /\ \A i \in 1 .. Len(commands') :
           \/ i \in 1 .. Len(commands) /\ commands'[i] = commands[i]
           \/ i = Len(commands) + 1 /\ commands'[i] = cmd
  BY SentIsLast DEF Types, WireTypes
<1>2. /\ session.tag \in Nat /\ session'.tag \in Nat /\ session.tag <= session'.tag
      /\ served \in Nat /\ server.tag \in Nat /\ Len(commands) \in Nat
      /\ \A i \in 1 .. Len(commands) : commands[i].tag \in Nat
      /\ cmd.tag \in Nat
  <2>1. session'.tag \in Nat /\ cmd.tag \in Nat
    BY TagsAreNumbers
  <2>2. session.tag <= session'.tag
    BY <2>1, TagsAreNumbers
  <2> QED
    BY <2>1, <2>2, TagsAreNumbers
<1>3. served' <= session'.tag /\ server'.tag <= session'.tag
  BY <1>2 DEF Order
<1>4. (server.mode = "literal")' => served' <= server'.tag /\ 1 <= server'.tag
  BY DEF Order
<1>5. ASSUME NEW i \in 1 .. Len(commands)
      PROVE  /\ commands[i].tag <= session'.tag
             /\ served' <= commands[i].tag
             /\ commands[i].verb = "EXAMINE" => commands[i].folder \in Folder
             /\ commands[i].verb = "CONNECT" => server' = NewServer /\ replies' = <<>>
             /\ commands[i].verb # "CONNECT" => commands[i].tag >= 1
             /\ server'.mode = "literal" =>
                  /\ server'.tag <= commands[i].tag
                  /\ commands[i].verb \notin Special => server'.tag < commands[i].tag
  <2>1. OneCommand(commands[i])
    BY DEF Order
  <2>2. replies = <<>> => replies' = <<>>
    BY FewerKeepEmpty DEF Types
  <2> QED
    BY <1>2, <2>1, <2>2 DEF OneCommand
<1>6. ASSUME NEW i \in 1 .. Len(commands'), commands'[i] = cmd, i = Len(commands) + 1
      PROVE  /\ cmd.tag <= session'.tag
             /\ served' <= cmd.tag
             /\ server'.mode = "literal" =>
                  /\ server'.tag <= cmd.tag
                  /\ cmd.verb \notin Special => server'.tag < cmd.tag
  <2>1. served <= session.tag /\ server.tag <= session.tag
    BY DEF Order
  <2>2. commands' # commands
    BY <1>2, <1>6
  <2> QED
    BY <1>2, <2>1, <2>2
<1>7. ASSUME NEW i \in 1 .. Len(commands')
      PROVE  OneCommand(commands[i])'
  <2>1. CASE i \in 1 .. Len(commands) /\ commands'[i] = commands[i]
    BY <1>5, <2>1 DEF OneCommand
  <2>2. CASE i = Len(commands) + 1 /\ commands'[i] = cmd
    BY <1>6, <2>2 DEF OneCommand
  <2> QED
    BY <1>1, <2>1, <2>2
<1>8. ASSUME NEW i \in 1 .. Len(commands'), NEW j \in 1 .. Len(commands'), i < j
      PROVE  TwoCommands(commands'[i], commands'[j])
  <2>1. CASE j \in 1 .. Len(commands)
    BY <1>1, <1>2, <1>8, <2>1 DEF Order
  <2>2. CASE j = Len(commands) + 1 /\ commands'[j] = cmd
    <3>1. i \in 1 .. Len(commands) /\ commands'[i] = commands[i] /\ commands' # commands
      BY <1>1, <1>2, <1>8, <2>2
    <3>2. commands[i].tag <= session.tag
      BY <3>1 DEF Order, OneCommand
    <3> QED
      BY <1>2, <2>2, <3>1, <3>2 DEF TwoCommands
  <2> QED
    BY <1>1, <2>1, <2>2
<1> QED
  BY <1>3, <1>4, <1>7, <1>8 DEF Order, TwoCommands

\* What was answered stays so.
LEMMA ClientKeepsAnswered ==
  ASSUME Types, Answered, Fewer, UNCHANGED <<server, served>>,
         session'.tag \in {session.tag, session.tag + 1}
  PROVE  Answered'
<1>1. session.tag \in Nat /\ \A r \in Reply : r.kind = "tagged" => r.tag \in Nat
  <2>1. \A r \in Reply : r.tag \in {0} \cup 1 .. 2 * MaxCalls
    BY DEF Reply
  <2> QED
    BY <2>1, TagsAreNumbers, ImapBoundsAssumption
<1>2. ASSUME NEW i \in 1 .. Len(replies')
      PROVE  OneReply(replies[i])'
  <2>1. PICK j \in 1 .. Len(replies) : replies'[i] = replies[j]
    BY DEF Fewer
  <2>2. OneReply(replies[j]) /\ replies[j] \in Reply
    BY TagsAreNumbers DEF Answered
  <2>3. replies[j].kind = "tagged" => replies[j].tag \in Nat /\ replies[j].tag <= session.tag
    BY <1>1, <2>2 DEF OneReply
  <2>4. replies[j].kind = "tagged" => replies[j].tag <= session'.tag
    BY <1>1, <2>3
  <2>5. Success(replies[j]) /\ replies[j].tag = session'.tag => session'.tag = session.tag
    BY <1>1, <2>3 DEF Success
  <2>6. Success(replies[j]) /\ replies[j].tag = session'.tag => served' = session'.tag
    BY <2>2, <2>5 DEF OneReply
  <2>7. replies[j].kind = "greeting" /\ replies[j].status = "preauth" => server'.auth
    BY <2>2 DEF OneReply
  <2> QED
    BY <2>1, <2>4, <2>6, <2>7 DEF OneReply, Success
<1> QED
  BY <1>2 DEF Answered

\* A new tag is nowhere but in the command that was sent with it.
LEMMA NewTagIsFresh ==
  ASSUME Types, Order, Answered, Fewer, UNCHANGED server,
         session'.tag = session.tag + 1,
         NEW cmd \in Command,
         commands' = commands \/ commands' = Append(commands, cmd)
  PROVE  /\ server'.tag < session'.tag
         /\ \A i \in 1 .. Len(commands') : commands'[i].tag = session'.tag => commands'[i] = cmd
         /\ \A i \in 1 .. Len(replies') :
              ~(Success(replies'[i]) /\ replies'[i].tag = session'.tag)
<1>1. session.tag \in Nat /\ server.tag \in Nat
  BY TagsAreNumbers
<1>2. server'.tag < session'.tag
  BY <1>1 DEF Order
<1>3. ASSUME NEW i \in 1 .. Len(commands'), commands'[i].tag = session'.tag
      PROVE  commands'[i] = cmd
  <2>1. CASE i \in 1 .. Len(commands) /\ commands'[i] = commands[i]
    <3>1. commands[i].tag <= session.tag /\ commands[i].tag \in Nat
      BY <2>1, TagsAreNumbers DEF Order, OneCommand
    <3> QED
      BY <1>1, <1>3, <2>1, <3>1
  <2> QED
    BY <2>1, SentIsLast DEF Types, WireTypes
<1>4. ASSUME NEW i \in 1 .. Len(replies'), Success(replies'[i]), replies'[i].tag = session'.tag
      PROVE  FALSE
  <2>1. PICK j \in 1 .. Len(replies) : replies'[i] = replies[j]
    BY DEF Fewer
  <2>2. replies[j].tag <= session.tag
    BY <1>4, <2>1 DEF Answered, OneReply, Success
  <2> QED
    BY <1>1, <1>4, <2>1, <2>2
<1> QED
  BY <1>2, <1>3, <1>4

----------------------------------------------------------------------------
(***************************************************************************)
(* How a wait of the client ends.                                          *)
(***************************************************************************)

\* The success of the last command sent.
LEMMA SuccessIsTrue ==
  ASSUME IInv, NEW reply, Received(reply), Answers(reply),
         reply.status = "ok" \/ reply.data # "none"
  PROVE  /\ served = session.tag
         /\ reply.data \in Place
         /\ pc \in {"oauth", "login"} => server.auth
         /\ pc \in {"append", "appendRefused", "appended"} =>
              [tag |-> session.tag, folder |-> caller.folder, intact |-> TRUE] \in stored
<1>1. reply.kind = "tagged" /\ reply.tag = session.tag
  BY DEF Answers
<1>2. NoReply.kind = "none"
  BY DEF NoReply, Line
<1>3. PICK j \in 1 .. Len(replies) : reply = replies[j]
  BY <1>1, <1>2 DEF Received
<1>4. Success(replies[j]) /\ replies[j].tag = session.tag
  BY <1>1, <1>3 DEF Success
<1>5. served = session.tag
  BY <1>4 DEF IInv, Answered, OneReply
<1>6. reply.data \in Place
  BY <1>3, TagsAreNumbers DEF IInv, Reply, Place
<1>7. pc \in {"oauth", "login"} => server.auth
  BY <1>4 DEF IInv, LoginInv
<1>8. pc \in {"append", "appendRefused", "appended"} =>
        [tag |-> session.tag, folder |-> caller.folder, intact |-> TRUE] \in stored
  BY <1>4 DEF IInv, AppendInv
<1> QED
  BY <1>5, <1>6, <1>7, <1>8

\* A step of the client: it reads some replies, and the server does nothing.
ClientStep ==
  /\ Fewer /\ timeouts' \in 0 .. MaxTimeouts
  /\ UNCHANGED <<server, served, stored>>
  /\ session' \in [stream : BOOLEAN, state : State, tag : Tag]
  /\ session'.state \in LoggedIn => server.auth
  /\ connectionInfo' \in BOOLEAN /\ selected' \in Place /\ up' \in BOOLEAN

\* One that sends no command with a new tag.
LEMMA SameTagKeepsOrder ==
  ASSUME Types, Order, Answered, ClientStep, session'.tag = session.tag, commands' = commands
  PROVE  Order' /\ Answered' /\ WireTypes' /\ ServerTypes'
<1>1. WireTypes' /\ ServerTypes'
  BY DEF Types, WireTypes, ServerTypes, ClientStep, Fewer
<1>2. session.tag \in Nat /\ session'.tag \in Tag
  BY TagsAreNumbers DEF ClientStep
<1>3. Answered'
  BY <1>2, ClientKeepsAnswered DEF ClientStep
<1>4. ASSUME NEW i \in 1 .. Len(commands)
      PROVE  OneCommand(commands[i])'
  <2>1. OneCommand(commands[i])
    BY DEF Order
  <2>2. replies = <<>> => replies' = <<>>
    BY FewerKeepEmpty DEF Types, ClientStep
  <2> QED
    BY <2>1, <2>2 DEF OneCommand, ClientStep
<1>5. Order'
  BY <1>4 DEF Order, TwoCommands, ClientStep
<1> QED
  BY <1>1, <1>3, <1>5

\* The parts of IInv that say nothing when no behaviour runs.
LEMMA IdleSaysNothing ==
  ASSUME pc' = "idle", caller' = NoCaller
  PROVE  LoginInv' /\ AppendInv' /\ AppendOnly' /\ NamesFolder'
BY DEF LoginInv, AppendInv, AppendOnly, NamesFolder, NoCaller

\* It is a result, and promises nothing.
LEMMA EmptyIsResult ==
  ASSUME NEW result \in Empty
  PROVE  /\ result \in Result /\ result.op # "append" /\ result.data = "none"
         /\ result.error = "error" \/ SaysNothing(result)
<1>1. 0 \in Tag
  BY ImapBoundsAssumption DEF Tag
<1>2. "none" \in Place /\ "none" \in Data
  BY DEF Data, Place
<1> QED
  BY <1>1, <1>2 DEF Empty, Failed, NoFolders, NothingReturned, Result, Op, SaysNothing

\* A behaviour ends with such a result.
LEMMA EndKeepsIInv ==
  ASSUME IInv, ClientStep, session'.tag = session.tag, UNCHANGED <<calls, commands>>,
         pc' = "idle", caller' = NoCaller, returned' \in Empty
  PROVE  IInv'
<1>1. Order' /\ Answered' /\ WireTypes' /\ ServerTypes'
  BY SameTagKeepsOrder DEF IInv
<1>2. ClientTypes'
  <2>1. returned' \in Result
    BY EmptyIsResult
  <2>2. caller' \in [op : Op, folder : Place, oauth2 : BOOLEAN]
    BY DEF NoCaller, Op, Place
  <2> QED
    BY <2>1, <2>2 DEF IInv, Types, ClientTypes, ClientStep, Pc
<1>3. Budget'
  BY DEF IInv, Budget
<1>4. ResultHolds' /\ AppendedMeansStored'
  BY EmptyIsResult DEF ResultHolds, AppendedMeansStored, SaysNothing
<1>5. LoggedInMeansAuthenticated'
  BY DEF ClientStep, LoggedInMeansAuthenticated
<1>6. LoginInv' /\ AppendInv' /\ AppendOnly' /\ NamesFolder'
  BY IdleSaysNothing
<1> QED
  BY <1>1, <1>2, <1>3, <1>4, <1>5, <1>6 DEF IInv, Types

\* A behaviour ends with an error.
LEMMA FailureKeepsIInv ==
  ASSUME IInv, ClientStep, Fails, session'.tag = session.tag, UNCHANGED calls
  PROVE  IInv'
BY EndKeepsIInv DEF Fails, Empty

\* A behaviour ends with nil.
LEMMA SuccessKeepsIInv ==
  ASSUME IInv, ClientStep, NEW data \in Data, Returns(data),
         session'.tag = session.tag, UNCHANGED calls,
         served = session.tag \/ caller.op = "close",
         caller.op = "append" =>
           [tag |-> session.tag, folder |-> caller.folder, intact |-> TRUE] \in stored
  PROVE  IInv'
<1>1. Order' /\ Answered' /\ WireTypes' /\ ServerTypes'
  BY SameTagKeepsOrder DEF IInv, Returns
<1>2. ClientTypes'
  <2>1. returned' \in Result
    BY DEF Returns, IInv, Types, ClientTypes, Result
  <2>2. caller' \in [op : Op, folder : Place, oauth2 : BOOLEAN]
    BY DEF Returns, NoCaller, Op, Place
  <2> QED
    BY <2>1, <2>2 DEF IInv, Types, ClientTypes, ClientStep, Returns, Pc
<1>3. Budget'
  BY DEF IInv, Budget, Returns
<1>4. ResultHolds' /\ AppendedMeansStored'
  BY DEF Returns, ClientStep, ResultHolds, AppendedMeansStored, SaysNothing
<1>5. LoggedInMeansAuthenticated'
  BY DEF ClientStep, LoggedInMeansAuthenticated
<1>6. LoginInv' /\ AppendInv' /\ AppendOnly' /\ NamesFolder'
  BY IdleSaysNothing DEF Returns
<1> QED
  BY <1>1, <1>2, <1>3, <1>4, <1>5, <1>6 DEF IInv, Types

\* A command with a new tag: a behaviour begins, or goes on.
LEMMA IssueKeepsIInv ==
  ASSUME IInv, ClientStep, NEW verb \in Verb, NEW folder \in Place, NEW state, NEW next \in Pc,
         Issue(verb, folder, state, next),
         verb \notin Special \cup {"CONNECT"},
         verb = "EXAMINE" => folder \in Folder,
         next \notin {"idle", "greeting", "appendRefused", "appended"},
         next \in {"oauth", "login"} => verb \in {"LOGIN", "AUTHENTICATE"},
         caller' \in [op : Op, folder : Place, oauth2 : BOOLEAN],
         caller'.op = "append" <=> next = "append",
         next = "append" => verb = "APPEND" /\ folder = caller'.folder,
         next \in {"oauth", "login", "examine", "searchExamine"} => caller'.folder \in Folder,
         next \in {"examine", "searchExamine"} => state \in LoggedIn,
         returned' = NothingReturned,
         calls' \in 0 .. MaxCalls,
         session.tag + 1 <= 2 * calls',
         next \in {"oauth", "login", "searchExamine"} => session.tag + 1 <= 2 * calls' - 1
  PROVE  IInv'
<1> DEFINE cmd == [verb |-> verb, tag |-> session.tag + 1, folder |-> folder]
<1>1. /\ session'.tag = session.tag + 1 /\ session'.tag \in Tag /\ pc' = next
      /\ session'.state = state
      /\ commands' = commands \/ commands' = Append(commands, cmd)
  BY DEF Issue, ClientStep, IInv, Types, ClientTypes
<1>2. cmd \in Command /\ cmd.tag = session'.tag /\ cmd.verb = verb /\ cmd.folder = folder
  BY <1>1 DEF Command
<1>3. cmd.tag >= 1
  BY <1>2, <1>1, TagsAreNumbers DEF IInv
<1> HIDE DEF cmd
<1>4. Order'
  BY <1>1, <1>2, <1>3, ClientKeepsOrder DEF IInv, ClientStep, Special
<1>5. Answered'
  BY <1>1, ClientKeepsAnswered DEF IInv, ClientStep
<1>6. WireTypes' /\ ServerTypes'
  BY <1>1, <1>2, SentIsLast DEF IInv, Types, WireTypes, ServerTypes, ClientStep, Fewer
<1>7. ClientTypes'
  <2>1. returned' \in Result
    BY EmptyIsResult DEF Empty
  <2> QED
    BY <1>1, <2>1 DEF ClientTypes, ClientStep
<1>8. Budget' /\ NamesFolder'
  BY <1>1, <1>2, <1>3 DEF Budget, NamesFolder
<1>9. ResultHolds' /\ AppendedMeansStored'
  BY <1>1 DEF NothingReturned, SaysNothing, ResultHolds, AppendedMeansStored
<1>10. LoggedInMeansAuthenticated'
  BY DEF ClientStep, LoggedInMeansAuthenticated
<1>11. /\ server'.tag < session'.tag
       /\ \A i \in 1 .. Len(commands') : commands'[i].tag = session'.tag => commands'[i] = cmd
       /\ \A i \in 1 .. Len(replies') :
            ~(Success(replies'[i]) /\ replies'[i].tag = session'.tag)
  BY <1>1, <1>2, NewTagIsFresh DEF IInv, ClientStep
<1>12. LoginInv'
  BY <1>1, <1>2, <1>11 DEF LoginInv, Success
<1>13. AppendInv' /\ AppendOnly'
  <2>1. server'.tag # session'.tag
    BY <1>11, <1>6, <1>1, TagsAreNumbers DEF IInv, ClientStep
  <2> QED
    BY <1>1, <1>2, <1>11, <2>1 DEF AppendInv, AppendOnly, Success
<1> QED
  BY <1>4, <1>5, <1>6, <1>7, <1>8, <1>9, <1>10, <1>12, <1>13 DEF IInv, Types

\* More of the last command: the message, or the line that ends a login.
LEMMA ContinueKeepsIInv ==
  ASSUME IInv, ClientStep, NEW verb, NEW next, Continue(verb, next),
         \/ pc = "oauth" /\ verb = "EMPTY" /\ next = "login"
         \/ pc = "append" /\ verb = "LITERAL" /\ next = "appended",
         UNCHANGED <<caller, returned, calls>>
  PROVE  IInv'
<1> DEFINE cmd == [verb |-> verb, tag |-> session.tag, folder |-> "none"]
<1>1. /\ session' = session /\ session.tag \in Tag /\ pc' = next
      /\ commands' = commands \/ commands' = Append(commands, cmd)
  BY DEF Continue, IInv, Types, ClientTypes
<1>2. /\ cmd \in Command /\ cmd.tag = session'.tag /\ cmd.tag = session.tag
      /\ cmd.verb = verb /\ verb \in Special
  BY <1>1 DEF Command, Verb, Place, Special
<1>3. cmd.tag >= 1
  BY <1>2 DEF IInv, Budget
<1> HIDE DEF cmd
<1>4. Order'
  BY <1>1, <1>2, <1>3, ClientKeepsOrder DEF IInv, ClientStep, Special
<1>5. Answered'
  BY <1>1, ClientKeepsAnswered DEF IInv, ClientStep
<1>6. /\ WireTypes' /\ ServerTypes'
      /\ \A i \in 1 .. Len(commands') :
           \/ i \in 1 .. Len(commands) /\ commands'[i] = commands[i]
           \/ i = Len(commands) + 1 /\ commands'[i] = cmd
  BY <1>1, <1>2, SentIsLast DEF IInv, Types, WireTypes, ServerTypes, ClientStep, Fewer
<1>7. ClientTypes'
  BY <1>1 DEF IInv, Types, ClientTypes, ClientStep, Pc
<1>8. Budget' /\ NamesFolder'
  BY <1>1 DEF IInv, Budget, NamesFolder
<1>9. ResultHolds' /\ AppendedMeansStored' /\ LoggedInMeansAuthenticated'
  BY <1>1 DEF IInv, ClientStep, NothingReturned, ResultHolds, AppendedMeansStored,
              LoggedInMeansAuthenticated
<1>10. \A i \in 1 .. Len(replies') : \E j \in 1 .. Len(replies) : replies'[i] = replies[j]
  BY DEF ClientStep, Fewer
<1>11. LoginInv'
  <2>1. CASE pc = "append"
    BY <1>1, <2>1 DEF LoginInv
  <2>2. CASE pc = "oauth" /\ verb = "EMPTY"
    BY <1>1, <1>2, <1>6, <1>10, <2>2 DEF LoginInv, IInv, ClientStep, Success
  <2> QED
    BY <2>1, <2>2
<1>12. AppendInv'
  <2>1. CASE pc = "oauth"
    BY <1>1, <2>1 DEF AppendInv
  <2>2. CASE pc = "append" /\ verb = "LITERAL"
    BY <1>1, <1>2, <1>6, <1>10, <2>2 DEF AppendInv, IInv, ClientStep, Success
  <2> QED
    BY <2>1, <2>2
<1>13. AppendOnly'
  BY <1>1 DEF IInv, AppendOnly
<1> QED
  BY <1>4, <1>5, <1>6, <1>7, <1>8, <1>9, <1>11, <1>12, <1>13 DEF IInv, Types

----------------------------------------------------------------------------
(***************************************************************************)
(* The actions of the client.                                              *)
(***************************************************************************)

\* A step that reads, sends nothing new to the session and keeps its state.
LEMMA ReadIsClientStep ==
  ASSUME IInv, NEW reply, Received(reply), UNCHANGED <<server, served, stored>>,
         session' \in [stream : BOOLEAN, state : State, tag : Tag],
         session'.state \in LoggedIn => server.auth,
         connectionInfo' \in BOOLEAN, selected' \in Place, up' \in BOOLEAN
  PROVE  ClientStep
BY DEF Received, Fewer, ClientStep

\* A step that reads and changes nothing of the session.
LEMMA QuietRead ==
  ASSUME IInv, NEW reply, Received(reply), UNCHANGED <<server, served, stored>>,
         UNCHANGED <<session, connectionInfo, selected, up>>
  PROVE  ClientStep /\ session'.tag = session.tag
BY ReadIsClientStep DEF IInv, Types, ClientTypes, WireTypes, LoggedInMeansAuthenticated

LEMMA ListKeepsIInv ==
  ASSUME IInv, List
  PROVE  IInv'
<1>1. PICK reply \in Reply :
        /\ ReadResponse(reply)
        /\ \/ Answers(reply) /\ reply.status = "ok" /\ Returns("folders")
           \/ /\ ~(Answers(reply) /\ reply.status = "ok")
              /\ pc' = "idle" /\ caller' = NoCaller /\ returned' = NoFolders
              /\ UNCHANGED commands
  BY DEF List
<1>2. /\ pc = "list" /\ UNCHANGED <<calls, server, served, stored>>
      /\ UNCHANGED <<session, connectionInfo, selected, up>>
  BY DEF List, Waits, serverVars
<1>3. Received(reply)
  BY <1>1, ResponseReceived DEF IInv, Types
<1>4. ClientStep /\ session'.tag = session.tag
  BY <1>2, <1>3, QuietRead
<1>5. CASE Answers(reply) /\ reply.status = "ok"
  <2>1. served = session.tag
    BY <1>3, <1>5, SuccessIsTrue
  <2>2. caller.op # "append"
    BY <1>2 DEF IInv, AppendOnly
  <2>3. "folders" \in Data
    BY DEF Data
  <2> QED
    BY <1>1, <1>2, <1>4, <1>5, <2>1, <2>2, <2>3, SuccessKeepsIInv
<1>6. CASE ~(Answers(reply) /\ reply.status = "ok")
  <2>1. NoFolders \in Empty
    BY DEF Empty
  <2> QED
    BY <1>1, <1>2, <1>4, <1>6, <2>1, EndKeepsIInv
<1> QED
  BY <1>5, <1>6

LEMMA SearchKeepsIInv ==
  ASSUME IInv, Search
  PROVE  IInv'
<1>1. PICK reply \in Reply :
        /\ ReadResponse(reply)
        /\ IF Answers(reply) /\ reply.status = "ok" THEN Returns(reply.data) ELSE Fails
  BY DEF Search
<1>2. /\ pc = "search" /\ UNCHANGED <<calls, server, served, stored>>
      /\ UNCHANGED <<session, connectionInfo, selected, up>>
  BY DEF Search, Waits, serverVars
<1>3. Received(reply)
  BY <1>1, ResponseReceived DEF IInv, Types
<1>4. ClientStep /\ session'.tag = session.tag
  BY <1>2, <1>3, QuietRead
<1>5. CASE Answers(reply) /\ reply.status = "ok"
  <2>1. served = session.tag /\ reply.data \in Data /\ "none" \in Data
    BY <1>3, <1>5, SuccessIsTrue DEF Data, Place
  <2>2. caller.op # "append"
    BY <1>2 DEF IInv, AppendOnly
  <2> QED
    BY <1>1, <1>2, <1>4, <1>5, <2>1, <2>2, SuccessKeepsIInv
<1>6. CASE ~(Answers(reply) /\ reply.status = "ok")
  BY <1>1, <1>2, <1>4, <1>6, FailureKeepsIInv
<1> QED
  BY <1>5, <1>6

LEMMA FetchKeepsIInv ==
  ASSUME IInv, Fetch
  PROVE  IInv'
<1>1. PICK reply \in Reply :
        /\ ReadResponse(reply)
        /\ IF Answers(reply) /\ (reply.status = "ok" \/ reply.data # "none") THEN Returns(reply.data) ELSE Fails
  BY DEF Fetch
<1>2. /\ pc = "fetch" /\ UNCHANGED <<calls, server, served, stored>>
      /\ UNCHANGED <<session, connectionInfo, selected, up>>
  BY DEF Fetch, Waits, serverVars
<1>3. Received(reply)
  BY <1>1, ResponseReceived DEF IInv, Types
<1>4. ClientStep /\ session'.tag = session.tag
  BY <1>2, <1>3, QuietRead
<1>5. CASE Answers(reply) /\ (reply.status = "ok" \/ reply.data # "none")
  <2>1. served = session.tag /\ reply.data \in Data /\ "none" \in Data
    BY <1>3, <1>5, SuccessIsTrue DEF Data, Place
  <2>2. caller.op # "append"
    BY <1>2 DEF IInv, AppendOnly
  <2> QED
    BY <1>1, <1>2, <1>4, <1>5, <2>1, <2>2, SuccessKeepsIInv
<1>6. CASE ~(Answers(reply) /\ (reply.status = "ok" \/ reply.data # "none"))
  BY <1>1, <1>2, <1>4, <1>6, FailureKeepsIInv
<1> QED
  BY <1>5, <1>6

LEMMA AppendedKeepsIInv ==
  ASSUME IInv, Appended
  PROVE  IInv'
<1>1. PICK reply \in Reply :
        /\ ReadResponse(reply)
        /\ IF Answers(reply) /\ reply.status = "ok" THEN Returns("none") ELSE Fails
  BY DEF Appended
<1>2. /\ pc = "appended" /\ UNCHANGED <<calls, server, served, stored>>
      /\ UNCHANGED <<session, connectionInfo, selected, up>>
  BY DEF Appended, Waits, serverVars
<1>3. Received(reply)
  BY <1>1, ResponseReceived DEF IInv, Types
<1>4. ClientStep /\ session'.tag = session.tag
  BY <1>2, <1>3, QuietRead
<1>5. CASE Answers(reply) /\ reply.status = "ok"
  <2>1. served = session.tag /\ reply.data \in Data /\ "none" \in Data
    BY <1>3, <1>5, SuccessIsTrue DEF Data, Place
  <2>2. [tag |-> session.tag, folder |-> caller.folder, intact |-> TRUE] \in stored
    BY <1>2, <1>3, <1>5, SuccessIsTrue
  <2> QED
    BY <1>1, <1>2, <1>4, <1>5, <2>1, <2>2, SuccessKeepsIInv
<1>6. CASE ~(Answers(reply) /\ reply.status = "ok")
  BY <1>1, <1>2, <1>4, <1>6, FailureKeepsIInv
<1> QED
  BY <1>5, <1>6

LEMMA AppendRefusedKeepsIInv ==
  ASSUME IInv, AppendRefused
  PROVE  IInv'
<1>1. PICK reply \in Reply : ReadResponse(reply)
  BY DEF AppendRefused
<1>2. /\ Fails /\ UNCHANGED <<calls, server, served, stored>>
      /\ UNCHANGED <<session, connectionInfo, selected, up>>
  BY DEF AppendRefused, Waits, serverVars
<1>3. Received(reply)
  BY <1>1, ResponseReceived DEF IInv, Types
<1> QED
  BY <1>2, <1>3, QuietRead, FailureKeepsIInv

LEMMA AppendLineKeepsIInv ==
  ASSUME IInv, AppendLine
  PROVE  IInv'
<1>1. PICK reply \in Reply :
        /\ ReadLine(reply)
        /\ \/ /\ reply.kind = "continue"
              /\ Continue("LITERAL", "appended") /\ UNCHANGED <<caller, returned>>
           \/ /\ reply.kind = "untagged"
              /\ pc' = "appendRefused" /\ UNCHANGED <<session, commands, caller, returned>>
           \/ /\ reply.kind \in {"tagged", "none"}
              /\ Fails /\ UNCHANGED session
  BY DEF AppendLine
<1>2. /\ pc = "append" /\ UNCHANGED <<calls, server, served, stored>>
      /\ UNCHANGED <<connectionInfo, selected, up>>
  BY DEF AppendLine, Waits, serverVars
<1>3. Received(reply)
  BY <1>1, LineReceived DEF IInv, Types
<1>4. session' = session
  BY <1>1 DEF Continue
<1>5. ClientStep /\ session'.tag = session.tag
  BY <1>2, <1>3, <1>4, QuietRead
<1>6. CASE Continue("LITERAL", "appended") /\ UNCHANGED <<caller, returned>>
  BY <1>2, <1>5, <1>6, ContinueKeepsIInv
<1>7. CASE pc' = "appendRefused" /\ UNCHANGED <<session, commands, caller, returned>>
  <2>1. Order' /\ Answered' /\ WireTypes' /\ ServerTypes'
    BY <1>5, <1>7, SameTagKeepsOrder DEF IInv
  <2>2. ClientTypes' /\ Budget' /\ NamesFolder' /\ AppendOnly' /\ LoginInv'
    BY <1>2, <1>7, <1>5 DEF IInv, Types, ClientTypes, ClientStep, Budget, NamesFolder, AppendOnly,
                      LoginInv, Pc
  <2>3. ResultHolds' /\ AppendedMeansStored' /\ LoggedInMeansAuthenticated'
    BY <1>2, <1>7, <1>5 DEF IInv, ClientStep, NothingReturned, ResultHolds, AppendedMeansStored,
                      LoggedInMeansAuthenticated
  <2>4. \A k \in 1 .. Len(replies') : \E j \in 1 .. Len(replies) : replies'[k] = replies[j]
    BY <1>5 DEF ClientStep, Fewer
  <2>5. AppendInv'
    BY <1>2, <1>7, <2>4 DEF IInv, AppendInv, Success
  <2> QED
    BY <2>1, <2>2, <2>3, <2>5 DEF IInv, Types
<1>8. CASE Fails /\ UNCHANGED session
  BY <1>2, <1>5, <1>8, FailureKeepsIInv
<1> QED
  BY <1>1, <1>6, <1>7, <1>8

LEMMA OauthKeepsIInv ==
  ASSUME IInv, Oauth
  PROVE  IInv'
<1>1. PICK reply \in Reply : ReadLine(reply) /\ Continue("EMPTY", "login")
  BY DEF Oauth
<1>2. /\ pc = "oauth" /\ UNCHANGED <<calls, server, served, stored>>
      /\ UNCHANGED <<caller, returned>> /\ UNCHANGED <<connectionInfo, selected, up>>
  BY DEF Oauth, Waits, serverVars, actorVars
<1>3. Received(reply)
  BY <1>1, LineReceived DEF IInv, Types
<1>4. session' = session
  BY <1>1 DEF Continue
<1>5. ClientStep
  BY <1>2, <1>3, <1>4, QuietRead
<1> QED
  BY <1>1, <1>2, <1>5, ContinueKeepsIInv

\* A behaviour has been called: there is a call left for its tags.
LEMMA CallsAreCounted ==
  ASSUME IInv
  PROVE  /\ calls \in Nat /\ session.tag \in Nat
         /\ session.tag <= 2 * calls
         /\ pc \in {"oauth", "login", "searchExamine"} => session.tag + 1 <= 2 * calls
         /\ pc = "greeting" => session.tag + 1 <= 2 * calls - 1
         /\ calls < MaxCalls => calls + 1 \in 0 .. MaxCalls
                             /\ session.tag + 1 <= 2 * (calls + 1) - 1
         /\ \A n \in 0 .. 2 * calls : n \in Tag
         /\ calls < MaxCalls => \A n \in 0 .. 2 * (calls + 1) : n \in Tag
BY TagsAreNumbers, ImapBoundsAssumption, SMTT(30) DEF IInv, Types, ClientTypes, Budget, Tag

LEMMA LoginKeepsIInv ==
  ASSUME IInv, Login
  PROVE  IInv'
<1>1. PICK reply \in Reply :
        /\ ReadResponse(reply)
        /\ IF Answers(reply) /\ reply.status = "ok"
           THEN /\ Issue("EXAMINE", Inbox, "authenticated", "examine")
                /\ connectionInfo' = TRUE
                /\ UNCHANGED <<caller, returned>>
           ELSE Fails /\ UNCHANGED <<session, connectionInfo>>
  BY DEF Login
<1>2. /\ pc \in {"login", "oauth"} /\ UNCHANGED <<calls, server, served, stored>>
      /\ UNCHANGED <<selected, up>>
  BY DEF Login, Waits, serverVars
<1>3. Received(reply)
  BY <1>1, ResponseReceived DEF IInv, Types
<1>4. CASE Answers(reply) /\ reply.status = "ok"
  <2>1. /\ Issue("EXAMINE", Inbox, "authenticated", "examine")
        /\ connectionInfo' = TRUE /\ UNCHANGED <<caller, returned>>
    BY <1>1, <1>4
  <2>2. server.auth
    BY <1>2, <1>3, <1>4, SuccessIsTrue
  <2>3. session.tag + 1 <= 2 * calls /\ session.tag + 1 \in Tag
    BY <1>2, CallsAreCounted
  <2>4. session' \in [stream : BOOLEAN, state : State, tag : Tag]
    BY <2>1, <2>3 DEF Issue, IInv, Types, ClientTypes, State
  <2>5. ClientStep
    BY <1>2, <1>3, <2>1, <2>2, <2>4, ReadIsClientStep DEF IInv, Types, ClientTypes, WireTypes
  <2>6. /\ caller.folder \in Folder /\ caller.op # "append"
        /\ caller' \in [op : Op, folder : Place, oauth2 : BOOLEAN]
        /\ returned' = NothingReturned /\ calls' \in 0 .. MaxCalls
    BY <1>2, <2>1 DEF IInv, NamesFolder, AppendOnly, ResultHolds, Types, ClientTypes
  <2>7. Inbox \in Place /\ Inbox \in Folder
    BY InboxAssumption DEF Place
  <2> QED
    BY <1>2, <2>1, <2>3, <2>5, <2>6, <2>7, IssueKeepsIInv DEF Verb, Pc, Special, LoggedIn
<1>5. CASE ~(Answers(reply) /\ reply.status = "ok")
  BY <1>1, <1>2, <1>3, <1>5, QuietRead, FailureKeepsIInv
<1> QED
  BY <1>4, <1>5

LEMMA GreetingKeepsIInv ==
  ASSUME IInv, Greeting
  PROVE  IInv'
<1> DEFINE verb == IF caller.oauth2 THEN "AUTHENTICATE" ELSE "LOGIN"
           next == IF caller.oauth2 THEN "oauth" ELSE "login"
<1>1. PICK reply \in Reply :
       /\ ReadLine(reply)
       /\ \/ /\ reply.kind = "greeting" /\ reply.status = "ok"
             /\ Issue(verb, "none", "nonauthenticated", next)
             /\ UNCHANGED <<caller, returned>>
          \/ /\ reply.kind = "greeting" /\ reply.status = "preauth"
             /\ session' = [session EXCEPT !.state = "authenticated"]
             /\ Fails
          \/ /\ reply.kind # "greeting" \/ reply.status = "bye"
             /\ Fails
             /\ UNCHANGED session
  BY DEF Greeting
<1>2. /\ pc = "greeting" /\ UNCHANGED <<calls, server, served, stored>>
      /\ UNCHANGED <<connectionInfo, selected, up>>
  BY DEF Greeting, Waits, serverVars
<1>3. Received(reply)
  BY <1>1, LineReceived DEF IInv, Types
<1>4. CASE /\ Issue(verb, "none", "nonauthenticated", next)
           /\ UNCHANGED <<caller, returned>>
  <2>1. session.tag + 1 <= 2 * calls - 1 /\ session.tag + 1 <= 2 * calls /\ session.tag + 1 \in Tag
    BY <1>2, CallsAreCounted
  <2>2. session' \in [stream : BOOLEAN, state : State, tag : Tag]
        /\ session'.state = "nonauthenticated"
    BY <1>4, <2>1 DEF Issue, IInv, Types, ClientTypes, State
  <2>3. ClientStep
    BY <1>2, <1>3, <2>2, ReadIsClientStep DEF IInv, Types, ClientTypes, WireTypes, LoggedIn
  <2>4. /\ caller.folder \in Folder /\ caller.op # "append"
        /\ caller' \in [op : Op, folder : Place, oauth2 : BOOLEAN]
        /\ returned' = NothingReturned /\ calls' \in 0 .. MaxCalls
    BY <1>2, <1>4 DEF IInv, NamesFolder, AppendOnly, ResultHolds, Types, ClientTypes
  <2>5. "none" \in Place
    BY DEF Place
  <2>6. /\ verb \in {"LOGIN", "AUTHENTICATE"} /\ verb \in Verb /\ verb # "EXAMINE"
        /\ verb \notin Special \cup {"CONNECT"}
        /\ next \in {"oauth", "login"} /\ next \in Pc
    BY DEF Verb, Special, Pc
  <2> HIDE DEF verb, next
  <2> QED
    BY <1>2, <1>4, <2>1, <2>3, <2>4, <2>5, <2>6, IssueKeepsIInv
<1>5. CASE /\ reply.kind = "greeting" /\ reply.status = "preauth"
           /\ session' = [session EXCEPT !.state = "authenticated"]
           /\ Fails
  <2>1. NoReply.kind = "none"
    BY DEF NoReply, Line
  <2>2. PICK j \in 1 .. Len(replies) : reply = replies[j]
    BY <1>3, <1>5, <2>1 DEF Received
  <2>3. server.auth
    BY <1>5, <2>2 DEF IInv, Answered, OneReply
  <2>4. session' \in [stream : BOOLEAN, state : State, tag : Tag] /\ session'.tag = session.tag
    BY <1>5 DEF IInv, Types, ClientTypes, State
  <2>5. ClientStep
    BY <1>2, <1>3, <2>3, <2>4, ReadIsClientStep DEF IInv, Types, ClientTypes, WireTypes
  <2> QED
    BY <1>2, <1>5, <2>4, <2>5, FailureKeepsIInv
<1>6. CASE Fails /\ UNCHANGED session
  BY <1>2, <1>3, <1>6, QuietRead, FailureKeepsIInv
<1> QED
  BY <1>1, <1>4, <1>5, <1>6

LEMMA ExamineKeepsIInv ==
  ASSUME IInv, Examine
  PROVE  IInv'
<1>1. PICK reply \in Reply :
       /\ ReadResponse(reply)
       /\ IF Answers(reply) /\ reply.status = "ok"
          THEN /\ selected' = caller.folder
               /\ IF pc = "searchExamine"
                  THEN /\ Issue("SEARCH", "none", "selected", "search")
                       /\ UNCHANGED <<caller, returned>>
                  ELSE /\ Returns("none")
                       /\ session' = [session EXCEPT !.state = "selected"]
          ELSE /\ Fails
               /\ session' = [session EXCEPT !.state =
                                IF Answers(reply) THEN "authenticated" ELSE @]
               /\ UNCHANGED selected
  BY DEF Examine
<1>2. /\ pc \in {"examine", "searchExamine"} /\ UNCHANGED <<calls, server, served, stored>>
      /\ UNCHANGED <<connectionInfo, up>>
  BY DEF Examine, Waits, serverVars
<1>3. Received(reply)
  BY <1>1, ResponseReceived DEF IInv, Types
<1>4. server.auth
  BY <1>2 DEF IInv, NamesFolder, LoggedInMeansAuthenticated
<1>5. caller.folder \in Folder /\ caller.folder \in Place /\ caller.op # "append" /\ "none" \in Place
  BY <1>2 DEF IInv, NamesFolder, AppendOnly, Place
<1>6. CASE Answers(reply) /\ reply.status = "ok" /\ pc = "searchExamine"
  <2>1. /\ Issue("SEARCH", "none", "selected", "search")
        /\ selected' = caller.folder /\ UNCHANGED <<caller, returned>>
    BY <1>1, <1>6
  <2>2. session.tag + 1 <= 2 * calls /\ session.tag + 1 \in Tag
    BY <1>6, CallsAreCounted
  <2>3. session' \in [stream : BOOLEAN, state : State, tag : Tag]
    BY <2>1, <2>2 DEF Issue, IInv, Types, ClientTypes, State
  <2>4. ClientStep
    BY <1>2, <1>3, <1>4, <1>5, <2>1, <2>3, ReadIsClientStep DEF IInv, Types, ClientTypes, WireTypes
  <2>5. /\ caller' \in [op : Op, folder : Place, oauth2 : BOOLEAN] /\ caller'.op # "append"
        /\ returned' = NothingReturned /\ calls' \in 0 .. MaxCalls
    BY <1>2, <1>5, <2>1 DEF IInv, ResultHolds, Types, ClientTypes
  <2> QED
    BY <1>2, <1>5, <2>1, <2>2, <2>4, <2>5, IssueKeepsIInv DEF Verb, Pc, Special
<1>7. CASE Answers(reply) /\ reply.status = "ok" /\ pc = "examine"
  <2>1. /\ Returns("none") /\ selected' = caller.folder
        /\ session' = [session EXCEPT !.state = "selected"]
    BY <1>1, <1>7
  <2>2. session' \in [stream : BOOLEAN, state : State, tag : Tag] /\ session'.tag = session.tag
    BY <2>1 DEF IInv, Types, ClientTypes, State
  <2>3. ClientStep
    BY <1>2, <1>3, <1>4, <1>5, <2>1, <2>2, ReadIsClientStep DEF IInv, Types, ClientTypes, WireTypes
  <2>4. served = session.tag
    BY <1>3, <1>7, SuccessIsTrue
  <2>5. "none" \in Data
    BY DEF Data, Place
  <2> QED
    BY <1>2, <1>5, <2>1, <2>2, <2>3, <2>4, <2>5, SuccessKeepsIInv
<1>8. CASE ~(Answers(reply) /\ reply.status = "ok")
  <2>1. /\ Fails /\ UNCHANGED selected
        /\ session' = [session EXCEPT !.state = IF Answers(reply) THEN "authenticated" ELSE @]
    BY <1>1, <1>8
  <2>2. session' \in [stream : BOOLEAN, state : State, tag : Tag] /\ session'.tag = session.tag
    BY <2>1 DEF IInv, Types, ClientTypes, State
  <2>3. ClientStep
    BY <1>2, <1>3, <1>4, <2>1, <2>2, ReadIsClientStep DEF IInv, Types, ClientTypes, WireTypes
  <2> QED
    BY <1>2, <2>1, <2>2, <2>3, FailureKeepsIInv
<1> QED
  BY <1>2, <1>6, <1>7, <1>8

\* A behaviour that returns without a command.
LEMMA AtOnceKeepsIInv ==
  ASSUME IInv, NEW result \in Empty, ReturnsAtOnce(result)
  PROVE  IInv'
<1>1. /\ pc = "idle" /\ calls < MaxCalls /\ calls' = calls + 1 /\ returned' = result
      /\ UNCHANGED <<session, pc, caller, connectionInfo, selected>>
      /\ UNCHANGED <<commands, replies, up, timeouts>> /\ UNCHANGED <<server, served, stored>>
  BY DEF ReturnsAtOnce, wire, serverVars
<1>2. ClientTypes'
  <2>1. returned' \in Result
    BY <1>1, EmptyIsResult
  <2> QED
    BY <1>1, <2>1, CallsAreCounted DEF IInv, Types, ClientTypes
<1>3. WireTypes' /\ ServerTypes'
  BY <1>1 DEF IInv, Types, WireTypes, ServerTypes
<1>4. Budget' /\ NamesFolder'
  BY <1>1, CallsAreCounted DEF IInv, Budget, NamesFolder
<1>5. Order'
  BY <1>1 DEF IInv, Order, OneCommand, TwoCommands
<1>6. Answered'
  BY <1>1 DEF IInv, Answered, OneReply, Success
<1>7. ResultHolds' /\ LoggedInMeansAuthenticated' /\ AppendedMeansStored'
  BY <1>1, EmptyIsResult DEF IInv, ResultHolds, LoggedInMeansAuthenticated, AppendedMeansStored, SaysNothing
<1>8. LoginInv' /\ AppendInv' /\ AppendOnly'
  BY <1>1 DEF IInv, LoginInv, AppendInv, AppendOnly
<1> QED
  BY <1>2, <1>3, <1>4, <1>5, <1>6, <1>7, <1>8 DEF IInv, Types

\* A behaviour that starts with a command.
LEMMA CallKeepsIInv ==
  ASSUME IInv, NEW op \in Op, NEW folder \in Place, NEW place \in Place, NEW verb \in Verb,
         NEW next \in Pc,
         Calls(op, place, FALSE),
         Issue(verb, folder, session.state, next),
         UNCHANGED <<replies, up, timeouts>>,
         verb \notin Special \cup {"CONNECT"},
         verb = "EXAMINE" => folder \in Folder,
         next \notin {"idle", "greeting", "appendRefused", "appended", "oauth", "login"},
         op = "append" <=> next = "append",
         next = "append" => verb = "APPEND" /\ folder = place,
         next \in {"examine", "searchExamine"} => place \in Folder,
         next \in {"examine", "searchExamine"} => session.state \in LoggedIn
  PROVE  IInv'
<1>1. /\ pc = "idle" /\ calls < MaxCalls /\ calls' = calls + 1
      /\ caller' = [op |-> op, folder |-> place, oauth2 |-> FALSE]
      /\ returned' = NothingReturned
      /\ UNCHANGED <<connectionInfo, selected>> /\ UNCHANGED <<server, served, stored>>
  BY DEF Calls, serverVars
<1>2. /\ session.tag + 1 <= 2 * calls' - 1 /\ session.tag + 1 <= 2 * calls' /\ calls' \in 0 .. MaxCalls
      /\ session.tag + 1 \in Tag
  BY <1>1, CallsAreCounted
<1>3. session' \in [stream : BOOLEAN, state : State, tag : Tag] /\ session'.state = session.state
  BY <1>2 DEF Issue, IInv, Types, ClientTypes
<1>4. Fewer
  BY DEF Fewer, IInv, Types, WireTypes
<1>5. ClientStep
  BY <1>1, <1>3, <1>4 DEF ClientStep, IInv, Types, ClientTypes, WireTypes, LoggedInMeansAuthenticated
<1>6. caller' \in [op : Op, folder : Place, oauth2 : BOOLEAN] /\ caller'.op = op /\ caller'.folder = place
  BY <1>1
<1> QED
  BY <1>1, <1>2, <1>5, <1>6, IssueKeepsIInv

\* A behaviour that may only start in some states.
LEMMA BeginsKeepsIInv ==
  ASSUME IInv, NEW op \in Op \ {"none", "connect", "close"}, NEW folder \in Place, NEW states, NEW verb \in Verb,
         NEW refusal \in Empty, Begins(op, folder, states, verb, refusal),
         op \in Pc,
         verb \notin Special \cup {"CONNECT"},
         verb = "EXAMINE" => folder \in Folder,
         op = "append" => verb = "APPEND",
         op \in {"examine", "searchExamine"} => folder \in Folder /\ states \subseteq LoggedIn
  PROVE  IInv'
<1>1. op \notin {"idle", "greeting", "appendRefused", "appended", "oauth", "login"}
  BY DEF Op
<1>2. CASE session.state \in states
  <2>1. /\ Calls(op, folder, FALSE) /\ Issue(verb, folder, session.state, op)
        /\ UNCHANGED <<replies, up, timeouts>>
    BY <1>2 DEF Begins
  <2> QED
    BY <1>1, <1>2, <2>1, CallKeepsIInv
<1>3. CASE session.state \notin states
  BY <1>3, AtOnceKeepsIInv DEF Begins
<1> QED
  BY <1>2, <1>3

LEMMA beGetFoldersKeepsIInv ==
  ASSUME IInv, beGetFolders
  PROVE  IInv'
BY BeginsKeepsIInv DEF Empty, beGetFolders, Op, Verb, Pc, Place, Special, LoggedIn, IInv, Types, ClientTypes

LEMMA beExamineKeepsIInv ==
  ASSUME IInv, NEW folder \in Folder, beExamine(folder)
  PROVE  IInv'
BY BeginsKeepsIInv DEF Empty, beExamine, Op, Verb, Pc, Place, Special, LoggedIn, IInv, Types, ClientTypes

LEMMA beSearchKeepsIInv ==
  ASSUME IInv, NEW folder \in Folder, beSearch(folder)
  PROVE  IInv'
BY BeginsKeepsIInv DEF Empty, beSearch, Op, Verb, Pc, Place, Special, LoggedIn, IInv, Types, ClientTypes

LEMMA beFetchKeepsIInv ==
  ASSUME IInv, beFetch
  PROVE  IInv'
BY BeginsKeepsIInv, AtOnceKeepsIInv
   DEF Empty, beFetch, Op, Verb, Pc, Place, Special, LoggedIn, IInv, Types, ClientTypes

LEMMA beAppendKeepsIInv ==
  ASSUME IInv, NEW folder \in Folder, beAppend(folder)
  PROVE  IInv'
BY BeginsKeepsIInv DEF Empty, beAppend, Op, Verb, Pc, Place, Special, LoggedIn, IInv, Types, ClientTypes

LEMMA beCloseKeepsIInv ==
  ASSUME IInv, beClose
  PROVE  IInv'
BY CallKeepsIInv, ZenonT(30) DEF beClose, Op, Verb, Pc, Place, Special

LEMMA LogoutKeepsIInv ==
  ASSUME IInv, Logout
  PROVE  IInv'
<1>1. PICK reply \in Reply : ReadResponse(reply)
  BY DEF Logout
<1>2. /\ UNCHANGED <<connectionInfo, selected, calls>> /\ UNCHANGED <<server, served, stored>>
      /\ session' = [session EXCEPT !.stream = FALSE, !.state = "disconnected"]
      /\ pc' = "idle" /\ caller' = NoCaller
      /\ returned' = [NothingReturned EXCEPT !.op = "close"]
      /\ up' = FALSE /\ commands' = <<>>
  BY DEF Logout, serverVars
<1>3. Received(reply)
  BY <1>1, ResponseReceived DEF IInv, Types
<1>4. /\ session' \in [stream : BOOLEAN, state : State, tag : Tag] /\ session'.tag = session.tag
      /\ session'.state = "disconnected"
  BY <1>2 DEF IInv, Types, ClientTypes, State
<1>5. Fewer /\ timeouts' \in 0 .. MaxTimeouts
  BY <1>3 DEF Received, Fewer
<1>6. WireTypes' /\ ServerTypes'
  <2>1. <<>> \in Seq(Command) /\ FALSE \in BOOLEAN
    OBVIOUS
  <2>2. WireTypes'
    BY <1>2, <1>5, <2>1 DEF WireTypes, Fewer
  <2>3. ServerTypes'
    BY <1>2 DEF IInv, Types, ServerTypes
  <2> QED
    BY <2>2, <2>3
<1>7. ClientTypes'
  <2>1. returned' \in Result
    BY <1>2, EmptyIsResult DEF Empty
  <2>2. caller' \in [op : Op, folder : Place, oauth2 : BOOLEAN]
    BY <1>2 DEF NoCaller, Op, Place
  <2> QED
    BY <1>2, <1>4, <2>1, <2>2 DEF IInv, Types, ClientTypes, Pc
<1>8. Budget'
  BY <1>2, <1>4 DEF IInv, Budget
<1>9. Order'
  BY <1>2, <1>4 DEF IInv, Order
<1>10. Answered'
  BY <1>2, <1>4, <1>5, ClientKeepsAnswered DEF IInv
<1>11. ResultHolds' /\ AppendedMeansStored' /\ LoggedInMeansAuthenticated'
  BY <1>2, <1>4 DEF NothingReturned, SaysNothing, ResultHolds, AppendedMeansStored, LoggedInMeansAuthenticated,
                    LoggedIn
<1>12. LoginInv' /\ AppendInv' /\ AppendOnly' /\ NamesFolder'
  BY <1>2, IdleSaysNothing
<1> QED
  BY <1>6, <1>7, <1>8, <1>9, <1>10, <1>11, <1>12 DEF IInv, Types

LEMMA beConnectKeepsIInv ==
  ASSUME IInv, NEW oauth2 \in BOOLEAN, beConnect(oauth2)
  PROVE  IInv'
<1> DEFINE cmd == [verb |-> "CONNECT", tag |-> session.tag, folder |-> "none"]
<1>1. CASE ReturnsAtOnce(Failed)
  BY <1>1, AtOnceKeepsIInv DEF Empty
<1>2. CASE /\ session.state = "disconnected"
           /\ pc = "idle" /\ calls < MaxCalls /\ calls' = calls + 1
           /\ session' = [session EXCEPT !.stream = TRUE]
           /\ pc' = "greeting"
           /\ caller' = [op |-> "connect", folder |-> Inbox, oauth2 |-> oauth2]
           /\ returned' = NothingReturned
           /\ commands' = <<cmd>>
           /\ replies' = <<>> /\ up' = TRUE
           /\ server' = NewServer
           /\ UNCHANGED <<connectionInfo, selected, timeouts, served, stored>>
  <2>1. /\ session' \in [stream : BOOLEAN, state : State, tag : Tag] /\ session'.tag = session.tag
        /\ session'.state = "disconnected" /\ session.tag \in Tag
    BY <1>2 DEF IInv, Types, ClientTypes, State
  <2>2. cmd \in Command /\ cmd.tag = session.tag /\ cmd.verb = "CONNECT"
    BY <2>1 DEF Command, Verb, Place
  <2> HIDE DEF cmd
  <2>3. WireTypes'
    BY <1>2, <2>2 DEF IInv, Types, WireTypes
  <2>4. ServerTypes' /\ server'.mode = "command" /\ server'.tag = 0 /\ session.tag \in Nat
    BY <1>2, ImapBoundsAssumption, TagsAreNumbers DEF IInv, Types, ServerTypes, Server, NewServer, Place, Tag
  <2>5. ClientTypes'
    <3>1. returned' \in Result
      BY <1>2, EmptyIsResult DEF Empty
    <3>2. caller' \in [op : Op, folder : Place, oauth2 : BOOLEAN]
      BY <1>2, InboxAssumption DEF Op, Place
    <3> QED
      BY <1>2, <2>1, <3>1, <3>2, CallsAreCounted DEF IInv, Types, ClientTypes, Pc
  <2>6. Budget' /\ NamesFolder'
    BY <1>2, <2>1, InboxAssumption, CallsAreCounted DEF Budget, NamesFolder
  <2>7. Order'
    <3>1. Len(commands') = 1 /\ commands'[1] = cmd
      BY <1>2
    <3>2. ASSUME NEW i \in 1 .. Len(commands')
          PROVE  OneCommand(commands[i])'
      <4>1. commands'[i] = cmd
        BY <3>1
      <4> QED
        BY <1>2, <2>1, <2>2, <2>4, <4>1 DEF IInv, Order, OneCommand
    <3>3. ~(\E i, j \in 1 .. Len(commands') : i < j)
      BY <3>1
    <3> QED
      BY <1>2, <2>1, <2>4, <3>2, <3>3 DEF IInv, Order
  <2>8. Answered'
    BY <1>2 DEF Answered
  <2>9. ResultHolds' /\ AppendedMeansStored' /\ LoggedInMeansAuthenticated'
    BY <1>2, <2>1 DEF NothingReturned, SaysNothing, ResultHolds, AppendedMeansStored, LoggedInMeansAuthenticated,
                      LoggedIn
  <2>10. LoginInv' /\ AppendInv' /\ AppendOnly'
    BY <1>2 DEF LoginInv, AppendInv, AppendOnly
  <2> QED
    BY <2>3, <2>4, <2>5, <2>6, <2>7, <2>8, <2>9, <2>10 DEF IInv, Types
<1> QED
  BY <1>1, <1>2 DEF beConnect

LEMMA DropKeepsIInv ==
  ASSUME IInv, Drop
  PROVE  IInv'
<1>1. PICK n \in 0 .. Len(replies), cut \in {FALSE, CanCutLiteral} :
        LET received == SubSeq(replies, 1, n) IN
        /\ cut => EndsWithMessage(received)
        /\ replies' = IF cut THEN SubSeq(received, 1, n - 1) ELSE received
        /\ server' = [server EXCEPT !.cut = cut]
  BY DEF Drop
<1>2. /\ UNCHANGED <<session, pc, caller, connectionInfo, selected, returned, calls, timeouts>>
      /\ UNCHANGED <<served, stored>>
      /\ up' = FALSE /\ commands' = <<>>
  BY DEF Drop, actorVars
<1> DEFINE received == SubSeq(replies, 1, n)
<1>3. /\ received \in Seq(Reply) /\ Len(received) = n
      /\ \A i \in 1 .. n : i \in 1 .. Len(replies) /\ received[i] = replies[i]
  BY DEF IInv, Types, WireTypes
<1>4. ASSUME cut
      PROVE  /\ n - 1 \in 0 .. n
             /\ SubSeq(received, 1, n - 1) \in Seq(Reply)
             /\ Len(SubSeq(received, 1, n - 1)) = n - 1
             /\ \A i \in 1 .. n - 1 : SubSeq(received, 1, n - 1)[i] = received[i]
  <2>1. received # <<>>
    BY <1>1, <1>4 DEF EndsWithMessage
  <2>2. n - 1 \in 0 .. n
    BY <1>3, <2>1
  <2> HIDE DEF received
  <2> QED
    BY <1>3, <2>2
<1>5. Fewer
  <2>1. CASE cut
    BY <1>1, <1>3, <1>4, <2>1 DEF Fewer
  <2>2. CASE ~cut
    BY <1>1, <1>3, <2>2 DEF Fewer
  <2> QED
    BY <2>1, <2>2
<1>6. /\ server' \in Server
      /\ server'.auth = server.auth /\ server'.mode = server.mode /\ server'.tag = server.tag
      /\ server'.folder = server.folder /\ server'.junk = server.junk
  BY <1>1, ImapFaultsAssumption DEF IInv, Types, ServerTypes, Server
<1>7. ClientTypes' /\ WireTypes' /\ ServerTypes' /\ Budget' /\ NamesFolder'
  <2>1. WireTypes' /\ ServerTypes'
    <3>1. <<>> \in Seq(Command) /\ FALSE \in BOOLEAN
      OBVIOUS
    <3>2. timeouts' \in 0 .. MaxTimeouts
      BY <1>2 DEF IInv, Types, WireTypes
    <3>3. WireTypes'
      BY <1>2, <1>5, <3>1, <3>2 DEF WireTypes, Fewer
    <3>4. ServerTypes'
      BY <1>2, <1>6 DEF IInv, Types, ServerTypes
    <3> QED
      BY <3>3, <3>4
  <2>2. ClientTypes'
    BY <1>2 DEF IInv, Types, ClientTypes
  <2>3. Budget' /\ NamesFolder'
    BY <1>2 DEF IInv, Budget, NamesFolder
  <2> QED
    BY <2>1, <2>2, <2>3
<1>8. Order'
  BY <1>2, <1>6 DEF IInv, Order
<1>9. \A i \in 1 .. Len(replies') : \E j \in 1 .. Len(replies) : replies'[i] = replies[j]
  BY <1>5 DEF Fewer
<1>10. Answered'
  <2>1. ASSUME NEW i \in 1 .. Len(replies')
        PROVE  OneReply(replies[i])'
    <3>1. PICK j \in 1 .. Len(replies) : replies'[i] = replies[j]
      BY <1>9
    <3>2. OneReply(replies[j])
      BY DEF IInv, Answered
    <3> QED
      BY <1>2, <1>6, <3>1, <3>2 DEF OneReply, Success
  <2> QED
    BY <2>1 DEF Answered
<1>11. ResultHolds' /\ AppendedMeansStored' /\ LoggedInMeansAuthenticated'
  BY <1>2, <1>6 DEF IInv, ResultHolds, NothingReturned, AppendedMeansStored,
                    LoggedInMeansAuthenticated
<1>12. LoginInv'
  BY <1>2, <1>6, <1>9 DEF IInv, LoginInv, Success
<1>13. AppendInv'
  <2>1. SUFFICES ASSUME pc \in {"append", "appendRefused", "appended"}
                 PROVE  AppendInv'
    BY <1>2 DEF AppendInv
  <2>2. /\ caller.op = "append"
        /\ server.mode = "literal" /\ server.tag = session.tag =>
             server.folder = caller.folder /\ ~server.junk
    BY <2>1 DEF IInv, AppendInv
  <2>3. ASSUME NEW i \in 1 .. Len(replies'), Success(replies'[i]), replies'[i].tag = session.tag
        PROVE  [tag |-> session.tag, folder |-> caller.folder, intact |-> TRUE] \in stored
    BY <1>9, <2>1, <2>3 DEF IInv, AppendInv
  <2>4. Len(commands') = 0
    BY <1>2
  <2>5. server'.mode = "literal" /\ server'.tag = session'.tag =>
             server'.folder = caller'.folder /\ ~server'.junk
    BY <1>2, <1>6, <2>2
  <2>6. \A i \in 1 .. Len(replies') :
          (Success(replies[i]) /\ replies[i].tag = session.tag)' =>
             ([tag |-> session.tag, folder |-> caller.folder, intact |-> TRUE] \in stored)'
    BY <1>2, <2>3 DEF Success
  <2>7. caller'.op = "append" /\ ~(\E i \in 1 .. Len(commands') : TRUE)
    BY <1>2, <2>2, <2>4
  <2> QED
    BY <2>5, <2>6, <2>7, Zenon DEF AppendInv
<1>14. AppendOnly'
  BY <1>2 DEF IInv, AppendOnly
<1> QED
  BY <1>7, <1>8, <1>10, <1>11, <1>12, <1>13, <1>14 DEF IInv, Types

----------------------------------------------------------------------------
(***************************************************************************)
(* The server.                                                             *)
(***************************************************************************)

\* A reply that the server adds when it takes in cmd.
NewReply(cmd, r) ==
  /\ r \in Reply
  /\ r.kind = "tagged" => r.tag = cmd.tag \/ (server.mode = "literal" /\ r.tag = server.tag)
  /\ r.kind = "greeting" /\ r.status = "preauth" => server'.auth
  /\ Success(r) =>
       /\ served' = r.tag
       /\ \/ /\ server.mode = "command" /\ r.tag = cmd.tag
             /\ cmd.verb \notin {"LITERAL", "EMPTY", "APPEND", "CONNECT"}
             /\ cmd.verb \in {"LOGIN", "AUTHENTICATE"} => server'.auth
          \/ /\ server.mode = "literal" /\ r.tag = server.tag
             /\ cmd.verb = "LITERAL" /\ cmd.tag = server.tag /\ ~server.junk =>
                  [tag |-> server.tag, folder |-> server.folder, intact |-> TRUE] \in stored'
Grows(cmd) ==
  /\ replies' \in Seq(Reply)
  /\ \A i \in 1 .. Len(replies') :
       (\E j \in 1 .. Len(replies) : replies'[i] = replies[j]) \/ NewReply(cmd, replies'[i])

\* How cmd changes the server.
ServesNumber(cmd) ==
  \/ served' = served
  \/ server.mode = "command" /\ served' = cmd.tag
  \/ server.mode = "literal" /\ served' = server.tag
ChangesMode(cmd) ==
  \/ server'.mode # "literal" /\ server'.tag \in {server.tag, 0}
  \/ /\ server.mode = "command" /\ server'.mode = "literal" /\ cmd.verb = "APPEND"
     /\ server'.tag = cmd.tag /\ server'.folder = cmd.folder /\ ~server'.junk
  \/ /\ server.mode = "literal" /\ server'.mode = "literal"
     /\ server'.tag = server.tag /\ server'.folder = server.folder
     /\ server'.junk => ~(cmd.verb = "LITERAL" /\ cmd.tag = server.tag /\ ~server.junk)
Effect(cmd) ==
  /\ server' \in Server /\ served' \in Tag /\ stored \subseteq stored'
  /\ server.auth => server'.auth \/ cmd.verb = "CONNECT"
  /\ ServesNumber(cmd) /\ ChangesMode(cmd) /\ Grows(cmd)

\* What the server adds is one reply, two, or none.
LEMMA RepliesGrow ==
  ASSUME replies \in Seq(Reply), NEW cmd,
         \/ replies' = replies
         \/ \E r : replies' = Append(replies, r) /\ NewReply(cmd, r)
         \/ \E r, s : replies' = replies \o <<r, s>> /\ NewReply(cmd, r) /\ NewReply(cmd, s)
         \/ \E r, s : replies' = Append(replies, r) \o <<s>> /\ NewReply(cmd, r) /\ NewReply(cmd, s)
  PROVE  Grows(cmd)
<1>1. CASE replies' = replies
  BY <1>1 DEF Grows
<1>2. ASSUME NEW r, replies' = Append(replies, r), NewReply(cmd, r)
      PROVE  Grows(cmd)
  <2>1. r \in Reply
    BY <1>2 DEF NewReply
  <2>2. /\ Append(replies, r) \in Seq(Reply)
        /\ Len(Append(replies, r)) = Len(replies) + 1 /\ Len(replies) \in Nat
        /\ \A i \in 1 .. Len(replies) + 1 :
             Append(replies, r)[i] = IF i <= Len(replies) THEN replies[i] ELSE r
    BY <2>1
  <2> QED
    BY <1>2, <2>2 DEF Grows
<1>3. ASSUME NEW r, NEW s, replies' = replies \o <<r, s>>, NewReply(cmd, r), NewReply(cmd, s)
      PROVE  Grows(cmd)
  <2>1. r \in Reply /\ s \in Reply
    BY <1>3 DEF NewReply
  <2>2. /\ <<r, s>> \in Seq(Reply) /\ Len(<<r, s>>) = 2
        /\ <<r, s>>[1] = r /\ <<r, s>>[2] = s
    BY <2>1
  <2>3. /\ replies' \in Seq(Reply)
        /\ Len(replies') = Len(replies) + 2 /\ Len(replies) \in Nat
        /\ \A i \in 1 .. Len(replies) + 2 :
             replies'[i] = IF i <= Len(replies) THEN replies[i] ELSE <<r, s>>[i - Len(replies)]
    BY <1>3, <2>2, ConcatProperties
  <2>4. ASSUME NEW i \in 1 .. Len(replies')
        PROVE  i \in 1 .. Len(replies) \/ i - Len(replies) = 1 \/ i - Len(replies) = 2
    BY <2>3
  <2> QED
    BY <1>3, <2>2, <2>3, <2>4 DEF Grows
<1>4. ASSUME NEW r, NEW s, replies' = Append(replies, r) \o <<s>>, NewReply(cmd, r), NewReply(cmd, s)
      PROVE  Grows(cmd)
  <2>1. r \in Reply /\ s \in Reply
    BY <1>4 DEF NewReply
  <2>2. /\ Append(replies, r) \in Seq(Reply)
        /\ Len(Append(replies, r)) = Len(replies) + 1 /\ Len(replies) \in Nat
        /\ \A i \in 1 .. Len(replies) + 1 :
             Append(replies, r)[i] = IF i <= Len(replies) THEN replies[i] ELSE r
        /\ <<s>> \in Seq(Reply) /\ Len(<<s>>) = 1 /\ <<s>>[1] = s
    BY <2>1
  <2> DEFINE more == Append(replies, r)
  <2> HIDE DEF more
  <2>3. /\ replies' \in Seq(Reply)
        /\ Len(replies') = Len(more) + 1
        /\ \A i \in 1 .. Len(more) + 1 :
             replies'[i] = IF i <= Len(more) THEN more[i] ELSE <<s>>[i - Len(more)]
    BY <1>4, <2>2, ConcatProperties DEF more
  <2>4. ASSUME NEW i \in 1 .. Len(replies')
        PROVE  \/ i \in 1 .. Len(replies) /\ replies'[i] = replies[i]
               \/ replies'[i] = r \/ replies'[i] = s
    BY <2>2, <2>3 DEF more
  <2> QED
    BY <1>4, <2>3, <2>4 DEF Grows
<1> QED
  BY <1>1, <1>2, <1>3, <1>4

\* Replies have their types.
LEMMA TaggedIsReply ==
  ASSUME NEW tag \in Tag, tag >= 1, NEW status \in {"ok", "no", "bad"}, NEW data \in Place
  PROVE  /\ Tagged(tag, status, data) \in Reply
         /\ Tagged(tag, status, data).kind = "tagged" /\ Tagged(tag, status, data).tag = tag
         /\ Tagged(tag, status, data).status = status /\ Tagged(tag, status, data).data = data
BY ImapBoundsAssumption DEF Tagged, Reply, Tag, Place

\* So do lines without a tag.
LEMMA LineIsReply ==
  ASSUME NEW kind \in {"greeting", "continue", "untagged", "none"}, NEW status \in {"ok", "preauth", "bye"}
  PROVE  /\ Line(kind, status) \in Reply
         /\ Line(kind, status).kind = kind /\ Line(kind, status).status = status
BY DEF Line, Reply

\* A reply that tells of no success.
LEMMA RefusalIsNew ==
  ASSUME Types, NEW cmd \in Command, cmd.verb # "CONNECT" => cmd.tag >= 1,
         cmd.verb # "CONNECT", NEW status \in {"no", "bad"}
  PROVE  NewReply(cmd, Tagged(cmd.tag, status, "none"))
<1>1. cmd.tag \in Tag /\ "none" \in Place
  BY DEF Command, Place
<1> DEFINE r == Tagged(cmd.tag, status, "none")
<1>2. r \in Reply /\ r.kind = "tagged" /\ r.tag = cmd.tag /\ r.status = status /\ r.data = "none"
  BY <1>1, TaggedIsReply
<1> HIDE DEF r
<1>3. NewReply(cmd, r)
  BY <1>2 DEF NewReply, Success
<1> QED
  BY <1>3 DEF r

\* A line without a tag, other than a greeting, says nothing that IInv is about.
LEMMA LineIsNew ==
  ASSUME NEW cmd, NEW kind \in {"continue", "untagged"}
  PROVE  NewReply(cmd, Line(kind, "ok"))
<1>1. Line(kind, "ok") \in Reply /\ Line(kind, "ok").kind = kind
  BY LineIsReply
<1> QED
  BY <1>1 DEF NewReply, Success

\* The server is in the state command, and says yes to cmd.
LEMMA SuccessIsNew ==
  ASSUME Types, NEW cmd \in Command, cmd.tag >= 1, server.mode = "command",
         cmd.verb \notin {"LITERAL", "EMPTY", "APPEND", "CONNECT"},
         served' = cmd.tag,
         cmd.verb \in {"LOGIN", "AUTHENTICATE"} => server'.auth,
         NEW status \in {"ok", "no"}, NEW data \in Place
  PROVE  NewReply(cmd, Tagged(cmd.tag, status, data))
<1>1. cmd.tag \in Tag
  BY DEF Command
<1> DEFINE r == Tagged(cmd.tag, status, data)
<1>2. r \in Reply /\ r.kind = "tagged" /\ r.tag = cmd.tag
  BY <1>1, TaggedIsReply
<1> HIDE DEF r
<1>3. NewReply(cmd, r)
  BY <1>2 DEF NewReply
<1> QED
  BY <1>3 DEF r

\* The parts of Effect when the server only answers.
LEMMA SameServer ==
  ASSUME Types, NEW cmd \in Command, UNCHANGED <<server, stored>>,
         served' = served \/ (server.mode = "command" /\ served' = cmd.tag),
         Grows(cmd)
  PROVE  Effect(cmd)
<1>1. served' \in Tag /\ ServesNumber(cmd)
  BY DEF Types, ServerTypes, Command, ServesNumber
<1>2. ChangesMode(cmd)
  BY DEF ChangesMode, Types, ServerTypes, Server
<1> QED
  BY <1>1, <1>2 DEF Effect, Types, ServerTypes

\* A command that a server in the state command answers.
Servable(cmd) ==
  /\ cmd \in Command /\ cmd.verb # "CONNECT" /\ cmd.tag >= 1 /\ server.mode = "command"

\* LIST and LOGOUT.
LEMMA SimpleEffect ==
  ASSUME Types, NEW cmd, Servable(cmd), cmd.verb \in {"LIST", "LOGOUT"}, Simple(cmd)
  PROVE  Effect(cmd)
<1>1. UNCHANGED <<server, stored>> /\ "none" \in Place /\ replies \in Seq(Reply)
  BY DEF Simple, Place, Types, WireTypes
<1>2. CASE Answer(cmd.tag, "ok", "none") /\ served' = cmd.tag
  <2>1. NewReply(cmd, Tagged(cmd.tag, "ok", "none"))
    BY <1>1, <1>2, SuccessIsNew DEF Servable
  <2>2. Grows(cmd)
    BY <1>1, <1>2, <2>1, RepliesGrow DEF Answer
  <2> QED
    BY <1>1, <1>2, <2>2, SameServer DEF Servable
<1>3. CASE Answer(cmd.tag, "no", "none") /\ UNCHANGED served
  <2>1. NewReply(cmd, Tagged(cmd.tag, "no", "none"))
    BY RefusalIsNew DEF Servable
  <2>2. Grows(cmd)
    BY <1>1, <1>3, <2>1, RepliesGrow DEF Answer
  <2> QED
    BY <1>1, <1>3, <2>2, SameServer DEF Servable
<1> QED
  BY <1>2, <1>3 DEF Simple

\* LOGIN, and AUTHENTICATE answered at once.
LEMMA LoginEffect ==
  ASSUME Types, NEW cmd, Servable(cmd), cmd.verb \in {"LOGIN", "AUTHENTICATE"}, ServeLogin(cmd)
  PROVE  Effect(cmd)
<1>1. "none" \in Place /\ replies \in Seq(Reply) /\ server \in Server /\ cmd.tag \in Tag
  BY DEF Place, Types, WireTypes, ServerTypes, Servable, Command
<1>2. CASE /\ Answer(cmd.tag, "ok", "none")
           /\ server' = [server EXCEPT !.auth = TRUE, !.mode = "command"]
           /\ served' = cmd.tag /\ UNCHANGED stored
  <2>1. server' \in Server /\ server'.auth /\ server'.mode = "command" /\ server'.tag = server.tag
    BY <1>1, <1>2 DEF Server
  <2>2. NewReply(cmd, Tagged(cmd.tag, "ok", "none"))
    BY <1>1, <1>2, <2>1, SuccessIsNew DEF Servable
  <2>3. Grows(cmd)
    BY <1>1, <1>2, <2>2, RepliesGrow DEF Answer
  <2> QED
    BY <1>1, <1>2, <2>1, <2>3 DEF Effect, ServesNumber, ChangesMode, Servable
<1>3. CASE /\ Answer(cmd.tag, "no", "none")
           /\ server' = [server EXCEPT !.mode = "command"] /\ UNCHANGED <<served, stored>>
  <2>1. NewReply(cmd, Tagged(cmd.tag, "no", "none"))
    BY RefusalIsNew DEF Servable
  <2>2. Grows(cmd)
    BY <1>1, <1>3, <2>1, RepliesGrow DEF Answer
  <2>3. server' \in Server /\ server'.mode = "command" /\ server'.tag = server.tag
        /\ server'.auth = server.auth
    BY <1>1, <1>3 DEF Server
  <2> QED
    BY <1>1, <1>3, <2>2, <2>3 DEF Effect, ServesNumber, ChangesMode, Types, ServerTypes
<1> QED
  BY <1>2, <1>3 DEF ServeLogin

\* SELECT and EXAMINE.
LEMMA ExamineEffect ==
  ASSUME Types, NEW cmd, Servable(cmd), cmd.verb = "EXAMINE", cmd.folder \in Folder,
         ServeExamine(cmd)
  PROVE  Effect(cmd)
<1>1. "none" \in Place /\ replies \in Seq(Reply) /\ server \in Server /\ cmd.tag \in Tag
      /\ cmd.folder \in Place
  BY DEF Place, Types, WireTypes, ServerTypes, Servable, Command
<1>2. CASE /\ Answer(cmd.tag, "ok", "none")
           /\ server' = [server EXCEPT !.selected = cmd.folder]
           /\ served' = cmd.tag /\ UNCHANGED stored
  <2>1. server' \in Server /\ server'.auth = server.auth /\ server'.mode = server.mode
        /\ server'.tag = server.tag
    BY <1>1, <1>2 DEF Server
  <2>2. NewReply(cmd, Tagged(cmd.tag, "ok", "none"))
    BY <1>1, <1>2, SuccessIsNew DEF Servable
  <2>3. Grows(cmd)
    BY <1>1, <1>2, <2>2, RepliesGrow DEF Answer
  <2> QED
    BY <1>1, <1>2, <2>1, <2>3 DEF Effect, ServesNumber, ChangesMode, Servable
<1>3. CASE /\ Answer(cmd.tag, "no", "none")
           /\ server' = [server EXCEPT !.selected = "none"] /\ UNCHANGED <<served, stored>>
  <2>1. NewReply(cmd, Tagged(cmd.tag, "no", "none"))
    BY RefusalIsNew DEF Servable
  <2>2. Grows(cmd)
    BY <1>1, <1>3, <2>1, RepliesGrow DEF Answer
  <2>3. server' \in Server /\ server'.mode = server.mode /\ server'.tag = server.tag
        /\ server'.auth = server.auth
    BY <1>1, <1>3 DEF Server
  <2> QED
    BY <1>1, <1>3, <2>2, <2>3 DEF Effect, ServesNumber, ChangesMode, Types, ServerTypes, Servable
<1> QED
  BY <1>2, <1>3 DEF ServeExamine

\* SEARCH and FETCH.
LEMMA DataEffect ==
  ASSUME Types, NEW cmd, Servable(cmd), cmd.verb \in {"SEARCH", "FETCH"}, ServeData(cmd)
  PROVE  Effect(cmd)
<1>1. "none" \in Place /\ replies \in Seq(Reply) /\ server.selected \in Place
      /\ UNCHANGED <<server, stored>>
  BY DEF Place, Types, WireTypes, ServerTypes, Server, ServeData
<1>2. ASSUME NEW status \in {"ok", "no"}, Answer(cmd.tag, status, server.selected), served' = cmd.tag
      PROVE  Effect(cmd)
  <2>1. NewReply(cmd, Tagged(cmd.tag, status, server.selected))
    BY <1>1, <1>2, SuccessIsNew DEF Servable
  <2>2. Grows(cmd)
    BY <1>1, <1>2, <2>1, RepliesGrow DEF Answer
  <2> QED
    BY <1>1, <1>2, <2>2, SameServer DEF Servable
<1>3. ASSUME NEW status \in {"no", "bad"}, Answer(cmd.tag, status, "none"), UNCHANGED served
      PROVE  Effect(cmd)
  <2>1. NewReply(cmd, Tagged(cmd.tag, status, "none"))
    BY RefusalIsNew DEF Servable
  <2>2. Grows(cmd)
    BY <1>1, <1>3, <2>1, RepliesGrow DEF Answer
  <2> QED
    BY <1>1, <1>3, <2>2, SameServer DEF Servable
<1> QED
  BY <1>2, <1>3 DEF ServeData

\* APPEND.
LEMMA AppendEffect ==
  ASSUME Types, NEW cmd, Servable(cmd), cmd.verb = "APPEND", ServeAppend(cmd)
  PROVE  Effect(cmd)
<1>1. replies \in Seq(Reply) /\ server \in Server /\ cmd.tag \in Tag /\ cmd.folder \in Place
  BY DEF Types, WireTypes, ServerTypes, Servable, Command
<1>2. CASE /\ \/ replies' = Append(replies, Line("continue", "ok"))
              \/ replies' = replies \o <<Line("untagged", "ok"), Line("continue", "ok")>>
           /\ server' = [server EXCEPT !.mode = "literal", !.tag = cmd.tag,
                                       !.folder = cmd.folder, !.junk = FALSE]
           /\ UNCHANGED <<served, stored>>
  <2>1. NewReply(cmd, Line("continue", "ok")) /\ NewReply(cmd, Line("untagged", "ok"))
    BY LineIsNew
  <2>2. Grows(cmd)
    BY <1>1, <1>2, <2>1, RepliesGrow
  <2>3. /\ server' \in Server /\ server'.mode = "literal" /\ server'.tag = cmd.tag
        /\ server'.folder = cmd.folder /\ ~server'.junk /\ server'.auth = server.auth
    BY <1>1, <1>2 DEF Server
  <2> QED
    BY <1>1, <1>2, <2>2, <2>3 DEF Effect, ServesNumber, ChangesMode, Types, ServerTypes, Servable
<1>3. CASE Answer(cmd.tag, "no", "none") /\ UNCHANGED serverVars
  <2>1. NewReply(cmd, Tagged(cmd.tag, "no", "none"))
    BY RefusalIsNew DEF Servable
  <2>2. Grows(cmd)
    BY <1>1, <1>3, <2>1, RepliesGrow DEF Answer
  <2>3. UNCHANGED <<server, served, stored>>
    BY <1>3 DEF serverVars
  <2> QED
    BY <2>2, <2>3, SameServer DEF Servable
<1> QED
  BY <1>2, <1>3 DEF ServeAppend

\* Any command in the state command.
LEMMA CommandEffect ==
  ASSUME Types, NEW cmd \in Command, OneCommand(cmd), ServeCommand(cmd)
  PROVE  Effect(cmd)
<1>1. /\ replies \in Seq(Reply) /\ server \in Server /\ server.mode = "command"
      /\ cmd.verb # "CONNECT" => Servable(cmd)
  BY DEF Types, WireTypes, ServerTypes, ServeCommand, OneCommand, Servable
<1>2. ASSUME cmd.verb = "CONNECT", NEW status \in {"ok", "preauth", "bye"},
             replies' = Append(replies, Line("greeting", status)),
             server' = [server EXCEPT !.auth = status = "preauth"],
             UNCHANGED <<served, stored>>
      PROVE  Effect(cmd)
  <2>1. /\ server' \in Server /\ server'.mode = "command" /\ server'.tag = server.tag
        /\ status = "preauth" => server'.auth
    BY <1>1, <1>2 DEF Server
  <2>2. Line("greeting", status) \in Reply /\ Line("greeting", status).kind = "greeting"
        /\ Line("greeting", status).status = status
    BY LineIsReply
  <2>3. NewReply(cmd, Line("greeting", status))
    BY <2>1, <2>2 DEF NewReply, Success
  <2>4. Grows(cmd)
    BY <1>1, <1>2, <2>3, RepliesGrow
  <2> QED
    BY <1>2, <2>1, <2>4 DEF Effect, ServesNumber, ChangesMode, Types, ServerTypes
<1>3. CASE /\ cmd.verb = "AUTHENTICATE"
           /\ replies' = Append(replies, Line("continue", "ok"))
           /\ server' = [server EXCEPT !.mode = "authenticate"]
           /\ UNCHANGED <<served, stored>>
  <2>1. /\ server' \in Server /\ server'.mode = "authenticate" /\ server'.tag = server.tag
        /\ server'.auth = server.auth
    BY <1>1, <1>3 DEF Server
  <2>2. NewReply(cmd, Line("continue", "ok"))
    BY LineIsNew
  <2>3. Grows(cmd)
    BY <1>1, <1>3, <2>2, RepliesGrow
  <2> QED
    BY <1>3, <2>1, <2>3 DEF Effect, ServesNumber, ChangesMode, Types, ServerTypes
<1>4. CASE /\ cmd.verb \in {"LITERAL", "EMPTY"}
           /\ replies' = Append(replies, Line("untagged", "ok"))
           /\ UNCHANGED serverVars
  <2>1. NewReply(cmd, Line("untagged", "ok"))
    BY LineIsNew
  <2>2. Grows(cmd)
    BY <1>1, <1>4, <2>1, RepliesGrow
  <2>3. UNCHANGED <<server, served, stored>>
    BY <1>4 DEF serverVars
  <2> QED
    BY <2>2, <2>3, SameServer
<1>5. cmd.verb = "EXAMINE" => cmd.folder \in Folder
  BY DEF OneCommand
<1>6. CASE cmd.verb \in {"LOGIN", "AUTHENTICATE"} /\ ServeLogin(cmd)
  BY <1>1, <1>6, LoginEffect
<1>7. CASE cmd.verb = "EXAMINE" /\ ServeExamine(cmd)
  BY <1>1, <1>5, <1>7, ExamineEffect
<1>8. CASE cmd.verb \in {"SEARCH", "FETCH"} /\ ServeData(cmd)
  BY <1>1, <1>8, DataEffect
<1>9. CASE cmd.verb = "APPEND" /\ ServeAppend(cmd)
  BY <1>1, <1>9, AppendEffect
<1>10. CASE cmd.verb \in {"LIST", "LOGOUT"} /\ Simple(cmd)
  BY <1>1, <1>10, SimpleEffect
<1> QED
  BY <1>2, <1>3, <1>4, <1>6, <1>7, <1>8, <1>9, <1>10 DEF ServeCommand

\* The end of a login exchange.
LEMMA AuthenticateEffect ==
  ASSUME Types, NEW cmd \in Command, OneCommand(cmd), ServeAuthenticate(cmd)
  PROVE  Effect(cmd)
<1>1. /\ Answer(cmd.tag, "no", "none")
      /\ server' = [server EXCEPT !.mode = "command"] /\ UNCHANGED <<served, stored>>
      /\ server.mode = "authenticate"
  BY DEF ServeAuthenticate
<1>2. cmd.verb # "CONNECT" /\ cmd.tag >= 1
  BY <1>1 DEF OneCommand, NewServer
<1>3. server' \in Server /\ server'.mode = "command" /\ server'.tag = server.tag
      /\ server'.auth = server.auth
  BY <1>1 DEF Types, ServerTypes, Server
<1>4. NewReply(cmd, Tagged(cmd.tag, "no", "none"))
  BY <1>2, RefusalIsNew
<1>5. Grows(cmd)
  BY <1>1, <1>4, RepliesGrow DEF Answer, Types, WireTypes
<1> QED
  BY <1>1, <1>3, <1>5 DEF Effect, ServesNumber, ChangesMode, Types, ServerTypes

\* The message of an APPEND, or what comes in its place.
LEMMA LiteralEffect ==
  ASSUME Types, NEW cmd \in Command, OneCommand(cmd), ServeLiteral(cmd), server.tag >= 1
  PROVE  Effect(cmd)
<1> DEFINE whole == cmd.verb = "LITERAL" /\ cmd.tag = server.tag /\ ~server.junk
           rest == IF whole THEN <<>> ELSE <<Line("untagged", "ok")>>
<1>1. /\ replies \in Seq(Reply) /\ server \in Server /\ server.mode = "literal"
      /\ server.tag \in Tag /\ "none" \in Place
  BY DEF Types, WireTypes, ServerTypes, Server, ServeLiteral, Place
<1>2. CASE /\ ~whole
           /\ server' = [server EXCEPT !.junk = TRUE, !.swallowed = TRUE]
           /\ UNCHANGED <<replies, served, stored>>
  <2>1. /\ server' \in Server /\ server'.mode = "literal" /\ server'.tag = server.tag
        /\ server'.folder = server.folder /\ server'.auth = server.auth
    BY <1>1, <1>2 DEF Server
  <2>2. Grows(cmd)
    BY <1>1, <1>2, RepliesGrow
  <2> QED
    BY <1>1, <1>2, <2>1, <2>2 DEF Effect, ServesNumber, ChangesMode, Types, ServerTypes
<1>3. ASSUME NEW status \in {"ok", "no"},
             server' = [server EXCEPT !.mode = "command", !.swallowed = @ \/ ~whole],
             replies' = Append(replies, Tagged(server.tag, status, "none")) \o rest,
             \/ status = "ok" /\ served' = server.tag /\ Stores(whole)
             \/ status = "no" /\ UNCHANGED <<served, stored>>
      PROVE  Effect(cmd)
  <2>1. /\ server' \in Server /\ server'.mode = "command" /\ server'.tag = server.tag
        /\ server'.auth = server.auth
    BY <1>1, <1>3 DEF Server
  <2>2. status = "ok" /\ whole =>
          [tag |-> server.tag, folder |-> server.folder, intact |-> TRUE] \in stored'
    BY <1>3 DEF Stores
  <2>3. stored \subseteq stored' /\ (served' = served \/ served' = server.tag)
    BY <1>3 DEF Stores
  <2> DEFINE r == Tagged(server.tag, status, "none")
  <2>4. r \in Reply /\ r.kind = "tagged" /\ r.tag = server.tag /\ r.status = status /\ r.data = "none"
    BY <1>1, TaggedIsReply
  <2> HIDE DEF r
  <2>5. NewReply(cmd, r)
    BY <1>1, <1>3, <2>2, <2>4 DEF NewReply, Success
  <2>6. Grows(cmd)
    <3>1. CASE whole
      <4>1. Append(replies, r) \o <<>> = Append(replies, r)
        BY <1>1, <2>4
      <4> QED
        BY <1>1, <1>3, <2>5, <3>1, <4>1, RepliesGrow DEF r
    <3>2. CASE ~whole
      <4>1. NewReply(cmd, Line("untagged", "ok"))
        BY LineIsNew
      <4> QED
        BY <1>1, <1>3, <2>5, <3>2, <4>1, RepliesGrow DEF r
    <3> QED
      BY <3>1, <3>2
  <2> QED
    BY <1>1, <2>1, <2>3, <2>6 DEF Effect, ServesNumber, ChangesMode, Types, ServerTypes
<1>4. \/ /\ ~whole
         /\ server' = [server EXCEPT !.junk = TRUE, !.swallowed = TRUE]
         /\ UNCHANGED <<replies, served, stored>>
      \/ /\ server' = [server EXCEPT !.mode = "command", !.swallowed = @ \/ ~whole]
         /\ \/ /\ replies' = Append(replies, Tagged(server.tag, "ok", "none")) \o rest
               /\ served' = server.tag /\ Stores(whole)
            \/ /\ replies' = Append(replies, Tagged(server.tag, "no", "none")) \o rest
               /\ UNCHANGED <<served, stored>>
  BY DEF ServeLiteral
<1> HIDE DEF whole, rest
<1> QED
  BY <1>2, <1>3, <1>4

\* The server takes in the first command: what it has the effect of keeps every part.
LEMMA ServeKeepsIInv ==
  ASSUME IInv, Serve
  PROVE  IInv'
<1> DEFINE cmd == Head(commands)
<1>1. /\ commands # <<>> /\ commands' = Tail(commands)
      /\ ServeCommand(cmd) \/ ServeAuthenticate(cmd) \/ ServeLiteral(cmd)
      /\ UNCHANGED <<session, pc, caller, connectionInfo, selected, returned>>
      /\ UNCHANGED <<calls, up, timeouts>>
  BY DEF Serve, actorVars
<1>2. /\ commands \in Seq(Command) /\ commands' \in Seq(Command)
      /\ Len(commands) \in Nat \ {0} /\ Len(commands') = Len(commands) - 1
      /\ \A i \in 1 .. Len(commands') : i + 1 \in 1 .. Len(commands) /\ commands'[i] = commands[i + 1]
      /\ cmd = commands[1] /\ 1 \in 1 .. Len(commands)
  BY <1>1 DEF IInv, Types, WireTypes
<1>3. cmd \in Command /\ OneCommand(cmd)
  BY <1>2 DEF IInv, Order
<1> HIDE DEF cmd
<1>4. Effect(cmd)
  <2>1. server.mode = "literal" => server.tag >= 1
    BY TagsAreNumbers DEF IInv, Order
  <2>2. CASE ServeLiteral(cmd)
    BY <1>3, <2>1, <2>2, LiteralEffect DEF IInv, ServeLiteral
  <2> QED
    BY <1>1, <1>3, <2>2, CommandEffect, AuthenticateEffect DEF IInv
<1>5. /\ session.tag \in Nat /\ served \in Nat /\ served' \in Nat /\ server.tag \in Nat
      /\ server'.tag \in Nat /\ cmd.tag \in Nat
      /\ server.mode \in {"command", "authenticate", "literal"}
      /\ server.auth \in BOOLEAN /\ server'.auth \in BOOLEAN
      /\ server.junk \in BOOLEAN /\ server'.junk \in BOOLEAN
  BY <1>3, <1>4, TagsAreNumbers DEF Effect, IInv, Types, ServerTypes, Server, Command
<1>6. /\ cmd.tag <= session.tag /\ served <= cmd.tag
      /\ server.mode = "literal" => served <= server.tag /\ server.tag <= cmd.tag /\ 1 <= server.tag
      /\ server.tag <= session.tag /\ served <= session.tag
      /\ cmd.verb # "CONNECT" => cmd.tag >= 1
  BY <1>3 DEF OneCommand, IInv, Order
<1>7. served <= served' /\ served' <= cmd.tag /\ served' <= session.tag
  BY <1>4, <1>5, <1>6 DEF Effect, ServesNumber
<1>8. ASSUME NEW i \in 1 .. Len(commands')
      PROVE  /\ OneCommand(commands'[i]) /\ TwoCommands(cmd, commands'[i])
             /\ commands'[i].tag \in Nat /\ commands'[i] \in Command
  <2>1. 1 < i + 1 /\ i + 1 \in 1 .. Len(commands) /\ commands'[i] = commands[i + 1]
    BY <1>2
  <2> QED
    BY <1>2, <2>1, TagsAreNumbers DEF IInv, Order
<1>9. WireTypes' /\ ServerTypes' /\ ClientTypes' /\ Budget' /\ NamesFolder'
  <2>1. WireTypes'
    BY <1>1, <1>2, <1>4 DEF IInv, Types, WireTypes, Effect, Grows
  <2>2. ServerTypes'
    BY <1>4 DEF ServerTypes, Effect
  <2>3. ClientTypes'
    BY <1>1 DEF IInv, Types, ClientTypes
  <2>4. Budget' /\ NamesFolder'
    BY <1>1 DEF IInv, Budget, NamesFolder
  <2> QED
    BY <2>1, <2>2, <2>3, <2>4
<1>10. server'.mode = "literal" => served' <= server'.tag /\ 1 <= server'.tag /\ server'.tag <= cmd.tag
  <2>1. CASE server.mode = "command"
    BY <1>4, <1>5, <1>6, <1>7, <2>1 DEF Effect, ChangesMode
  <2>2. CASE server.mode # "command"
    BY <1>4, <1>5, <1>6, <2>2 DEF Effect, ChangesMode, ServesNumber
  <2> QED
    BY <2>1, <2>2
<1>11. server'.tag <= session.tag
  BY <1>4, <1>5, <1>6 DEF Effect, ChangesMode
<1>12. ASSUME NEW i \in 1 .. Len(commands')
       PROVE  OneCommand(commands[i])'
  <2> DEFINE c == commands'[i]
  <2>1. OneCommand(c) /\ TwoCommands(cmd, c) /\ c.tag \in Nat
    BY <1>8
  <2> HIDE DEF c
  <2>2. c.tag <= session.tag /\ cmd.tag <= c.tag /\ c.verb # "CONNECT" /\ c.tag >= 1
        /\ (c.verb = "EXAMINE" => c.folder \in Folder)
        /\ (c.verb \notin Special => cmd.tag < c.tag)
    BY <2>1 DEF OneCommand, TwoCommands
  <2>3. served' <= c.tag
    BY <1>5, <1>7, <2>1, <2>2
  <2>4. server'.mode = "literal" => server'.tag <= c.tag /\ (c.verb \notin Special => server'.tag < c.tag)
    BY <1>5, <1>10, <2>1, <2>2
  <2> QED
    BY <1>1, <2>2, <2>3, <2>4 DEF OneCommand, c
<1>13. ASSUME NEW i \in 1 .. Len(commands'), NEW j \in 1 .. Len(commands'), i < j
       PROVE  TwoCommands(commands'[i], commands'[j])
  <2>1. i + 1 < j + 1 /\ i + 1 \in 1 .. Len(commands) /\ j + 1 \in 1 .. Len(commands)
    BY <1>2, <1>13
  <2> QED
    BY <1>2, <2>1 DEF IInv, Order
<1>14. Order'
  BY <1>1, <1>7, <1>10, <1>11, <1>12, <1>13 DEF Order, TwoCommands
\* What a success for the last command means is untouched by later ones.
<1>15. served = session.tag => served' = session.tag
  BY <1>5, <1>7
<1>16. cmd.verb = "CONNECT" => replies = <<>> /\ ~server.auth
  BY <1>3 DEF OneCommand, NewServer
<1>17. ASSUME NEW i \in 1 .. Len(replies')
       PROVE  \/ \E j \in 1 .. Len(replies) :
                   replies'[i] = replies[j] /\ OneReply(replies[j]) /\ cmd.verb # "CONNECT"
              \/ NewReply(cmd, replies'[i])
  <2>1. CASE \E j \in 1 .. Len(replies) : replies'[i] = replies[j]
    <3>1. replies # <<>>
      BY <2>1
    <3> QED
      BY <1>16, <2>1, <3>1 DEF IInv, Answered
  <2>2. CASE NewReply(cmd, replies'[i])
    BY <2>2
  <2> QED
    BY <1>4, <2>1, <2>2 DEF Effect, Grows
<1>18. Answered'
  <2>1. ASSUME NEW i \in 1 .. Len(replies')
        PROVE  OneReply(replies[i])'
    <3> DEFINE r == replies'[i]
    <3> HIDE DEF r
    <3>1. CASE OneReply(r) /\ cmd.verb # "CONNECT"
      BY <1>1, <1>4, <1>15, <3>1 DEF OneReply, Success, Effect, r
    <3>2. CASE NewReply(cmd, r)
      <4>1. r.kind = "tagged" => r.tag <= session.tag
        BY <1>6, <3>2 DEF NewReply
      <4> QED
        BY <1>1, <3>2, <4>1 DEF NewReply, OneReply, Success, r
    <3> QED
      BY <1>17, <3>1, <3>2 DEF r
  <2> QED
    BY <2>1 DEF Answered
<1>19. ResultHolds' /\ AppendedMeansStored'
  BY <1>1, <1>4, <1>15 DEF IInv, ResultHolds, NothingReturned, AppendedMeansStored, Effect
<1>20. LoggedInMeansAuthenticated'
  BY <1>1, <1>4, <1>16 DEF IInv, LoggedInMeansAuthenticated, Effect
<1>21. LoginInv'
  <2>1. SUFFICES ASSUME pc \in {"oauth", "login"}
                 PROVE  LoginInv'
    BY <1>1 DEF LoginInv
  <2>2. /\ server.mode = "literal" => server.tag < session.tag
        /\ \A i \in 1 .. Len(commands) :
             commands[i].tag = session.tag => commands[i].verb \in {"LOGIN", "AUTHENTICATE", "EMPTY"}
        /\ \A i \in 1 .. Len(replies) :
             Success(replies[i]) /\ replies[i].tag = session.tag => server.auth
    BY <2>1 DEF IInv, LoginInv
  <2>3. cmd.tag = session.tag => cmd.verb \in {"LOGIN", "AUTHENTICATE", "EMPTY"}
    BY <1>2, <2>2
  <2>4. server'.mode = "literal" => server'.tag < session.tag
    BY <1>4, <1>5, <1>6, <2>2, <2>3 DEF Effect, ChangesMode
  <2>5. \A i \in 1 .. Len(commands') :
          commands'[i].tag = session.tag => commands'[i].verb \in {"LOGIN", "AUTHENTICATE", "EMPTY"}
    BY <1>2, <2>2
  <2>6. ASSUME NEW i \in 1 .. Len(replies'), Success(replies'[i]), replies'[i].tag = session.tag
        PROVE  server'.auth
    <3>1. CASE NewReply(cmd, replies'[i])
      BY <1>5, <2>2, <2>3, <2>6, <3>1 DEF NewReply
    <3>2. CASE \E j \in 1 .. Len(replies) :
                 replies'[i] = replies[j] /\ OneReply(replies[j]) /\ cmd.verb # "CONNECT"
      BY <1>4, <2>2, <2>6, <3>2 DEF Effect
    <3> QED
      BY <1>17, <3>1, <3>2
  <2> QED
    BY <1>1, <2>4, <2>5, <2>6 DEF LoginInv, Success
<1>22. AppendInv'
  <2>1. SUFFICES ASSUME pc \in {"append", "appendRefused", "appended"}
                 PROVE  AppendInv'
    BY <1>1 DEF AppendInv
  <2> DEFINE record == [tag |-> session.tag, folder |-> caller.folder, intact |-> TRUE]
  <2>2. /\ caller.op = "append"
        /\ \A i \in 1 .. Len(commands) :
             commands[i].tag = session.tag =>
               /\ commands[i].verb \in {"APPEND", "LITERAL"}
               /\ commands[i].verb = "APPEND" => commands[i].folder = caller.folder
        /\ server.mode = "literal" /\ server.tag = session.tag =>
             server.folder = caller.folder /\ ~server.junk
        /\ \A i \in 1 .. Len(replies) :
             Success(replies[i]) /\ replies[i].tag = session.tag => record \in stored
    BY <2>1 DEF IInv, AppendInv
  <2>3. cmd.tag = session.tag =>
               /\ cmd.verb \in {"APPEND", "LITERAL"}
               /\ cmd.verb = "APPEND" => cmd.folder = caller.folder
    BY <1>2, <2>2
  \* While the server waits for this message, nothing else comes.
  <2>4. server.mode = "literal" /\ server.tag = session.tag =>
          cmd.verb = "LITERAL" /\ cmd.tag = server.tag /\ ~server.junk /\ server.folder = caller.folder
    <3>1. server.mode = "literal" /\ cmd.verb \notin Special => server.tag < cmd.tag
      BY <1>3 DEF OneCommand
    <3> QED
      BY <1>5, <1>6, <2>2, <2>3, <3>1 DEF Special
  <2>5. \A i \in 1 .. Len(commands') :
             commands'[i].tag = session.tag =>
               /\ commands'[i].verb \in {"APPEND", "LITERAL"}
               /\ commands'[i].verb = "APPEND" => commands'[i].folder = caller.folder
    BY <1>2, <2>2
  <2>6. server'.mode = "literal" /\ server'.tag = session.tag =>
          server'.folder = caller.folder /\ ~server'.junk
    BY <1>4, <1>5, <2>3, <2>4 DEF Effect, ChangesMode
  <2>7. ASSUME NEW i \in 1 .. Len(replies'), Success(replies'[i]), replies'[i].tag = session.tag
        PROVE  record \in stored'
    <3>1. CASE NewReply(cmd, replies'[i])
      BY <2>3, <2>4, <2>7, <3>1 DEF NewReply
    <3>2. CASE \E j \in 1 .. Len(replies) :
                 replies'[i] = replies[j] /\ OneReply(replies[j]) /\ cmd.verb # "CONNECT"
      BY <1>4, <2>2, <2>7, <3>2 DEF Effect
    <3> QED
      BY <1>17, <3>1, <3>2
  <2>8. \A i \in 1 .. Len(replies') :
          (Success(replies[i]) /\ replies[i].tag = session.tag)' =>
             ([tag |-> session.tag, folder |-> caller.folder, intact |-> TRUE] \in stored)'
    BY <1>1, <2>7 DEF Success
  <2>9. session'.tag = session.tag /\ caller' = caller /\ caller'.op = "append"
    BY <1>1, <2>2
  <2> QED
    BY <2>5, <2>6, <2>8, <2>9, Zenon DEF AppendInv
<1>23. AppendOnly'
  BY <1>1 DEF IInv, AppendOnly
<1> QED
  BY <1>9, <1>14, <1>18, <1>19, <1>20, <1>21, <1>22, <1>23 DEF IInv, Types

----------------------------------------------------------------------------
(***************************************************************************)
(* The invariant holds.                                                    *)
(***************************************************************************)
\* Nothing has been sent.
LEMMA InitImpliesIInv ==
  ASSUME Init
  PROVE  IInv
<1>1. /\ session = [stream |-> FALSE, state |-> "disconnected", tag |-> 0]
      /\ pc = "idle" /\ caller = NoCaller
      /\ connectionInfo = FALSE /\ selected = "none"
      /\ returned = NothingReturned
      /\ calls = 0
      /\ commands = <<>> /\ replies = <<>> /\ up = FALSE /\ timeouts = 0
      /\ server = NewServer /\ served = 0 /\ stored = {}
  BY DEF Init
<1>2. 0 \in Tag /\ 0 \in 0 .. MaxCalls /\ 0 \in 0 .. MaxTimeouts /\ "none" \in Place
  BY ImapBoundsAssumption DEF Tag, Place
<1>3. ClientTypes
  <2>1. returned \in Result
    BY <1>1, EmptyIsResult DEF Empty
  <2> QED
    BY <1>1, <1>2, <2>1 DEF ClientTypes, State, Pc, NoCaller, Op
<1>4. WireTypes
  <2>1. <<>> \in Seq(Command) /\ <<>> \in Seq(Reply) /\ FALSE \in BOOLEAN
    OBVIOUS
  <2> QED
    BY <1>1, <1>2, <2>1 DEF WireTypes
<1>5. ServerTypes
  BY <1>1, <1>2 DEF ServerTypes, Server, NewServer
<1>6. Budget /\ NamesFolder
  BY <1>1 DEF Budget, NamesFolder
<1>7. Order
  <2>1. session.tag = 0 /\ server.tag = 0 /\ served = 0 /\ server.mode = "command" /\ Len(commands) = 0
    BY <1>1 DEF NewServer
  <2> QED
    BY <2>1 DEF Order
<1>8. Answered
  BY <1>1 DEF Answered
<1>9. ResultHolds /\ LoggedInMeansAuthenticated /\ AppendedMeansStored
  BY <1>1 DEF ResultHolds, NothingReturned, LoggedInMeansAuthenticated, LoggedIn, AppendedMeansStored
<1>10. LoginInv /\ AppendInv /\ AppendOnly
  BY <1>1 DEF LoginInv, AppendInv, AppendOnly, NoCaller
<1> QED
  BY <1>3, <1>4, <1>5, <1>6, <1>7, <1>8, <1>9, <1>10 DEF IInv, Types

\* Nothing happens.
LEMMA StutterKeepsIInv ==
  ASSUME IInv, UNCHANGED vars
  PROVE  IInv'
<1>1. /\ UNCHANGED <<session, pc, caller, connectionInfo, selected, returned, calls>>
      /\ UNCHANGED <<commands, replies, up, timeouts>> /\ UNCHANGED <<server, served, stored>>
  BY DEF vars, actorVars, wire, serverVars
<1>2. Types'
  BY <1>1 DEF IInv, Types, ClientTypes, WireTypes, ServerTypes
<1>3. Budget' /\ NamesFolder' /\ AppendOnly'
  BY <1>1 DEF IInv, Budget, NamesFolder, AppendOnly
<1>4. Order'
  BY <1>1 DEF IInv, Order, OneCommand, TwoCommands
<1>5. Answered'
  BY <1>1 DEF IInv, Answered, OneReply, Success
<1>6. ResultHolds' /\ LoggedInMeansAuthenticated' /\ AppendedMeansStored'
  BY <1>1 DEF IInv, ResultHolds, LoggedInMeansAuthenticated, AppendedMeansStored
<1>7. LoginInv'
  BY <1>1 DEF IInv, LoginInv, Success
<1>8. AppendInv'
  BY <1>1 DEF IInv, AppendInv, Success
<1> QED
  BY <1>2, <1>3, <1>4, <1>5, <1>6, <1>7, <1>8 DEF IInv

\* One lemma for every action.
LEMMA NextKeepsIInv ==
  ASSUME IInv, [Next]_vars
  PROVE  IInv'
<1>1. ASSUME NEW oauth2 \in BOOLEAN, beConnect(oauth2)
      PROVE  IInv'
  BY <1>1, beConnectKeepsIInv
<1>2. ASSUME NEW folder \in Folder, beExamine(folder) \/ beSearch(folder) \/ beAppend(folder)
      PROVE  IInv'
  BY <1>2, beExamineKeepsIInv, beSearchKeepsIInv, beAppendKeepsIInv
<1>3. CASE beClose \/ beGetFolders \/ beFetch
  BY <1>3, beCloseKeepsIInv, beGetFoldersKeepsIInv, beFetchKeepsIInv
<1>4. CASE BehaviourStep
  BY <1>4, GreetingKeepsIInv, OauthKeepsIInv, LoginKeepsIInv, LogoutKeepsIInv, ListKeepsIInv,
     ExamineKeepsIInv, SearchKeepsIInv, FetchKeepsIInv, AppendLineKeepsIInv,
     AppendRefusedKeepsIInv, AppendedKeepsIInv
     DEF BehaviourStep
<1>5. CASE Serve
  BY <1>5, ServeKeepsIInv
<1>6. CASE Drop
  BY <1>6, DropKeepsIInv
<1>7. CASE UNCHANGED vars
  BY <1>7, StutterKeepsIInv
<1> QED
  BY <1>1, <1>2, <1>3, <1>4, <1>5, <1>6, <1>7 DEF Next

\* IInv is what every reachable state satisfies.
LEMMA Invariance == Spec => []IInv
<1>1. Init => IInv
  BY InitImpliesIInv
<1>2. IInv /\ [Next]_vars => IInv'
  BY NextKeepsIInv
<1> QED
  BY <1>1, <1>2, PTL DEF Spec

----------------------------------------------------------------------------
(***************************************************************************)
(* The folder in step: a second invariant, on top of the first.  Once a    *)
(* behaviour has given up on its reply, all later ones come to another     *)
(* command, until the connection is closed: everything is late, and then   *)
(* nothing succeeds.  While nothing is late, client and server agree on    *)
(* the folder.                                                             *)
(***************************************************************************)
\* The waits for a reply in a session that takes itself for logged in.
Examining == {"examine", "searchExamine"}
Appending == {"append", "appendRefused", "appended"}
Asking == {"list", "search", "fetch"} \cup Examining \cup Appending

\* The commands that the server answers with their tag: at once, or with the message's end.
Numbered == {"LIST", "EXAMINE", "SEARCH", "FETCH", "APPEND", "LOGOUT"}

\* The tag of the running behaviour's command, or that of the next one's.
Now == IF pc = "idle" THEN session.tag + 1 ELSE session.tag

\* A reply with an earlier tag is to be read before the one to this command, if this one
\* is ever to come: it is there, its command is on its way, or the server takes the next
\* command for a message.
Late ==
  \/ \E i \in 1 .. Len(replies) : replies[i].kind = "tagged" /\ replies[i].tag < Now
  \/ \E i \in 1 .. Len(commands) : commands[i].verb \in Numbered /\ commands[i].tag < Now
  \/ server.mode = "literal" /\ server.tag < Now
  \/ ~up /\ \A i \in 1 .. Len(replies) : replies[i].kind = "tagged" => replies[i].tag < Now

\* The replies come in the order of their tags, before those to the commands on their way.
RepliesOrdered ==
  /\ \A i, j \in 1 .. Len(replies) :
       i < j /\ replies[i].kind = "tagged" /\ replies[j].kind = "tagged" =>
         replies[i].tag <= replies[j].tag
  /\ \A i \in 1 .. Len(replies), j \in 1 .. Len(commands) :
       replies[i].kind = "tagged" =>
         /\ replies[i].tag <= commands[j].tag
         /\ commands[j].verb \notin Special => replies[i].tag < commands[j].tag
  /\ server.mode = "literal" =>
       \A i \in 1 .. Len(replies) : replies[i].kind = "tagged" => replies[i].tag <= server.tag

\* The command of the running behaviour.
OwnCommand ==
  pc # "idle" =>
    /\ \A i \in 1 .. Len(commands) :
         commands[i].tag = session.tag =>
           /\ commands[i].verb = "EXAMINE" <=> pc \in Examining
           /\ commands[i].verb = "EXAMINE" => commands[i].folder = caller.folder
           /\ commands[i].verb = "APPEND" => pc \in Appending
    /\ server.mode = "literal" /\ server.tag = session.tag => pc \in Appending

\* Its reply will come, if the connection holds and the server takes no command for a message.
OwnPending ==
  pc \in Asking /\ up /\ ~server.swallowed =>
    \/ \E i \in 1 .. Len(replies) : replies[i].kind = "tagged" /\ replies[i].tag = session.tag
    \/ \E i \in 1 .. Len(commands) : commands[i].verb \in Numbered /\ commands[i].tag = session.tag
    \/ server.mode = "literal" /\ server.tag = session.tag

\* What the client takes for selected.
ClientSelects ==
  /\ pc \in {"greeting", "oauth", "login"} => session.state # "selected" /\ caller.folder = Inbox
  /\ pc \in {"search", "fetch"} => session.state = "selected" /\ caller.folder = selected

\* When nothing is late, it is selected, and the data come from there.
ServerSelects ==
  ~server.swallowed /\ ~Late =>
    /\ session.state = "selected" /\ pc \notin Examining => server.selected = selected
    /\ \A i \in 1 .. Len(replies) :
         replies[i].kind = "tagged" /\ replies[i].tag = session.tag =>
           /\ pc \in Examining => /\ replies[i].status \in {"ok", "no"}
                                  /\ replies[i].status = "ok" => server.selected = caller.folder
           /\ pc \in {"search", "fetch"} => replies[i].data \in {"none", selected}

FolderInv ==
  /\ RepliesOrdered /\ OwnCommand /\ OwnPending /\ ClientSelects /\ ServerSelects
  /\ DataFromFolderInStep

----------------------------------------------------------------------------
(***************************************************************************)
(* What is left of the replies.                                            *)
(***************************************************************************)

\* The replies from one on, or up to one.
Piece(m) ==
  /\ m \in Nat /\ replies' \in Seq(Reply)
  /\ \A i \in 1 .. Len(replies') : m + i \in 1 .. Len(replies) /\ replies'[i] = replies[m + i]

\* A wait that reads up to reply m, if anything, reads no tagged reply before that.
Taken(m, reply) ==
  /\ Piece(m) /\ m \in 0 .. Len(replies)
  /\ Len(replies') = Len(replies) - m
  /\ \A k \in 1 .. m : replies[k].kind = "tagged" => k = m /\ reply = replies[m]
  /\ reply = NoReply \/ (m \in 1 .. Len(replies) /\ reply = replies[m])

\* mailimap_read_line.
LEMMA LineTaken ==
  ASSUME Types, NEW reply, ReadLine(reply)
  PROVE  \E m : Taken(m, reply)
<1>1. replies \in Seq(Reply) /\ Len(replies) \in Nat
  BY DEF Types, WireTypes
<1>2. CASE replies # <<>> /\ reply = Head(replies) /\ replies' = Tail(replies)
  <2>1. /\ Tail(replies) \in Seq(Reply) /\ Len(Tail(replies)) = Len(replies) - 1
        /\ \A i \in 1 .. Len(Tail(replies)) : Tail(replies)[i] = replies[i + 1]
        /\ Head(replies) = replies[1] /\ 1 \in 1 .. Len(replies)
    BY <1>1, <1>2
  <2>2. \A i \in 1 .. Len(replies') : 1 + i \in 1 .. Len(replies) /\ replies'[i] = replies[1 + i]
    BY <1>1, <1>2, <2>1
  <2>3. \A k \in 1 .. 1 : k = 1
    OBVIOUS
  <2>4. Taken(1, reply)
    BY <1>1, <1>2, <2>1, <2>2, <2>3 DEF Taken, Piece
  <2> QED
    BY <2>4
<1>3. CASE replies = <<>> /\ reply = NoReply /\ UNCHANGED replies
  <2>1. Len(replies) = 0 /\ replies' = replies
    BY <1>3
  <2>2. Taken(0, reply)
    BY <1>1, <1>3, <2>1 DEF Taken, Piece
  <2> QED
    BY <2>2
<1> QED
  BY <1>2, <1>3 DEF ReadLine

\* mailimap_parse_response.
LEMMA ResponseTaken ==
  ASSUME Types, NEW reply, ReadResponse(reply)
  PROVE  \E m : Taken(m, reply)
<1> DEFINE tagged == {k \in 1 .. Len(replies) : replies[k].kind = "tagged"}
<1>1. replies \in Seq(Reply) /\ Len(replies) \in Nat
  BY DEF Types, WireTypes
<1>2. CASE /\ tagged # {}
           /\ reply = replies[Min(tagged)]
           /\ replies' = SubSeq(replies, Min(tagged) + 1, Len(replies))
  <2>1. tagged \subseteq Nat
    BY <1>1
  <2>2. \E least \in tagged : \A k \in tagged : least <= k
    BY <1>2, <2>1, LeastExists
  <2>3. Min(tagged) \in tagged /\ \A k \in tagged : Min(tagged) <= k
    BY <2>2 DEF Min
  <2> DEFINE m == Min(tagged)
  <2> HIDE DEF m
  <2>4. m \in 1 .. Len(replies) /\ \A k \in 1 .. Len(replies) : replies[k].kind = "tagged" => m <= k
    BY <2>3 DEF m
  <2>5. /\ SubSeq(replies, m + 1, Len(replies)) \in Seq(Reply)
        /\ Len(SubSeq(replies, m + 1, Len(replies))) = Len(replies) - m
        /\ \A i \in 1 .. Len(replies) - m :
             SubSeq(replies, m + 1, Len(replies))[i] = replies[m + i]
    BY <1>1, <2>4
  <2>6. replies' = SubSeq(replies, m + 1, Len(replies)) /\ reply = replies[m]
    BY <1>2 DEF m
  <2>7. \A i \in 1 .. Len(replies') : m + i \in 1 .. Len(replies) /\ replies'[i] = replies[m + i]
    BY <1>1, <2>4, <2>5, <2>6
  <2>8. \A k \in 1 .. m : replies[k].kind = "tagged" => k = m
    BY <1>1, <2>4
  <2>9. m \in Nat /\ m \in 0 .. Len(replies)
    BY <1>1, <2>4
  <2>10. Taken(m, reply)
    BY <2>4, <2>5, <2>6, <2>7, <2>8, <2>9 DEF Taken, Piece
  <2> QED
    BY <2>10
<1>3. CASE tagged = {} /\ reply = NoReply /\ replies' = <<>>
  <2>1. \A k \in 1 .. Len(replies) : replies[k].kind # "tagged"
    BY <1>3
  <2>2. <<>> \in Seq(Reply) /\ Len(<<>>) = 0
    OBVIOUS
  <2>3. Taken(Len(replies), reply)
    BY <1>1, <1>3, <2>1, <2>2 DEF Taken, Piece
  <2> QED
    BY <2>3
<1> QED
  BY <1>2, <1>3 DEF ReadResponse

\* Replies have tags, numbers that the client has used.
LEMMA TagsOfReplies ==
  ASSUME Types, Answered
  PROVE  \A i \in 1 .. Len(replies) :
           replies[i].tag \in Nat /\ (replies[i].kind = "tagged" => replies[i].tag <= session.tag)
<1>1. \A r \in Reply : r.tag \in {0} \cup 1 .. 2 * MaxCalls
  BY DEF Reply
<1>2. \A r \in Reply : r.tag \in Nat
  BY <1>1, ImapBoundsAssumption
<1> QED
  BY <1>2, TagsAreNumbers DEF Answered, OneReply

\* A piece of what was in order is, and no command that is sent disturbs it.
LEMMA PieceKeepsOrder ==
  ASSUME Types, Answered, RepliesOrdered, NEW m, Piece(m),
         server'.mode = server.mode, server'.tag = server.tag,
         \A j \in 1 .. Len(commands') :
           \/ \E k \in 1 .. Len(commands) : commands'[j] = commands[k]
           \/ /\ commands'[j].tag \in Nat /\ session.tag <= commands'[j].tag
              /\ commands'[j].verb \notin Special => session.tag < commands'[j].tag
  PROVE  RepliesOrdered'
<1>1. \A i \in 1 .. Len(replies') :
        /\ m + i \in 1 .. Len(replies) /\ replies'[i] = replies[m + i]
        /\ replies'[i].tag \in Nat
        /\ replies'[i].kind = "tagged" => replies'[i].tag <= session.tag
  BY TagsOfReplies DEF Piece
<1>2. m \in Nat /\ session.tag \in Nat
  BY TagsAreNumbers DEF Piece
<1>3. ASSUME NEW i \in 1 .. Len(replies'), NEW j \in 1 .. Len(replies'), i < j,
             replies'[i].kind = "tagged", replies'[j].kind = "tagged"
      PROVE  replies'[i].tag <= replies'[j].tag
  <2>1. m + i < m + j
    BY <1>2, <1>3
  <2> QED
    BY <1>1, <1>3, <2>1 DEF RepliesOrdered
<1>4. ASSUME NEW i \in 1 .. Len(replies'), NEW j \in 1 .. Len(commands'), replies'[i].kind = "tagged"
      PROVE  /\ replies'[i].tag <= commands'[j].tag
             /\ commands'[j].verb \notin Special => replies'[i].tag < commands'[j].tag
  <2>1. CASE \E k \in 1 .. Len(commands) : commands'[j] = commands[k]
    BY <1>1, <1>4, <2>1 DEF RepliesOrdered
  <2>2. CASE /\ commands'[j].tag \in Nat /\ session.tag <= commands'[j].tag
             /\ commands'[j].verb \notin Special => session.tag < commands'[j].tag
    <3>1. replies'[i].tag \in Nat /\ replies'[i].tag <= session.tag
      BY <1>1, <1>4
    <3> QED
      BY <1>2, <2>2, <3>1
  <2> QED
    BY <2>1, <2>2
<1>5. ASSUME server'.mode = "literal", NEW i \in 1 .. Len(replies'), replies'[i].kind = "tagged"
      PROVE  replies'[i].tag <= server'.tag
  BY <1>1, <1>5 DEF RepliesOrdered
<1> QED
  BY <1>3, <1>4, <1>5 DEF RepliesOrdered

----------------------------------------------------------------------------
(***************************************************************************)
(* The folder, and the end of a wait.                                      *)
(***************************************************************************)

\* The reply to the running behaviour's command.
Own(reply) == reply.kind = "tagged" /\ reply.tag = session.tag

\* When it is read, nothing is late.
LEMMA OwnIsNotLate ==
  ASSUME Types, RepliesOrdered, pc # "idle", NEW m, NEW reply, Taken(m, reply), Own(reply)
  PROVE  ~Late /\ m \in 1 .. Len(replies) /\ reply = replies[m]
<1>1. m \in 1 .. Len(replies) /\ reply = replies[m]
  BY DEF Taken, Own, NoReply, Line
<1>2. Now = session.tag /\ session.tag \in Nat /\ server.tag \in Nat /\ Len(replies) \in Nat
  BY TagsAreNumbers DEF Now
<1>3. \A r \in Reply : r.kind = "tagged" => r.tag \in Nat
  <2>1. \A r \in Reply : r.tag \in {0} \cup 1 .. 2 * MaxCalls
    BY DEF Reply
  <2> QED
    BY <2>1, ImapBoundsAssumption
<1>4. ASSUME NEW i \in 1 .. Len(replies), replies[i].kind = "tagged", replies[i].tag < session.tag
      PROVE  FALSE
  <2>1. i # m
    BY <1>1, <1>2, <1>4 DEF Own
  <2>2. ~(i \in 1 .. m)
    BY <1>4, <2>1 DEF Taken
  <2>3. m < i
    BY <1>1, <1>2, <2>2
  <2>4. session.tag <= replies[i].tag
    BY <1>1, <1>4, <2>3 DEF RepliesOrdered, Own
  <2>5. replies[i].tag \in Nat
    BY <1>3, <1>4, TagsAreNumbers
  <2> QED
    BY <1>2, <1>4, <2>4, <2>5
<1>5. ASSUME NEW i \in 1 .. Len(commands), commands[i].tag < session.tag
      PROVE  FALSE
  <2>1. session.tag <= commands[i].tag /\ commands[i].tag \in Nat
    BY <1>1, TagsAreNumbers DEF RepliesOrdered, Own
  <2> QED
    BY <1>2, <1>5, <2>1
<1>6. server.mode = "literal" => session.tag <= server.tag
  BY <1>1 DEF RepliesOrdered, Own
<1>7. ~(replies[m].tag < Now) /\ replies[m].kind = "tagged"
  BY <1>1, <1>2 DEF Own
<1>8. ~(server.mode = "literal" /\ server.tag < session.tag)
  BY <1>2, <1>6
<1> QED
  BY <1>1, <1>2, <1>4, <1>5, <1>7, <1>8 DEF Late

\* When it is not, the next command will find something late.
LEMMA OtherLeavesLate ==
  ASSUME Types, Answered, OwnPending, pc \in Asking, ~server.swallowed,
         NEW m, NEW reply, Taken(m, reply), ~Own(reply),
         pc' = "idle", session'.tag = session.tag, UNCHANGED <<commands, server, up>>
  PROVE  Late'
<1>1. Now' = session.tag + 1 /\ session.tag \in Nat /\ Len(replies) \in Nat /\ m \in Nat
  BY TagsAreNumbers DEF Now, Taken, Piece
<1>2. \A i \in 1 .. Len(replies') : m + i \in 1 .. Len(replies) /\ replies'[i] = replies[m + i]
  BY DEF Taken, Piece
<1>3. CASE up
  <2>1. CASE \E i \in 1 .. Len(replies) : replies[i].kind = "tagged" /\ replies[i].tag = session.tag
    <3>1. PICK i \in 1 .. Len(replies) : replies[i].kind = "tagged" /\ replies[i].tag = session.tag
      BY <2>1
    <3>2. ~(i \in 1 .. m)
      BY <3>1 DEF Taken, Own
    <3>3. i - m \in 1 .. Len(replies') /\ m + (i - m) = i
      BY <1>1, <3>2 DEF Taken
    <3>4. replies'[i - m] = replies[i]
      BY <1>2, <3>3
    <3> QED
      BY <1>1, <3>1, <3>3, <3>4 DEF Late
  <2>2. CASE \E i \in 1 .. Len(commands) : commands[i].verb \in Numbered /\ commands[i].tag = session.tag
    BY <1>1, <2>2 DEF Late
  <2>3. CASE server.mode = "literal" /\ server.tag = session.tag
    BY <1>1, <2>3 DEF Late
  <2> QED
    BY <1>3, <2>1, <2>2, <2>3 DEF OwnPending
<1>4. CASE ~up
  <2>1. ASSUME NEW i \in 1 .. Len(replies'), replies'[i].kind = "tagged"
        PROVE  replies'[i].tag < Now'
    <3>1. m + i \in 1 .. Len(replies) /\ replies'[i] = replies[m + i]
      BY <1>2
    <3>2. replies'[i].tag \in Nat /\ replies'[i].tag <= session.tag
      BY <2>1, <3>1, TagsOfReplies
    <3> QED
      BY <1>1, <3>2
  <2> QED
    BY <1>4, <2>1 DEF Late
<1> QED
  BY <1>3, <1>4

\* No command is sent, or a part of the last one.
Sends(verb) ==
  commands' \in {commands,
                 Append(commands, [verb |-> verb, tag |-> session.tag, folder |-> "none"])}

\* The replies stay in order.
LEMMA ReadKeepsOrder ==
  ASSUME Types, Answered, RepliesOrdered, NEW m, Piece(m), NEW verb \in Special, Sends(verb),
         UNCHANGED server
  PROVE  RepliesOrdered'
<1> DEFINE cmd == [verb |-> verb, tag |-> session.tag, folder |-> "none"]
<1>1. cmd \in Command /\ cmd.tag = session.tag /\ cmd.verb \in Special
  BY DEF Command, Special, Verb, Place, Types, ClientTypes
<1>2. commands \in Seq(Command) /\ (commands' = commands \/ commands' = Append(commands, cmd))
  BY DEF Types, WireTypes, Sends
<1> HIDE DEF cmd
<1>3. \A j \in 1 .. Len(commands') :
        (j \in 1 .. Len(commands) /\ commands'[j] = commands[j]) \/ commands'[j] = cmd
  BY <1>1, <1>2, SentIsLast
<1>4. session.tag \in Nat /\ session.tag <= session.tag
  BY TagsAreNumbers
<1>5. \A j \in 1 .. Len(commands') :
        \/ \E k \in 1 .. Len(commands) : commands'[j] = commands[k]
        \/ /\ commands'[j].tag \in Nat /\ session.tag <= commands'[j].tag
           /\ commands'[j].verb \notin Special => session.tag < commands'[j].tag
  BY <1>1, <1>3, <1>4
<1> QED
  BY <1>5, PieceKeepsOrder

\* A behaviour is over.
LEMMA EndKeepsFolder ==
  ASSUME IInv, FolderInv, NEW m, Piece(m), UNCHANGED <<server, commands>>,
         pc' = "idle",
         ~server.swallowed /\ ~Late' /\ session'.state = "selected" => server.selected = selected',
         DataFromFolderInStep'
  PROVE  FolderInv'
<1>1. RepliesOrdered'
  <2>1. Sends("LITERAL") /\ "LITERAL" \in Special
    BY DEF Sends, Special
  <2> QED
    BY <2>1, ReadKeepsOrder DEF IInv, FolderInv
<1>2. OwnCommand' /\ OwnPending' /\ ClientSelects'
  BY DEF OwnCommand, OwnPending, ClientSelects, Asking, Examining, Appending
<1>3. ServerSelects'
  BY DEF ServerSelects, Examining
<1> QED
  BY <1>1, <1>2, <1>3 DEF FolderInv

\* One that waited for a reply is, and leaves the client's state alone.
LEMMA AskingKeepsFolder ==
  ASSUME IInv, FolderInv, NEW m, NEW reply, Taken(m, reply), pc \in Asking, pc \notin Examining,
         UNCHANGED <<session, selected, up, server, commands>>, pc' = "idle",
         \/ returned'.error = "error" \/ returned'.data \in {"none", "folders"}
         \/ /\ Own(reply) /\ pc \in {"search", "fetch"}
            /\ returned'.data = reply.data /\ returned'.folder = caller.folder
  PROVE  FolderInv'
<1>1. CASE server.swallowed
  <2>1. DataFromFolderInStep'
    BY <1>1 DEF DataFromFolderInStep
  <2> QED
    BY <1>1, <2>1, EndKeepsFolder DEF Taken
<1>2. CASE ~server.swallowed /\ ~Own(reply)
  <2>1. Late'
    BY <1>2, OtherLeavesLate DEF IInv, FolderInv
  <2>2. DataFromFolderInStep'
    BY <1>2 DEF DataFromFolderInStep, DataFromFolder
  <2> QED
    BY <2>1, <2>2, EndKeepsFolder DEF Taken
<1>3. CASE ~server.swallowed /\ Own(reply)
  <2>1. ~Late /\ m \in 1 .. Len(replies) /\ reply = replies[m]
    BY <1>3, OwnIsNotLate DEF IInv, FolderInv, Asking, Examining, Appending
  <2>2. session.state = "selected" => server.selected = selected
    BY <1>3, <2>1 DEF FolderInv, ServerSelects
  <2>3. pc \in {"search", "fetch"} => reply.data \in {"none", caller.folder}
    BY <1>3, <2>1 DEF FolderInv, ServerSelects, ClientSelects, Own
  <2>4. DataFromFolderInStep'
    BY <2>3 DEF DataFromFolderInStep, DataFromFolder
  <2> QED
    BY <2>2, <2>4, EndKeepsFolder DEF Taken
<1> QED
  BY <1>1, <1>2, <1>3

\* LIST.
LEMMA ListKeepsFolder ==
  ASSUME IInv, FolderInv, List
  PROVE  FolderInv'
<1>1. PICK reply \in Reply :
        /\ ReadResponse(reply)
        /\ \/ Answers(reply) /\ reply.status = "ok" /\ Returns("folders")
           \/ /\ ~(Answers(reply) /\ reply.status = "ok")
              /\ pc' = "idle" /\ caller' = NoCaller /\ returned' = NoFolders
              /\ UNCHANGED commands
  BY DEF List
<1>2. PICK m : Taken(m, reply)
  BY <1>1, ResponseTaken DEF IInv
<1>3. pc' = "idle" /\ returned'.data \in {"none", "folders"} /\ UNCHANGED commands
  BY <1>1 DEF Returns, NoFolders, NothingReturned
<1>4. UNCHANGED <<session, selected, up, server>> /\ pc \in Asking /\ pc \notin Examining
  BY DEF List, Waits, serverVars, Asking, Examining
<1> QED
  BY <1>2, <1>3, <1>4, AskingKeepsFolder

\* SEARCH.
LEMMA SearchKeepsFolder ==
  ASSUME IInv, FolderInv, Search
  PROVE  FolderInv'
<1>1. PICK reply \in Reply :
        /\ ReadResponse(reply)
        /\ IF Answers(reply) /\ reply.status = "ok" THEN Returns(reply.data) ELSE Fails
  BY DEF Search
<1>2. PICK m : Taken(m, reply)
  BY <1>1, ResponseTaken DEF IInv
<1>3. /\ pc = "search" /\ pc' = "idle" /\ UNCHANGED commands
      /\ \/ returned'.error = "error"
         \/ Own(reply) /\ returned'.data = reply.data /\ returned'.folder = caller.folder
  BY <1>1 DEF Search, Waits, Returns, Fails, Failed, NothingReturned, Answers, Own
<1>4. UNCHANGED <<session, selected, up, server>> /\ pc \in Asking /\ pc \notin Examining
  BY DEF Search, Waits, serverVars, Asking, Examining
<1> QED
  BY <1>2, <1>3, <1>4, AskingKeepsFolder

\* FETCH.
LEMMA FetchKeepsFolder ==
  ASSUME IInv, FolderInv, Fetch
  PROVE  FolderInv'
<1>1. PICK reply \in Reply :
        /\ ReadResponse(reply)
        /\ IF Answers(reply) /\ (reply.status = "ok" \/ reply.data # "none")
           THEN Returns(reply.data) ELSE Fails
  BY DEF Fetch
<1>2. PICK m : Taken(m, reply)
  BY <1>1, ResponseTaken DEF IInv
<1>3. /\ pc = "fetch" /\ pc' = "idle" /\ UNCHANGED commands
      /\ \/ returned'.error = "error"
         \/ Own(reply) /\ returned'.data = reply.data /\ returned'.folder = caller.folder
  BY <1>1 DEF Fetch, Waits, Returns, Fails, Failed, NothingReturned, Answers, Own
<1>4. UNCHANGED <<session, selected, up, server>> /\ pc \in Asking /\ pc \notin Examining
  BY DEF Fetch, Waits, serverVars, Asking, Examining
<1> QED
  BY <1>2, <1>3, <1>4, AskingKeepsFolder

\* The message of an APPEND.
LEMMA AppendedKeepsFolder ==
  ASSUME IInv, FolderInv, Appended
  PROVE  FolderInv'
<1>1. PICK reply \in Reply :
        /\ ReadResponse(reply)
        /\ IF Answers(reply) /\ reply.status = "ok" THEN Returns("none") ELSE Fails
  BY DEF Appended
<1>2. PICK m : Taken(m, reply)
  BY <1>1, ResponseTaken DEF IInv
<1>3. pc' = "idle" /\ (returned'.error = "error" \/ returned'.data = "none") /\ UNCHANGED commands
  BY <1>1 DEF Returns, Fails, Failed, NothingReturned
<1>4. UNCHANGED <<session, selected, up, server>> /\ pc \in Asking /\ pc \notin Examining
  BY DEF Appended, Waits, serverVars, Asking, Examining, Appending
<1> QED
  BY <1>2, <1>3, <1>4, AskingKeepsFolder

\* The rest of the response that refuses it.
LEMMA AppendRefusedKeepsFolder ==
  ASSUME IInv, FolderInv, AppendRefused
  PROVE  FolderInv'
<1>1. PICK reply \in Reply : ReadResponse(reply)
  BY DEF AppendRefused
<1>2. PICK m : Taken(m, reply)
  BY <1>1, ResponseTaken DEF IInv
<1>3. pc' = "idle" /\ returned'.error = "error" /\ UNCHANGED commands
  BY DEF AppendRefused, Fails, Failed, NothingReturned
<1>4. UNCHANGED <<session, selected, up, server>> /\ pc \in Asking /\ pc \notin Examining
  BY DEF AppendRefused, Waits, serverVars, Asking, Examining, Appending
<1> QED
  BY <1>2, <1>3, <1>4, AskingKeepsFolder

\* While it goes on, no tagged reply is read and no other command sent.
LEMMA GoesOnKeepsFolder ==
  ASSUME IInv, FolderInv, NEW m, NEW reply, Taken(m, reply), reply.kind # "tagged",
         NEW verb \in Special, Sends(verb), UNCHANGED <<session, selected, caller, returned, server, up>>,
         \/ pc \in Appending /\ pc' \in Appending
         \/ pc = "oauth" /\ pc' = "login"
  PROVE  FolderInv'
<1> DEFINE cmd == [verb |-> verb, tag |-> session.tag, folder |-> "none"]
<1>1. cmd \in Command /\ cmd.tag = session.tag /\ cmd.verb = verb
  BY DEF Command, Special, Verb, Place, IInv, Types, ClientTypes
<1>2. commands \in Seq(Command) /\ (commands' = commands \/ commands' = Append(commands, cmd))
  BY DEF IInv, Types, WireTypes, Sends
<1> HIDE DEF cmd
<1>3. \A j \in 1 .. Len(commands') :
        (j \in 1 .. Len(commands) /\ commands'[j] = commands[j]) \/ commands'[j] = cmd
  BY <1>1, <1>2, SentIsLast
<1>4. \A j \in 1 .. Len(commands) : j \in 1 .. Len(commands') /\ commands'[j] = commands[j]
  <2>1. CASE commands' = commands
    BY <2>1
  <2>2. CASE commands' = Append(commands, cmd)
    BY <1>1, <1>2, <2>2
  <2> QED
    BY <1>2, <2>1, <2>2
<1>5. RepliesOrdered'
  BY ReadKeepsOrder DEF IInv, FolderInv, Taken
<1>6. m \in Nat /\ Len(replies) \in Nat /\ \A k \in 1 .. m : replies[k].kind # "tagged"
  BY TagsAreNumbers DEF Taken, Piece, IInv
<1>7. \A i \in 1 .. Len(replies') : m + i \in 1 .. Len(replies) /\ replies'[i] = replies[m + i]
  BY DEF Taken, Piece
<1>8. ASSUME NEW i \in 1 .. Len(replies), replies[i].kind = "tagged"
      PROVE  \E j \in 1 .. Len(replies') : replies'[j] = replies[i]
  <2>1. ~(i \in 1 .. m)
    BY <1>6, <1>8
  <2>2. i - m \in 1 .. Len(replies') /\ m + (i - m) = i
    BY <1>6, <2>1 DEF Taken
  <2> QED
    BY <1>7, <2>2
<1>9. \A i \in 1 .. Len(replies') : \E j \in 1 .. Len(replies) : replies'[i] = replies[j]
  BY <1>7
<1>10. Now' = Now /\ pc # "idle" /\ pc' # "idle" /\ session'.tag = session.tag
  BY DEF Now, Appending
<1>11. Late => Late'
  <2>1. CASE \E i \in 1 .. Len(replies) : replies[i].kind = "tagged" /\ replies[i].tag < Now
    BY <1>8, <1>10, <2>1 DEF Late
  <2>2. CASE \E i \in 1 .. Len(commands) : commands[i].verb \in Numbered /\ commands[i].tag < Now
    BY <1>4, <1>10, <2>2 DEF Late
  <2>3. CASE server.mode = "literal" /\ server.tag < Now
    BY <1>10, <2>3 DEF Late
  <2>4. CASE ~up /\ \A i \in 1 .. Len(replies) : replies[i].kind = "tagged" => replies[i].tag < Now
    <3>1. \A i \in 1 .. Len(replies') : replies'[i].kind = "tagged" => replies'[i].tag < Now'
      BY <1>9, <1>10, <2>4
    <3> QED
      BY <2>4, <3>1 DEF Late
  <2> QED
    BY <2>1, <2>2, <2>3, <2>4 DEF Late
<1>12. OwnCommand'
  <2>1. pc \notin Examining /\ pc' \notin Examining /\ (pc \in Appending => pc' \in Appending)
    BY DEF Appending, Examining
  <2>2. ASSUME NEW j \in 1 .. Len(commands'), commands'[j].tag = session'.tag
        PROVE  commands'[j].verb # "EXAMINE" /\ (commands'[j].verb = "APPEND" => pc' \in Appending)
    <3>1. CASE j \in 1 .. Len(commands) /\ commands'[j] = commands[j]
      BY <1>10, <2>1, <2>2, <3>1 DEF FolderInv, OwnCommand
    <3>2. CASE commands'[j] = cmd
      BY <1>1, <3>2 DEF Special
    <3> QED
      BY <1>3, <3>1, <3>2
  <2>3. server.mode = "literal" /\ server.tag = session.tag => pc' \in Appending
    BY <1>10, <2>1 DEF FolderInv, OwnCommand
  <2> QED
    BY <1>10, <2>1, <2>2, <2>3 DEF OwnCommand
<1>13. OwnPending'
  <2>1. SUFFICES ASSUME pc' \in Asking, up, ~server.swallowed
                 PROVE  OwnPending'
    BY DEF OwnPending
  <2>2. pc \in Asking
    BY <2>1 DEF Asking, Appending, Examining
  <2>3. CASE \E i \in 1 .. Len(replies) : replies[i].kind = "tagged" /\ replies[i].tag = session.tag
    BY <1>8, <1>10, <2>3 DEF OwnPending
  <2>4. CASE \E i \in 1 .. Len(commands) : commands[i].verb \in Numbered /\ commands[i].tag = session.tag
    BY <1>4, <1>10, <2>4 DEF OwnPending
  <2>5. CASE server.mode = "literal" /\ server.tag = session.tag
    BY <1>10, <2>5 DEF OwnPending
  <2> QED
    BY <2>1, <2>2, <2>3, <2>4, <2>5 DEF FolderInv, OwnPending
<1>14. ClientSelects'
  BY DEF FolderInv, ClientSelects, Appending
<1>15. ServerSelects'
  <2>1. SUFFICES ASSUME ~server.swallowed, ~Late'
                 PROVE  ServerSelects'
    BY DEF ServerSelects
  <2>2. pc \notin Examining /\ pc' \notin Examining /\ pc' \notin {"search", "fetch"}
    BY DEF Appending, Examining
  <2>3. session.state = "selected" => server.selected = selected
    BY <1>11, <2>1, <2>2 DEF FolderInv, ServerSelects
  <2> QED
    BY <2>2, <2>3 DEF ServerSelects
<1>16. DataFromFolderInStep'
  BY DEF FolderInv, DataFromFolderInStep, DataFromFolder
<1> QED
  BY <1>5, <1>12, <1>13, <1>14, <1>15, <1>16 DEF FolderInv

\* The continuation request of AUTHENTICATE.
LEMMA OauthKeepsFolder ==
  ASSUME IInv, FolderInv, Oauth
  PROVE  FolderInv'
<1>1. PICK reply \in Reply :
        reply.kind = "continue" /\ ReadLine(reply) /\ Continue("EMPTY", "login")
  BY DEF Oauth
<1>2. PICK m : Taken(m, reply)
  BY <1>1, LineTaken DEF IInv
<1>3. /\ UNCHANGED <<session, selected, caller, returned, server, up>>
      /\ pc = "oauth" /\ pc' = "login" /\ "EMPTY" \in Special /\ Sends("EMPTY")
  BY <1>1 DEF Oauth, Waits, serverVars, actorVars, Continue, Sends, Special
<1> QED
  BY <1>1, <1>2, <1>3, GoesOnKeepsFolder

\* The continuation request of APPEND, or what comes in its place.
LEMMA AppendLineKeepsFolder ==
  ASSUME IInv, FolderInv, AppendLine
  PROVE  FolderInv'
<1>1. PICK reply \in Reply :
       /\ ReadLine(reply)
       /\ \/ /\ reply.kind = "continue"
             /\ Continue("LITERAL", "appended") /\ UNCHANGED <<caller, returned>>
          \/ /\ reply.kind = "untagged"
             /\ pc' = "appendRefused" /\ UNCHANGED <<session, commands, caller, returned>>
          \/ /\ reply.kind \in {"tagged", "none"}
             /\ Fails /\ UNCHANGED session
  BY DEF AppendLine
<1>2. PICK m : Taken(m, reply)
  BY <1>1, LineTaken DEF IInv
<1>3. UNCHANGED <<selected, server, up>> /\ pc = "append"
  BY DEF AppendLine, Waits, serverVars
<1>4. CASE /\ reply.kind = "continue"
           /\ Continue("LITERAL", "appended") /\ UNCHANGED <<caller, returned>>
  <2>1. UNCHANGED session /\ pc' = "appended" /\ "LITERAL" \in Special /\ Sends("LITERAL")
    BY <1>4 DEF Continue, Sends, Special
  <2> QED
    BY <1>2, <1>3, <1>4, <2>1, GoesOnKeepsFolder DEF Appending
<1>5. CASE /\ reply.kind = "untagged"
           /\ pc' = "appendRefused" /\ UNCHANGED <<session, commands, caller, returned>>
  <2>1. "LITERAL" \in Special /\ Sends("LITERAL")
    BY <1>5 DEF Sends, Special
  <2> QED
    BY <1>2, <1>3, <1>5, <2>1, GoesOnKeepsFolder DEF Appending
<1>6. CASE reply.kind \in {"tagged", "none"} /\ Fails /\ UNCHANGED session
  <2>1. pc' = "idle" /\ returned'.error = "error" /\ UNCHANGED commands
    BY <1>6 DEF Fails, Failed, NothingReturned
  <2>2. pc \in Asking /\ pc \notin Examining
    BY <1>3 DEF Asking, Examining, Appending
  <2> QED
    BY <1>2, <1>3, <1>6, <2>1, <2>2, AskingKeepsFolder
<1> QED
  BY <1>1, <1>4, <1>5, <1>6

----------------------------------------------------------------------------
(***************************************************************************)
(* The folder, and a new command.                                          *)
(***************************************************************************)

\* A command that fits what the client waits for.
Fits(cmd) ==
  /\ cmd.verb \notin Special
  /\ cmd.verb = "EXAMINE" <=> pc' \in Examining
  /\ cmd.verb = "EXAMINE" => cmd.folder = caller'.folder
  /\ cmd.verb = "APPEND" => pc' \in Appending
  /\ pc' \in Asking => cmd.verb \in Numbered

\* It has a tag that nothing else has.
LEMMA IssueKeepsFolder ==
  ASSUME IInv, FolderInv, NEW m, Piece(m), UNCHANGED <<server, up>>,
         session'.tag = session.tag + 1, pc' # "idle",
         NEW cmd \in Command, cmd.tag = session'.tag, Fits(cmd),
         commands' = IF up THEN Append(commands, cmd) ELSE commands,
         ClientSelects', DataFromFolderInStep',
         ~server.swallowed /\ ~Late' /\ session'.state = "selected" /\ pc' \notin Examining =>
           server.selected = selected'
  PROVE  FolderInv'
<1>1. /\ session.tag \in Nat /\ session'.tag \in Nat /\ session.tag < session'.tag
      /\ server.tag \in Nat /\ server.tag < session'.tag
  BY TagsAreNumbers DEF IInv, Order
<1>2. commands \in Seq(Command) /\ (commands' = commands \/ commands' = Append(commands, cmd))
  BY DEF IInv, Types, WireTypes
<1>3. \A j \in 1 .. Len(commands') :
        (j \in 1 .. Len(commands) /\ commands'[j] = commands[j]) \/ commands'[j] = cmd
  BY <1>2, SentIsLast
<1>4. \A j \in 1 .. Len(commands) : commands[j].tag \in Nat /\ commands[j].tag <= session.tag
  BY TagsAreNumbers DEF IInv, Order, OneCommand
<1>5. \A j \in 1 .. Len(commands') : commands'[j].tag = session'.tag => commands'[j] = cmd
  <2>1. ASSUME NEW j \in 1 .. Len(commands'), commands'[j].tag = session'.tag, commands'[j] # cmd
        PROVE  FALSE
    <3>1. commands'[j].tag \in Nat /\ commands'[j].tag <= session.tag
      BY <1>3, <1>4, <2>1
    <3> QED
      BY <1>1, <2>1, <3>1
  <2> QED
    BY <2>1
<1>6. ASSUME NEW i \in 1 .. Len(replies'), replies'[i].kind = "tagged"
      PROVE  replies'[i].tag # session'.tag
  <2>1. m + i \in 1 .. Len(replies) /\ replies'[i] = replies[m + i]
    BY DEF Piece
  <2>2. replies'[i].tag \in Nat /\ replies'[i].tag <= session.tag
    BY <1>6, <2>1, TagsOfReplies DEF IInv
  <2> QED
    BY <1>1, <2>2
<1>7. RepliesOrdered'
  <2>1. \A j \in 1 .. Len(commands') :
          \/ \E k \in 1 .. Len(commands) : commands'[j] = commands[k]
          \/ /\ commands'[j].tag \in Nat /\ session.tag <= commands'[j].tag
             /\ commands'[j].verb \notin Special => session.tag < commands'[j].tag
    BY <1>1, <1>3
  <2> QED
    BY <2>1, PieceKeepsOrder DEF IInv, FolderInv
<1>8. server'.mode = "literal" => server'.tag # session'.tag
  BY <1>1
<1>9. OwnCommand'
  <2>1. ASSUME NEW j \in 1 .. Len(commands'), commands'[j].tag = session'.tag
        PROVE  /\ commands'[j].verb = "EXAMINE" <=> pc' \in Examining
               /\ commands'[j].verb = "EXAMINE" => commands'[j].folder = caller'.folder
               /\ commands'[j].verb = "APPEND" => pc' \in Appending
    BY <1>5, <2>1 DEF Fits
  <2> QED
    BY <1>8, <2>1 DEF OwnCommand
<1>10. OwnPending'
  <2>1. SUFFICES ASSUME pc' \in Asking, up
                 PROVE  OwnPending'
    BY DEF OwnPending
  <2>2. commands' = Append(commands, cmd)
    BY <2>1
  <2>3. Len(commands) + 1 \in 1 .. Len(commands') /\ commands'[Len(commands) + 1] = cmd
    BY <1>2, <2>2
  <2>4. cmd.verb \in Numbered
    BY <2>1 DEF Fits
  <2> QED
    BY <2>3, <2>4 DEF OwnPending
<1>11. ServerSelects'
  BY <1>6 DEF ServerSelects
<1> QED
  BY <1>7, <1>9, <1>10, <1>11 DEF FolderInv

\* One that a behaviour starts with: what is late for it was late before.
LEMMA BeginKeepsFolder ==
  ASSUME IInv, FolderInv, NEW verb, NEW op, NEW next, NEW folder,
         [verb |-> verb, tag |-> session'.tag, folder |-> folder] \in Command,
         Calls(op, folder, FALSE), Issue(verb, folder, session.state, next),
         UNCHANGED <<replies, up, timeouts>>,
         next \in Asking \cup {"logout"}, verb \notin Special,
         verb = "EXAMINE" <=> pc' \in Examining, verb = "APPEND" => pc' \in Appending,
         pc' \in Asking => verb \in Numbered, pc' # "search",
         pc' = "fetch" => session.state = "selected" /\ folder = selected
  PROVE  FolderInv'
<1> DEFINE cmd == [verb |-> verb, tag |-> session'.tag, folder |-> folder]
<1>1. session'.tag = session.tag + 1 /\ session'.state = session.state /\ pc' = next
  BY DEF Issue, IInv, Types, ClientTypes
<1>2. /\ UNCHANGED <<server, up, selected>> /\ pc = "idle" /\ caller'.folder = folder
      /\ returned' = NothingReturned /\ replies' = replies
  BY DEF Calls, serverVars
<1>3. commands' = IF up THEN Append(commands, cmd) ELSE commands
  BY <1>1 DEF Issue
<1>4. cmd \in Command /\ cmd.tag = session'.tag /\ Fits(cmd)
  BY <1>2 DEF Fits
<1> HIDE DEF cmd
<1>5. Piece(0)
  BY <1>2 DEF Piece, IInv, Types, WireTypes
<1>6. pc' \notin {"idle", "search", "greeting", "oauth", "login"}
  BY <1>1 DEF Asking, Appending, Examining
<1>7. ClientSelects' /\ DataFromFolderInStep'
  BY <1>1, <1>2, <1>6 DEF ClientSelects, DataFromFolderInStep, DataFromFolder, NothingReturned
<1>8. Late => Late'
  <2>1. Now' = Now
    BY <1>1, <1>2, <1>6 DEF Now
  <2>2. commands \in Seq(Command)
    BY DEF IInv, Types, WireTypes
  <2>3. \A j \in 1 .. Len(commands) : j \in 1 .. Len(commands') /\ commands'[j] = commands[j]
    <3>1. CASE up
      BY <1>3, <1>4, <2>2, <3>1
    <3>2. CASE ~up
      BY <1>3, <3>2
    <3> QED
      BY <3>1, <3>2
  <2> QED
    BY <1>2, <2>1, <2>3, SMTT(30) DEF Late
<1>9. ~server.swallowed /\ ~Late' /\ session'.state = "selected" /\ pc' \notin Examining =>
        server.selected = selected'
  BY <1>1, <1>2, <1>8 DEF FolderInv, ServerSelects, Examining
<1> QED
  BY <1>1, <1>2, <1>3, <1>4, <1>5, <1>6, <1>7, <1>9, IssueKeepsFolder

\* A behaviour that returns without a command.
LEMMA AtOnceKeepsFolder ==
  ASSUME IInv, FolderInv, NEW result \in Empty, ReturnsAtOnce(result)
  PROVE  FolderInv'
<1>1. /\ UNCHANGED <<session, selected, commands, replies, up, server>>
      /\ pc = "idle" /\ pc' = "idle" /\ returned'.data = "none"
  BY EmptyIsResult DEF ReturnsAtOnce, wire, serverVars
<1>2. Piece(0)
  BY <1>1 DEF Piece, IInv, Types, WireTypes
<1>3. Late' = Late
  BY <1>1 DEF Late, Now
<1>4. ~server.swallowed /\ ~Late' /\ session'.state = "selected" => server.selected = selected'
  BY <1>1, <1>3 DEF FolderInv, ServerSelects, Examining
<1>5. DataFromFolderInStep'
  BY <1>1 DEF DataFromFolderInStep, DataFromFolder
<1> QED
  BY <1>1, <1>2, <1>4, <1>5, EndKeepsFolder

\* beGetFolders, beExamine, beSearch, beFetch, beAppend and beClose.
LEMMA CallKeepsFolder ==
  ASSUME IInv, FolderInv,
         \/ beGetFolders \/ beFetch \/ beClose
         \/ \E folder \in Folder : beExamine(folder) \/ beSearch(folder) \/ beAppend(folder)
  PROVE  FolderInv'
<1> DEFINE Cmd(verb, folder) == [verb |-> verb, tag |-> session.tag + 1, folder |-> folder]
<1>1. ASSUME calls < MaxCalls, pc = "idle",
             NEW verb \in Verb, NEW folder \in Place
      PROVE  Cmd(verb, folder) \in Command
  <2>1. session.tag + 1 \in Tag
    BY <1>1, TagsAreNumbers, ImapBoundsAssumption DEF IInv, Types, ClientTypes, Budget, Tag
  <2> QED
    BY <2>1 DEF Command
<1>2. ASSUME NEW op, NEW folder \in Place, NEW states, NEW verb \in Verb,
             NEW refusal \in Empty, Begins(op, folder, states, verb, refusal),
             op \in Asking, verb \notin Special,
             verb = "EXAMINE" <=> op \in Examining, verb = "APPEND" => op \in Appending,
             verb \in Numbered, op # "search",
             op = "fetch" => states = {"selected"} /\ folder = selected
      PROVE  FolderInv'
  <2>1. CASE session.state \in states
    <3>1. Calls(op, folder, FALSE) /\ Issue(verb, folder, session.state, op)
          /\ UNCHANGED <<replies, up, timeouts>>
      BY <1>2, <2>1 DEF Begins
    <3>2. pc' = op /\ session'.tag = session.tag + 1
      BY <3>1 DEF Issue, IInv, Types, ClientTypes
    <3>3. Cmd(verb, folder) \in Command
      BY <1>1, <1>2, <3>1 DEF Calls
    <3>4. pc' = "fetch" => session.state = "selected" /\ folder = selected
      BY <1>2, <2>1, <3>2
    <3> QED
      BY <1>2, <3>1, <3>2, <3>3, <3>4, BeginKeepsFolder
  <2>2. CASE session.state \notin states
    BY <1>2, <2>2, AtOnceKeepsFolder DEF Begins
  <2> QED
    BY <2>1, <2>2
<1>3. "none" \in Place /\ selected \in Place /\ \A folder \in Folder : folder \in Place
  BY DEF Place, IInv, Types, ClientTypes
<1>4. CASE beGetFolders
  BY <1>2, <1>3, <1>4 DEF Empty, beGetFolders, Asking, Examining, Appending, Special, Verb, Numbered
<1>5. CASE beFetch
  BY <1>2, <1>3, <1>5, AtOnceKeepsFolder DEF Empty, beFetch, Asking, Examining, Appending, Special, Verb, Numbered
<1>6. ASSUME NEW folder \in Folder, beExamine(folder)
      PROVE  FolderInv'
  BY <1>2, <1>3, <1>6 DEF Empty, beExamine, Asking, Examining, Appending, Special, Verb, Numbered
<1>7. ASSUME NEW folder \in Folder, beSearch(folder)
      PROVE  FolderInv'
  BY <1>2, <1>3, <1>7 DEF Empty, beSearch, Asking, Examining, Appending, Special, Verb, Numbered
<1>8. ASSUME NEW folder \in Folder, beAppend(folder)
      PROVE  FolderInv'
  BY <1>2, <1>3, <1>8 DEF Empty, beAppend, Asking, Examining, Appending, Special, Verb, Numbered
<1>9. CASE beClose
  <2>1. /\ Calls("close", "none", FALSE) /\ Issue("LOGOUT", "none", session.state, "logout")
        /\ UNCHANGED <<replies, up, timeouts>>
    BY <1>9 DEF beClose
  <2>2. pc' = "logout" /\ session'.tag = session.tag + 1
    BY <2>1 DEF Issue, IInv, Types, ClientTypes
  <2>3. Cmd("LOGOUT", "none") \in Command
    BY <1>1, <1>3, <2>1 DEF Calls, Verb
  <2>4. pc' \notin Examining /\ pc' \notin Asking /\ "LOGOUT" \notin Special
    BY <2>2 DEF Asking, Examining, Appending, Special
  <2> QED
    BY <2>1, <2>2, <2>3, <2>4, BeginKeepsFolder
<1> QED
  BY <1>4, <1>5, <1>6, <1>7, <1>8, <1>9

\* The end of a login, which goes on with INBOX.
LEMMA LoginKeepsFolder ==
  ASSUME IInv, FolderInv, Login
  PROVE  FolderInv'
<1>1. PICK reply \in Reply :
       /\ ReadResponse(reply)
       /\ IF Answers(reply) /\ reply.status = "ok"
          THEN /\ Issue("EXAMINE", Inbox, "authenticated", "examine")
               /\ connectionInfo' = TRUE
               /\ UNCHANGED <<caller, returned>>
          ELSE Fails /\ UNCHANGED <<session, connectionInfo>>
  BY DEF Login
<1>2. PICK m : Taken(m, reply)
  BY <1>1, ResponseTaken DEF IInv
<1>3. Piece(m)
  BY <1>2 DEF Taken
<1>4. UNCHANGED <<selected, up, server, calls>> /\ pc \in {"oauth", "login"}
  BY DEF Login, Waits, serverVars
<1>5. session.state # "selected" /\ caller.folder = Inbox
  BY <1>4 DEF FolderInv, ClientSelects
<1>6. CASE /\ Issue("EXAMINE", Inbox, "authenticated", "examine")
           /\ UNCHANGED <<caller, returned>>
  <2> DEFINE cmd == [verb |-> "EXAMINE", tag |-> session'.tag, folder |-> Inbox]
  <2>1. session'.tag = session.tag + 1 /\ session'.state = "authenticated" /\ pc' = "examine"
    BY <1>6 DEF Issue, IInv, Types, ClientTypes
  <2>2. commands' = IF up THEN Append(commands, cmd) ELSE commands
    BY <1>6, <2>1 DEF Issue
  <2>3. cmd \in Command
    <3>1. session'.tag \in Tag
      BY <1>4, <2>1, TagsAreNumbers, ImapBoundsAssumption, SMTT(30) DEF IInv, Types, ClientTypes, Budget, Tag
    <3> QED
      BY <3>1, InboxAssumption DEF Command, Verb, Place
  <2>4. Fits(cmd)
    BY <1>5, <1>6, <2>1 DEF Fits, Special, Examining, Appending, Asking, Numbered
  <2>5. cmd.tag = session'.tag
    OBVIOUS
  <2> HIDE DEF cmd
  <2>6. ClientSelects' /\ DataFromFolderInStep' /\ pc' \in Examining
    BY <1>4, <1>6, <2>1
       DEF ClientSelects, FolderInv, DataFromFolderInStep, DataFromFolder, Examining
  <2> QED
    BY <1>3, <1>4, <2>1, <2>2, <2>3, <2>4, <2>5, <2>6, IssueKeepsFolder
<1>7. CASE Fails /\ UNCHANGED session
  <2>1. pc' = "idle" /\ UNCHANGED commands /\ DataFromFolderInStep'
    BY <1>7 DEF Fails, Failed, NothingReturned, DataFromFolderInStep, DataFromFolder
  <2> QED
    BY <1>3, <1>4, <1>5, <1>7, <2>1, EndKeepsFolder
<1> QED
  BY <1>1, <1>6, <1>7

\* The greeting.
LEMMA GreetingKeepsFolder ==
  ASSUME IInv, FolderInv, Greeting
  PROVE  FolderInv'
<1>1. PICK reply \in Reply :
       /\ ReadLine(reply)
       /\ \/ /\ reply.kind = "greeting" /\ reply.status = "ok"
             /\ Issue(IF caller.oauth2 THEN "AUTHENTICATE" ELSE "LOGIN", "none",
                      "nonauthenticated", IF caller.oauth2 THEN "oauth" ELSE "login")
             /\ UNCHANGED <<caller, returned>>
          \/ /\ reply.kind = "greeting" /\ reply.status = "preauth"
             /\ session' = [session EXCEPT !.state = "authenticated"]
             /\ Fails
          \/ /\ reply.kind # "greeting" \/ reply.status = "bye"
             /\ Fails
             /\ UNCHANGED session
  BY DEF Greeting
<1>2. PICK m : Taken(m, reply)
  BY <1>1, LineTaken DEF IInv
<1>3. Piece(m)
  BY <1>2 DEF Taken
<1>4. UNCHANGED <<selected, up, server, calls>> /\ pc = "greeting"
  BY DEF Greeting, Waits, serverVars
<1>5. session.state # "selected" /\ caller.folder = Inbox
  BY <1>4 DEF FolderInv, ClientSelects
<1>6. ASSUME NEW verb \in {"AUTHENTICATE", "LOGIN"}, NEW next \in {"oauth", "login"},
             Issue(verb, "none", "nonauthenticated", next), UNCHANGED <<caller, returned>>
      PROVE  FolderInv'
  <2> DEFINE cmd == [verb |-> verb, tag |-> session'.tag, folder |-> "none"]
  <2>1. session'.tag = session.tag + 1 /\ session'.state = "nonauthenticated" /\ pc' = next
    BY <1>6 DEF Issue, IInv, Types, ClientTypes
  <2>2. commands' = IF up THEN Append(commands, cmd) ELSE commands
    BY <1>6, <2>1 DEF Issue
  <2>3. cmd \in Command
    <3>1. session'.tag \in Tag
      BY <1>4, <2>1, TagsAreNumbers, ImapBoundsAssumption DEF IInv, Types, ClientTypes, Budget, Tag
    <3> QED
      BY <3>1 DEF Command, Verb, Place
  <2>4. Fits(cmd)
    BY <1>6, <2>1 DEF Fits, Special, Examining, Appending, Asking, Numbered
  <2>5. cmd.tag = session'.tag
    OBVIOUS
  <2> HIDE DEF cmd
  <2>6. ClientSelects' /\ DataFromFolderInStep'
    BY <1>4, <1>5, <1>6, <2>1 DEF ClientSelects, FolderInv, DataFromFolderInStep, DataFromFolder
  <2>7. pc' # "idle"
    BY <1>6, <2>1
  <2> QED
    BY <1>3, <1>4, <2>1, <2>2, <2>3, <2>4, <2>5, <2>6, <2>7, IssueKeepsFolder
<1>7. CASE Fails /\ (UNCHANGED session \/ session' = [session EXCEPT !.state = "authenticated"])
  <2>1. pc' = "idle" /\ UNCHANGED commands /\ DataFromFolderInStep'
    BY <1>7 DEF Fails, Failed, NothingReturned, DataFromFolderInStep, DataFromFolder
  <2>2. session'.state # "selected"
    BY <1>5, <1>7 DEF IInv, Types, ClientTypes
  <2> QED
    BY <1>3, <1>4, <2>1, <2>2, EndKeepsFolder
<1> QED
  BY <1>1, <1>6, <1>7

\* The reply to SELECT or EXAMINE.
LEMMA ExamineKeepsFolder ==
  ASSUME IInv, FolderInv, Examine
  PROVE  FolderInv'
<1>1. PICK reply \in Reply :
       /\ ReadResponse(reply)
       /\ IF Answers(reply) /\ reply.status = "ok"
          THEN /\ selected' = caller.folder
               /\ IF pc = "searchExamine"
                  THEN /\ Issue("SEARCH", "none", "selected", "search")
                       /\ UNCHANGED <<caller, returned>>
                  ELSE /\ Returns("none")
                       /\ session' = [session EXCEPT !.state = "selected"]
          ELSE /\ Fails
               /\ session' = [session EXCEPT !.state =
                                IF Answers(reply) THEN "authenticated" ELSE @]
               /\ UNCHANGED selected
  BY DEF Examine
<1>2. PICK m : Taken(m, reply)
  BY <1>1, ResponseTaken DEF IInv
<1>3. Piece(m)
  BY <1>2 DEF Taken
<1>4. /\ UNCHANGED <<up, server, calls>> /\ pc \in {"examine", "searchExamine"}
      /\ pc \in Examining /\ pc \in Asking /\ pc # "idle"
  BY DEF Examine, Waits, serverVars, Examining, Asking
<1>5. ASSUME ~server.swallowed, Own(reply)
      PROVE  reply.status \in {"ok", "no"} /\ (reply.status = "ok" => server.selected = caller.folder)
  <2>1. ~Late /\ m \in 1 .. Len(replies) /\ reply = replies[m]
    BY <1>2, <1>4, <1>5, OwnIsNotLate DEF IInv, FolderInv
  <2> QED
    BY <1>4, <1>5, <2>1 DEF FolderInv, ServerSelects, Own
<1>6. ASSUME ~server.swallowed, ~Own(reply), pc' = "idle", session'.tag = session.tag,
             UNCHANGED commands
      PROVE  Late'
  BY <1>2, <1>4, <1>6, OtherLeavesLate DEF IInv, FolderInv
\* It selects the folder, and a search goes on there.
<1>7. CASE /\ Answers(reply) /\ reply.status = "ok" /\ selected' = caller.folder
           /\ Issue("SEARCH", "none", "selected", "search") /\ pc = "searchExamine"
           /\ UNCHANGED <<caller, returned>>
  <2> DEFINE cmd == [verb |-> "SEARCH", tag |-> session'.tag, folder |-> "none"]
  <2>1. session'.tag = session.tag + 1 /\ session'.state = "selected" /\ pc' = "search"
    BY <1>7 DEF Issue, IInv, Types, ClientTypes
  <2>2. commands' = IF up THEN Append(commands, cmd) ELSE commands
    BY <1>7, <2>1 DEF Issue
  <2>3. cmd \in Command
    <3>1. session'.tag \in Tag
      BY <1>4, <1>7, <2>1, TagsAreNumbers, ImapBoundsAssumption, SMTT(30)
         DEF IInv, Types, ClientTypes, Budget, Tag
    <3> QED
      BY <3>1 DEF Command, Verb, Place
  <2>4. Fits(cmd)
    BY <2>1 DEF Fits, Special, Examining, Appending, Asking, Numbered
  <2>5. cmd.tag = session'.tag
    OBVIOUS
  <2> HIDE DEF cmd
  <2>6. ClientSelects' /\ DataFromFolderInStep'
    BY <1>4, <1>7, <2>1 DEF ClientSelects, FolderInv, DataFromFolderInStep, DataFromFolder
  <2>7. ~server.swallowed => server.selected = selected'
    BY <1>5, <1>7 DEF Answers, Own
  <2> QED
    BY <1>3, <1>4, <2>1, <2>2, <2>3, <2>4, <2>5, <2>6, <2>7, IssueKeepsFolder
<1>8. CASE /\ Answers(reply) /\ reply.status = "ok" /\ selected' = caller.folder
           /\ Returns("none") /\ session' = [session EXCEPT !.state = "selected"]
  <2>1. pc' = "idle" /\ UNCHANGED commands /\ DataFromFolderInStep'
    BY <1>8 DEF Returns, DataFromFolderInStep, DataFromFolder
  <2>2. ~server.swallowed => server.selected = selected'
    BY <1>5, <1>8 DEF Answers, Own
  <2> QED
    BY <1>3, <1>4, <2>1, <2>2, EndKeepsFolder
<1>9. CASE /\ ~(Answers(reply) /\ reply.status = "ok") /\ Fails /\ UNCHANGED selected
           /\ session' = [session EXCEPT !.state = IF Answers(reply) THEN "authenticated" ELSE @]
  <2>1. pc' = "idle" /\ UNCHANGED commands /\ DataFromFolderInStep'
    BY <1>9 DEF Fails, Failed, NothingReturned, DataFromFolderInStep, DataFromFolder
  <2>2. session'.tag = session.tag /\ (Answers(reply) => session'.state = "authenticated")
    BY <1>9 DEF IInv, Types, ClientTypes
  <2>3. ~server.swallowed /\ ~Late' => Answers(reply)
    BY <1>5, <1>6, <2>1, <2>2 DEF Answers, Own
  <2> QED
    BY <1>3, <1>4, <1>9, <2>1, <2>2, <2>3, EndKeepsFolder
<1> QED
  BY <1>1, <1>4, <1>7, <1>8, <1>9

\* The reply to LOGOUT.
LEMMA LogoutKeepsFolder ==
  ASSUME IInv, FolderInv, Logout
  PROVE  FolderInv'
<1>1. PICK reply \in Reply : ReadResponse(reply)
  BY DEF Logout
<1>2. PICK m : Taken(m, reply)
  BY <1>1, ResponseTaken DEF IInv
<1>3. /\ pc' = "idle" /\ commands' = <<>> /\ UNCHANGED server
      /\ returned' = [NothingReturned EXCEPT !.op = "close"]
      /\ session'.state = "disconnected"
  BY DEF Logout, serverVars, IInv, Types, ClientTypes
<1>4. RepliesOrdered'
  <2>1. Len(commands') = 0
    BY <1>3
  <2> QED
    BY <1>2, <1>3, <2>1, PieceKeepsOrder DEF IInv, FolderInv, Taken
<1>5. OwnCommand' /\ OwnPending' /\ ClientSelects' /\ ServerSelects'
  BY <1>3 DEF OwnCommand, OwnPending, ClientSelects, ServerSelects, Asking, Examining, Appending
<1>6. DataFromFolderInStep'
  BY <1>3 DEF DataFromFolderInStep, DataFromFolder, NothingReturned
<1> QED
  BY <1>4, <1>5, <1>6 DEF FolderInv

\* A new connection.
LEMMA beConnectKeepsFolder ==
  ASSUME IInv, FolderInv, NEW oauth2 \in BOOLEAN, beConnect(oauth2)
  PROVE  FolderInv'
<1>1. CASE ReturnsAtOnce(Failed)
  BY <1>1, AtOnceKeepsFolder DEF Empty
<1>2. CASE ~ReturnsAtOnce(Failed)
  <2>1. /\ session' = [session EXCEPT !.stream = TRUE] /\ session.state = "disconnected"
        /\ pc' = "greeting"
        /\ caller' = [op |-> "connect", folder |-> Inbox, oauth2 |-> oauth2]
        /\ returned' = NothingReturned
        /\ commands' = <<[verb |-> "CONNECT", tag |-> session.tag, folder |-> "none"]>>
        /\ replies' = <<>> /\ server' = NewServer
    BY <1>2 DEF beConnect
  <2>2. /\ Len(replies') = 0 /\ Len(commands') = 1 /\ commands'[1].verb = "CONNECT"
        /\ server'.mode = "command" /\ session'.state = "disconnected" /\ caller'.folder = Inbox
    BY <2>1 DEF NewServer, IInv, Types, ClientTypes
  <2>3. \A j \in 1 .. Len(commands') : commands'[j].verb = "CONNECT"
    BY <2>2
  <2>4. RepliesOrdered'
    BY <2>2 DEF RepliesOrdered
  <2>5. OwnCommand'
    BY <2>1, <2>2, <2>3 DEF OwnCommand, Examining
  <2>6. OwnPending' /\ ClientSelects' /\ ServerSelects'
    BY <2>1, <2>2 DEF OwnPending, ClientSelects, ServerSelects, Asking, Examining, Appending
  <2>7. DataFromFolderInStep'
    BY <2>1 DEF DataFromFolderInStep, DataFromFolder, NothingReturned
  <2> QED
    BY <2>4, <2>5, <2>6, <2>7 DEF FolderInv
<1> QED
  BY <1>1, <1>2

\* The connection breaks: what was late is never to come, and neither is what comes after.
LEMMA DropKeepsFolder ==
  ASSUME IInv, FolderInv, Drop
  PROVE  FolderInv'
<1>1. PICK n \in 0 .. Len(replies), cut \in {FALSE, CanCutLiteral} :
        LET received == SubSeq(replies, 1, n) IN
        /\ cut => EndsWithMessage(received)
        /\ replies' = IF cut THEN SubSeq(received, 1, n - 1) ELSE received
        /\ server' = [server EXCEPT !.cut = cut]
  BY DEF Drop
<1>2. /\ UNCHANGED <<session, pc, caller, selected, returned>>
      /\ up /\ up' = FALSE /\ commands' = <<>>
  BY DEF Drop, actorVars
<1> DEFINE received == SubSeq(replies, 1, n)
<1>3. /\ received \in Seq(Reply) /\ Len(received) = n
      /\ \A i \in 1 .. n : i \in 1 .. Len(replies) /\ received[i] = replies[i]
  BY DEF IInv, Types, WireTypes
<1>4. ASSUME cut
      PROVE  /\ n - 1 \in 0 .. n
             /\ SubSeq(received, 1, n - 1) \in Seq(Reply)
             /\ Len(SubSeq(received, 1, n - 1)) = n - 1
             /\ \A i \in 1 .. n - 1 : SubSeq(received, 1, n - 1)[i] = received[i]
  <2>1. received # <<>>
    BY <1>1, <1>4 DEF EndsWithMessage
  <2>2. n - 1 \in 0 .. n
    BY <1>3, <2>1
  <2> HIDE DEF received
  <2> QED
    BY <1>3, <2>2
<1>5. /\ replies' \in Seq(Reply)
      /\ \A i \in 1 .. Len(replies') : i \in 1 .. Len(replies) /\ replies'[i] = replies[i]
  <2>1. CASE cut
    BY <1>1, <1>3, <1>4, <2>1
  <2>2. CASE ~cut
    BY <1>1, <1>3, <2>2
  <2> QED
    BY <2>1, <2>2
<1>6. Piece(0)
  BY <1>5 DEF Piece
<1>7. /\ server'.mode = server.mode /\ server'.tag = server.tag
      /\ server'.selected = server.selected /\ server'.swallowed = server.swallowed
  BY <1>1 DEF IInv, Types, ServerTypes, Server
<1>8. Len(commands') = 0
  BY <1>2
<1>9. RepliesOrdered'
  BY <1>6, <1>7, <1>8, PieceKeepsOrder DEF IInv, FolderInv
<1>10. OwnCommand' /\ OwnPending' /\ ClientSelects' /\ DataFromFolderInStep'
  BY <1>2, <1>7, <1>8
     DEF FolderInv, OwnCommand, OwnPending, ClientSelects, DataFromFolderInStep, DataFromFolder
<1>11. Now' = Now /\ Now \in Nat
  BY <1>2, TagsAreNumbers DEF Now, IInv
<1>12. ASSUME Late
       PROVE  Late'
  <2> DEFINE OnlyEarlier == \A i \in 1 .. Len(replies') : replies'[i].kind = "tagged" => replies'[i].tag < Now
  <2>1. OnlyEarlier => Late'
    BY <1>2, <1>11 DEF Late
  <2>2. \A i \in 1 .. Len(replies') : replies'[i].tag \in Nat /\ replies[i].tag \in Nat
    BY <1>5, TagsOfReplies DEF IInv
  <2>3. ASSUME NEW i \in 1 .. Len(replies), replies[i].kind = "tagged", replies[i].tag < Now
        PROVE  Late'
    <3>1. CASE i \in 1 .. Len(replies')
      BY <1>5, <1>11, <2>3, <3>1 DEF Late
    <3>2. CASE i \notin 1 .. Len(replies')
      <4>1. ASSUME NEW j \in 1 .. Len(replies'), replies'[j].kind = "tagged"
            PROVE  replies'[j].tag < Now
        <5>1. j < i /\ j \in 1 .. Len(replies) /\ replies'[j] = replies[j]
          BY <1>5, <3>2, <4>1
        <5>2. replies[j].tag <= replies[i].tag
          BY <2>3, <4>1, <5>1 DEF FolderInv, RepliesOrdered
        <5>3. replies[i].tag \in Nat /\ replies[j].tag \in Nat
          BY <5>1, TagsOfReplies DEF IInv
        <5> QED
          BY <1>11, <2>3, <5>1, <5>2, <5>3
      <4> QED
        BY <2>1, <4>1
    <3> QED
      BY <3>1, <3>2
  <2>4. ASSUME NEW k \in 1 .. Len(commands), commands[k].tag < Now
        PROVE  Late'
    <3>1. ASSUME NEW j \in 1 .. Len(replies'), replies'[j].kind = "tagged"
          PROVE  replies'[j].tag < Now
      <4>1. j \in 1 .. Len(replies) /\ replies'[j] = replies[j]
        BY <1>5
      <4>2. replies[j].tag <= commands[k].tag
        BY <3>1, <4>1 DEF FolderInv, RepliesOrdered
      <4>3. replies[j].tag \in Nat /\ commands[k].tag \in Nat
        BY <4>1, TagsOfReplies, TagsAreNumbers DEF IInv
      <4> QED
        BY <1>11, <2>4, <4>1, <4>2, <4>3, SMTT(30)
    <3> QED
      BY <2>1, <3>1
  <2>5. CASE server.mode = "literal" /\ server.tag < Now
    BY <1>7, <1>11, <2>5 DEF Late
  <2> QED
    BY <1>2, <1>12, <2>3, <2>4, <2>5 DEF Late
<1>13. ServerSelects'
  BY <1>2, <1>5, <1>7, <1>12 DEF FolderInv, ServerSelects
<1> QED
  BY <1>9, <1>10, <1>13 DEF FolderInv

\* Nothing happens.
LEMMA StutterKeepsFolder ==
  ASSUME FolderInv, UNCHANGED vars
  PROVE  FolderInv'
<1>1. /\ UNCHANGED <<session, pc, caller, selected, returned>>
      /\ UNCHANGED <<commands, replies, up, server>>
  BY DEF vars, actorVars, wire, serverVars
<1>2. RepliesOrdered' /\ OwnCommand' /\ OwnPending'
  BY <1>1 DEF FolderInv, RepliesOrdered, OwnCommand, OwnPending
<1>3. Late' = Late
  BY <1>1 DEF Late, Now
<1>4. ClientSelects' /\ ServerSelects'
  BY <1>1, <1>3 DEF FolderInv, ClientSelects, ServerSelects
<1>5. DataFromFolderInStep'
  BY <1>1 DEF FolderInv, DataFromFolderInStep, DataFromFolder
<1> QED
  BY <1>2, <1>4, <1>5 DEF FolderInv

----------------------------------------------------------------------------
(***************************************************************************)
(* The folder, and the server.                                             *)
(***************************************************************************)

\* The server adds these replies, in some order.
Adds(R) ==
  /\ \A i \in 1 .. Len(replies) : i \in 1 .. Len(replies') /\ replies'[i] = replies[i]
  /\ \A i \in 1 .. Len(replies') : i \in 1 .. Len(replies) \/ replies'[i] \in R
  /\ \A r \in R : \E i \in 1 .. Len(replies') : replies'[i] = r

LEMMA AddsOne ==
  ASSUME Types, NEW r \in Reply, replies' = Append(replies, r)
  PROVE  Adds({r})
<1>1. replies \in Seq(Reply) /\ Len(replies) \in Nat
  BY DEF Types, WireTypes
<1>2. /\ Len(replies') = Len(replies) + 1
      /\ \A i \in 1 .. Len(replies) + 1 :
           replies'[i] = IF i <= Len(replies) THEN replies[i] ELSE r
  BY <1>1
<1>3. Len(replies) + 1 \in 1 .. Len(replies') /\ replies'[Len(replies) + 1] = r
  BY <1>1, <1>2
<1> QED
  BY <1>1, <1>2, <1>3 DEF Adds

LEMMA AddsTwo ==
  ASSUME Types, NEW r \in Reply, NEW s \in Reply,
         replies' = Append(replies, r) \o <<s>> \/ replies' = replies \o <<r, s>>
  PROVE  Adds({r, s})
<1>1. replies \in Seq(Reply) /\ Len(replies) \in Nat
  BY DEF Types, WireTypes
<1>2. <<r, s>> \in Seq(Reply) /\ Len(<<r, s>>) = 2 /\ <<r, s>>[1] = r /\ <<r, s>>[2] = s
      /\ <<s>> \in Seq(Reply) /\ Len(<<s>>) = 1 /\ <<s>>[1] = s
  OBVIOUS
<1>3. /\ Len(replies') = Len(replies) + 2
      /\ \A i \in 1 .. Len(replies) : replies'[i] = replies[i]
      /\ replies'[Len(replies) + 1] = r /\ replies'[Len(replies) + 2] = s
  <2>1. CASE replies' = replies \o <<r, s>>
    <3>1. /\ Len(replies') = Len(replies) + 2
          /\ \A i \in 1 .. Len(replies) + 2 :
               replies'[i] = IF i <= Len(replies) THEN replies[i] ELSE <<r, s>>[i - Len(replies)]
      BY <1>1, <1>2, <2>1, ConcatProperties
    <3> QED
      BY <1>1, <1>2, <3>1
  <2>2. CASE replies' = Append(replies, r) \o <<s>>
    <3> DEFINE more == Append(replies, r)
    <3>1. /\ more \in Seq(Reply) /\ Len(more) = Len(replies) + 1
          /\ \A i \in 1 .. Len(replies) + 1 :
               more[i] = IF i <= Len(replies) THEN replies[i] ELSE r
      BY <1>1
    <3>2. replies' = more \o <<s>>
      BY <2>2
    <3> HIDE DEF more
    <3>3. /\ Len(replies') = Len(more) + 1
          /\ \A i \in 1 .. Len(more) + 1 :
               replies'[i] = IF i <= Len(more) THEN more[i] ELSE <<s>>[i - Len(more)]
      BY <1>2, <3>1, <3>2, ConcatProperties
    <3> QED
      BY <1>1, <1>2, <3>1, <3>3
  <2> QED
    BY <2>1, <2>2
<1>4. \A i \in 1 .. Len(replies') :
        i \in 1 .. Len(replies) \/ i = Len(replies) + 1 \/ i = Len(replies) + 2
  BY <1>1, <1>3
<1>5. /\ \A i \in 1 .. Len(replies) : i \in 1 .. Len(replies')
      /\ Len(replies) + 1 \in 1 .. Len(replies') /\ Len(replies) + 2 \in 1 .. Len(replies')
  BY <1>1, <1>3
<1> QED
  BY <1>3, <1>4, <1>5 DEF Adds

\* The tagged reply to cmd, from a server that waits for no message.
IsAnswered(cmd, R) ==
  /\ server.mode # "literal" /\ server'.mode # "literal"
  /\ \E r :
       /\ R = {r} /\ r.kind = "tagged" /\ r.tag = cmd.tag
       /\ r.data \in {"none", server.selected}
       /\ cmd.verb = "EXAMINE" =>
            r.status \in {"ok", "no"} /\ (r.status = "ok" => server'.selected = cmd.folder)

\* The message's end.
MessageEnds(cmd, R) ==
  /\ server.mode = "literal" /\ server'.mode # "literal"
  /\ \E r \in R : r.kind = "tagged" /\ r.tag = server.tag
  /\ \A r \in R : r.kind = "tagged" => r.tag = server.tag
  /\ cmd.verb \in Numbered => server'.swallowed

\* No tagged reply: more of a message, the request for one, or a command that has none.
Untagged(cmd, R) ==
  /\ \A r \in R : r.kind # "tagged"
  /\ \/ /\ server.mode = "literal" /\ server'.mode = "literal" /\ server'.tag = server.tag
        /\ server'.swallowed
     \/ /\ server.mode # "literal" /\ server'.mode = "literal" /\ server'.tag = cmd.tag
        /\ cmd.verb = "APPEND"
     \/ /\ server.mode # "literal" /\ server'.mode # "literal" /\ cmd.verb \notin Numbered

\* What becomes of a command that the server takes in.
Turn(cmd) ==
  /\ server.swallowed => server'.swallowed
  /\ server'.selected = server.selected \/ cmd.verb = "EXAMINE"
  /\ \E R : Adds(R) /\ (IsAnswered(cmd, R) \/ MessageEnds(cmd, R) \/ Untagged(cmd, R))

\* It is answered.
LEMMA AnswerTurn ==
  ASSUME Types, NEW cmd \in Command, cmd.tag >= 1, server.mode # "literal", server'.mode # "literal",
         NEW status \in {"ok", "no", "bad"}, NEW data \in {"none", server.selected},
         Answer(cmd.tag, status, data),
         server.swallowed => server'.swallowed,
         server'.selected = server.selected \/ cmd.verb = "EXAMINE",
         cmd.verb = "EXAMINE" => status # "bad" /\ (status = "ok" => server'.selected = cmd.folder)
  PROVE  Turn(cmd)
<1> DEFINE r == Tagged(cmd.tag, status, data)
<1>1. cmd.tag \in Tag /\ data \in Place
  BY DEF Command, Types, ServerTypes, Server, Place
<1>2. r \in Reply /\ r.kind = "tagged" /\ r.tag = cmd.tag /\ r.status = status /\ r.data = data
  BY <1>1, TaggedIsReply
<1>3. replies' = Append(replies, r)
  BY DEF Answer
<1> HIDE DEF r
<1>4. Adds({r})
  BY <1>2, <1>3, AddsOne
<1>5. IsAnswered(cmd, {r})
  BY <1>2 DEF IsAnswered
<1> QED
  BY <1>4, <1>5 DEF Turn

\* It is not.
LEMMA LineTurn ==
  ASSUME Types, NEW cmd, NEW kind \in {"greeting", "continue", "untagged"},
         NEW status \in {"ok", "preauth", "bye"},
         \/ replies' = Append(replies, Line(kind, status))
         \/ replies' = replies \o <<Line("untagged", "ok"), Line(kind, status)>>,
         server.swallowed => server'.swallowed, server'.selected = server.selected,
         server.mode # "literal",
         \/ server'.mode = "literal" /\ server'.tag = cmd.tag /\ cmd.verb = "APPEND"
         \/ server'.mode # "literal" /\ cmd.verb \notin Numbered
  PROVE  Turn(cmd)
<1> DEFINE r == Line(kind, status)
           s == Line("untagged", "ok")
<1>1. r \in Reply /\ r.kind # "tagged" /\ s \in Reply /\ s.kind # "tagged"
  BY LineIsReply
<1>2. replies' = Append(replies, r) \/ replies' = replies \o <<s, r>>
  OBVIOUS
<1> HIDE DEF r, s
<1>3. PICK R : Adds(R) /\ \A q \in R : q.kind # "tagged"
  <2>1. CASE replies' = Append(replies, r)
    <3>1. Adds({r})
      BY <1>1, <2>1, AddsOne
    <3> QED
      BY <1>1, <3>1
  <2>2. CASE replies' = replies \o <<s, r>>
    <3>1. Adds({s, r})
      BY <1>1, <2>2, AddsTwo
    <3> QED
      BY <1>1, <3>1
  <2> QED
    BY <1>2, <2>1, <2>2
<1>4. Untagged(cmd, R)
  BY <1>3 DEF Untagged
<1> QED
  BY <1>3, <1>4 DEF Turn

\* Any command in the state command.
LEMMA CommandTurn ==
  ASSUME Types, NEW cmd \in Command, OneCommand(cmd), ServeCommand(cmd)
  PROVE  Turn(cmd)
<1>1. server \in Server /\ server.mode = "command" /\ (cmd.verb # "CONNECT" => cmd.tag >= 1)
  BY DEF Types, ServerTypes, ServeCommand, OneCommand
<1>2. ASSUME cmd.verb = "CONNECT", NEW status \in {"ok", "preauth", "bye"},
             replies' = Append(replies, Line("greeting", status)),
             server' = [server EXCEPT !.auth = status = "preauth"]
      PROVE  Turn(cmd)
  <2>1. server'.mode = "command" /\ server'.selected = server.selected
        /\ server'.swallowed = server.swallowed
    BY <1>1, <1>2 DEF Server
  <2> QED
    BY <1>1, <1>2, <2>1, LineTurn DEF Numbered
<1>3. CASE cmd.verb \in {"LOGIN", "AUTHENTICATE"} /\ ServeLogin(cmd)
  <2>1. server'.mode = "command" /\ server'.selected = server.selected
        /\ server'.swallowed = server.swallowed
    BY <1>1, <1>3 DEF Server, ServeLogin
  <2>2. PICK status \in {"ok", "no"} : Answer(cmd.tag, status, "none")
    BY <1>3 DEF ServeLogin
  <2> QED
    BY <1>1, <1>3, <2>1, <2>2, AnswerTurn
<1>4. CASE /\ cmd.verb = "AUTHENTICATE"
           /\ replies' = Append(replies, Line("continue", "ok"))
           /\ server' = [server EXCEPT !.mode = "authenticate"]
  <2>1. server'.mode = "authenticate" /\ server'.selected = server.selected
        /\ server'.swallowed = server.swallowed
    BY <1>1, <1>4 DEF Server
  <2> QED
    BY <1>1, <1>4, <2>1, LineTurn DEF Numbered
<1>5. CASE cmd.verb = "EXAMINE" /\ ServeExamine(cmd)
  <2>1. server'.mode = "command" /\ server'.swallowed = server.swallowed
    BY <1>1, <1>5 DEF Server, ServeExamine
  <2>2. CASE Answer(cmd.tag, "ok", "none") /\ server' = [server EXCEPT !.selected = cmd.folder]
    <3>1. server'.selected = cmd.folder
      BY <1>1, <2>2 DEF Server
    <3> QED
      BY <1>1, <1>5, <2>1, <2>2, <3>1, AnswerTurn
  <2>3. CASE Answer(cmd.tag, "no", "none")
    BY <1>1, <1>5, <2>1, <2>3, AnswerTurn
  <2> QED
    BY <1>5, <2>2, <2>3 DEF ServeExamine
<1>6. CASE cmd.verb \in {"SEARCH", "FETCH"} /\ ServeData(cmd)
  <2>1. server' = server
    BY <1>6 DEF ServeData
  <2>2. PICK status \in {"ok", "no", "bad"}, data \in {"none", server.selected} :
          Answer(cmd.tag, status, data)
    BY <1>6 DEF ServeData
  <2> QED
    BY <1>1, <1>6, <2>1, <2>2, AnswerTurn
<1>7. CASE cmd.verb = "APPEND" /\ ServeAppend(cmd)
  <2>1. CASE /\ \/ replies' = Append(replies, Line("continue", "ok"))
                \/ replies' = replies \o <<Line("untagged", "ok"), Line("continue", "ok")>>
             /\ server' = [server EXCEPT !.mode = "literal", !.tag = cmd.tag,
                                         !.folder = cmd.folder, !.junk = FALSE]
    <3>1. /\ server'.mode = "literal" /\ server'.tag = cmd.tag
          /\ server'.selected = server.selected /\ server'.swallowed = server.swallowed
      BY <1>1, <2>1 DEF Server
    <3> QED
      BY <1>1, <1>7, <2>1, <3>1, LineTurn
  <2>2. CASE Answer(cmd.tag, "no", "none") /\ UNCHANGED serverVars
    <3>1. server' = server
      BY <2>2 DEF serverVars
    <3> QED
      BY <1>1, <1>7, <2>2, <3>1, AnswerTurn
  <2> QED
    BY <1>7, <2>1, <2>2 DEF ServeAppend
<1>8. CASE cmd.verb \in {"LIST", "LOGOUT"} /\ Simple(cmd)
  <2>1. server' = server
    BY <1>8 DEF Simple
  <2>2. PICK status \in {"ok", "no"} : Answer(cmd.tag, status, "none")
    BY <1>8 DEF Simple
  <2> QED
    BY <1>1, <1>8, <2>1, <2>2, AnswerTurn
<1>9. CASE /\ cmd.verb \in {"LITERAL", "EMPTY"}
           /\ replies' = Append(replies, Line("untagged", "ok"))
           /\ UNCHANGED serverVars
  <2>1. server' = server
    BY <1>9 DEF serverVars
  <2> QED
    BY <1>1, <1>9, <2>1, LineTurn DEF Numbered
<1> QED
  BY <1>2, <1>3, <1>4, <1>5, <1>6, <1>7, <1>8, <1>9 DEF ServeCommand

\* The end of a login exchange: a command that comes in its place is refused.
LEMMA AuthenticateTurn ==
  ASSUME Types, NEW cmd \in Command, OneCommand(cmd), ServeAuthenticate(cmd)
  PROVE  Turn(cmd)
<1>1. /\ Answer(cmd.tag, "no", "none") /\ server.mode = "authenticate"
      /\ server' = [server EXCEPT !.mode = "command"]
  BY DEF ServeAuthenticate
<1>2. cmd.tag >= 1
  BY <1>1 DEF OneCommand, NewServer
<1>3. server'.mode = "command" /\ server'.selected = server.selected
      /\ server'.swallowed = server.swallowed
  BY <1>1 DEF Types, ServerTypes, Server
<1> QED
  BY <1>1, <1>2, <1>3, AnswerTurn

\* The message of an APPEND, or what comes in its place.
LEMMA LiteralTurn ==
  ASSUME Types, NEW cmd \in Command, ServeLiteral(cmd), server.tag >= 1
  PROVE  Turn(cmd)
<1> DEFINE whole == cmd.verb = "LITERAL" /\ cmd.tag = server.tag /\ ~server.junk
           rest == IF whole THEN <<>> ELSE <<Line("untagged", "ok")>>
<1>1. server \in Server /\ server.mode = "literal" /\ server.tag \in Tag /\ "none" \in Place
      /\ replies \in Seq(Reply)
  BY DEF Types, ServerTypes, WireTypes, Server, ServeLiteral, Place
<1>2. CASE /\ ~whole
           /\ server' = [server EXCEPT !.junk = TRUE, !.swallowed = TRUE]
           /\ UNCHANGED replies
  <2>1. /\ server'.mode = "literal" /\ server'.tag = server.tag
        /\ server'.selected = server.selected /\ server'.swallowed
    BY <1>1, <1>2 DEF Server
  <2>2. Adds({})
    BY <1>2 DEF Adds
  <2>3. Untagged(cmd, {})
    BY <1>1, <2>1 DEF Untagged
  <2> QED
    BY <2>1, <2>2, <2>3 DEF Turn
<1>3. ASSUME NEW status \in {"ok", "no"},
             server' = [server EXCEPT !.mode = "command", !.swallowed = @ \/ ~whole],
             replies' = Append(replies, Tagged(server.tag, status, "none")) \o rest
      PROVE  Turn(cmd)
  <2>1. /\ server'.mode = "command" /\ server'.selected = server.selected
        /\ server'.swallowed = (server.swallowed \/ ~whole)
    BY <1>1, <1>3 DEF Server
  <2> DEFINE r == Tagged(server.tag, status, "none")
             s == Line("untagged", "ok")
  <2>2. r \in Reply /\ r.kind = "tagged" /\ r.tag = server.tag
    BY <1>1, TaggedIsReply
  <2>3. s \in Reply /\ s.kind # "tagged"
    BY LineIsReply
  <2>4. /\ whole => replies' = Append(replies, r) \o <<>>
        /\ ~whole => replies' = Append(replies, r) \o <<s>>
    BY <1>3
  <2> HIDE DEF r, s
  <2>5. PICK R : Adds(R) /\ r \in R /\ R \subseteq {r, s}
    <3>1. CASE whole
      <4>1. Append(replies, r) \o <<>> = Append(replies, r)
        BY <1>1, <2>2
      <4>2. Adds({r})
        BY <2>2, <2>4, <3>1, <4>1, AddsOne
      <4> QED
        BY <4>2
    <3>2. CASE ~whole
      <4>1. Adds({r, s})
        BY <2>2, <2>3, <2>4, <3>2, AddsTwo
      <4> QED
        BY <4>1
    <3> QED
      BY <3>1, <3>2
  <2>6. MessageEnds(cmd, R)
    BY <1>1, <2>1, <2>2, <2>3, <2>5 DEF MessageEnds, Numbered
  <2> QED
    BY <2>1, <2>5, <2>6 DEF Turn
<1>4. \/ /\ ~whole
         /\ server' = [server EXCEPT !.junk = TRUE, !.swallowed = TRUE]
         /\ UNCHANGED replies
      \/ /\ server' = [server EXCEPT !.mode = "command", !.swallowed = @ \/ ~whole]
         /\ \/ replies' = Append(replies, Tagged(server.tag, "ok", "none")) \o rest
            \/ replies' = Append(replies, Tagged(server.tag, "no", "none")) \o rest
  BY DEF ServeLiteral
<1> HIDE DEF whole, rest
<1> QED
  BY <1>2, <1>3, <1>4

\* The server takes in the first command.
LEMMA ServeKeepsFolder ==
  ASSUME IInv, FolderInv, Serve, WireTypes'
  PROVE  FolderInv'
<1> DEFINE cmd == Head(commands)
<1>1. /\ commands # <<>> /\ commands' = Tail(commands) /\ up
      /\ ServeCommand(cmd) \/ ServeAuthenticate(cmd) \/ ServeLiteral(cmd)
      /\ UNCHANGED <<session, pc, caller, selected, returned, up>>
  BY DEF Serve, actorVars
<1>2. /\ \A i \in 1 .. Len(commands') : i + 1 \in 1 .. Len(commands) /\ commands'[i] = commands[i + 1]
      /\ \A i \in 1 .. Len(commands) : i = 1 \/ (i - 1 \in 1 .. Len(commands') /\ commands'[i - 1] = commands[i])
      /\ cmd = commands[1] /\ 1 \in 1 .. Len(commands)
  <2>1. /\ commands \in Seq(Command) /\ Len(commands) \in Nat \ {0}
        /\ Len(commands') = Len(commands) - 1
        /\ \A i \in 1 .. Len(commands') : commands'[i] = commands[i + 1]
        /\ cmd = commands[1]
    BY <1>1 DEF IInv, Types, WireTypes
  <2>2. ASSUME NEW i \in 1 .. Len(commands), i # 1
        PROVE  i - 1 \in 1 .. Len(commands') /\ (i - 1) + 1 = i
    BY <2>1, <2>2
  <2> HIDE DEF cmd
  <2> QED
    BY <2>1, <2>2
<1>3. cmd \in Command /\ OneCommand(cmd) /\ cmd.tag \in Nat
  BY <1>2, TagsAreNumbers DEF IInv, Order
<1> HIDE DEF cmd
<1>4. Turn(cmd)
  <2>1. server.mode = "literal" => server.tag >= 1
    BY TagsAreNumbers DEF IInv, Order
  <2>2. CASE ServeLiteral(cmd)
    BY <1>3, <2>1, <2>2, LiteralTurn DEF IInv, ServeLiteral
  <2> QED
    BY <1>1, <1>3, <2>2, CommandTurn, AuthenticateTurn DEF IInv
<1>5. PICK R : Adds(R) /\ (IsAnswered(cmd, R) \/ MessageEnds(cmd, R) \/ Untagged(cmd, R))
  BY <1>4 DEF Turn
<1>6. /\ session.tag \in Nat /\ server.tag \in Nat /\ Now' = Now /\ Now \in Nat
      /\ cmd.tag <= session.tag /\ Len(replies) \in Nat /\ Len(replies') \in Nat
  BY <1>1, <1>3, TagsAreNumbers DEF IInv, OneCommand, Now, WireTypes
<1>7. /\ \A i \in 1 .. Len(replies) : i \in 1 .. Len(replies') /\ replies'[i] = replies[i]
      /\ \A i \in 1 .. Len(replies') : i \in 1 .. Len(replies) \/ replies'[i] \in R
      /\ \A r \in R : \E i \in 1 .. Len(replies') : replies'[i] = r
  BY <1>5 DEF Adds
\* The tags of the new replies.
<1>8. ASSUME NEW r \in R, r.kind = "tagged"
      PROVE  /\ server'.mode # "literal"
             /\ \/ server.mode # "literal" /\ r.tag = cmd.tag
                \/ server.mode = "literal" /\ r.tag = server.tag
  BY <1>5, <1>8 DEF IsAnswered, MessageEnds, Untagged
<1>9. ASSUME NEW i \in 1 .. Len(commands')
      PROVE  /\ cmd.tag <= commands'[i].tag
             /\ commands'[i].verb \notin Special => cmd.tag < commands'[i].tag
             /\ server.mode = "literal" =>
                  /\ server.tag <= commands'[i].tag
                  /\ commands'[i].verb \notin Special => server.tag < commands'[i].tag
  <2>1. 1 < i + 1 /\ i + 1 \in 1 .. Len(commands) /\ commands'[i] = commands[i + 1]
    BY <1>2
  <2>2. TwoCommands(cmd, commands'[i]) /\ OneCommand(commands'[i])
    BY <1>2, <2>1 DEF IInv, Order
  <2> QED
    BY <2>2 DEF TwoCommands, OneCommand
<1>10. RepliesOrdered'
  <2>1. ASSUME NEW i \in 1 .. Len(replies'), NEW j \in 1 .. Len(replies'), i < j,
               replies'[i].kind = "tagged", replies'[j].kind = "tagged"
        PROVE  replies'[i].tag <= replies'[j].tag
    <3>1. CASE j \in 1 .. Len(replies)
      <4>1. i \in 1 .. Len(replies)
        BY <2>1, <3>1
      <4> QED
        BY <1>7, <2>1, <3>1, <4>1 DEF FolderInv, RepliesOrdered
    <3>2. CASE j \notin 1 .. Len(replies) /\ i \in 1 .. Len(replies)
      <4>1. replies'[j] \in R /\ replies'[i] = replies[i]
        BY <1>7, <3>2
      <4>2. replies[i].tag <= cmd.tag
        BY <1>2, <2>1, <3>2, <4>1 DEF FolderInv, RepliesOrdered
      <4>3. server.mode = "literal" => replies[i].tag <= server.tag
        BY <2>1, <3>2, <4>1 DEF FolderInv, RepliesOrdered
      <4> QED
        BY <1>8, <2>1, <4>1, <4>2, <4>3
    <3>3. CASE j \notin 1 .. Len(replies) /\ i \notin 1 .. Len(replies)
      <4>1. replies'[j] \in R /\ replies'[i] \in R
        BY <1>7, <3>3
      <4>2. replies'[i].tag = replies'[j].tag /\ replies'[j].tag \in {cmd.tag, server.tag}
        BY <1>8, <2>1, <4>1
      <4> QED
        BY <1>3, <1>6, <4>2
    <3> QED
      BY <3>1, <3>2, <3>3
  <2>2. ASSUME NEW i \in 1 .. Len(replies'), NEW j \in 1 .. Len(commands'), replies'[i].kind = "tagged"
        PROVE  /\ replies'[i].tag <= commands'[j].tag
               /\ commands'[j].verb \notin Special => replies'[i].tag < commands'[j].tag
    <3>1. CASE i \in 1 .. Len(replies)
      <4>1. replies'[i] = replies[i] /\ j + 1 \in 1 .. Len(commands) /\ commands'[j] = commands[j + 1]
        BY <1>2, <1>7, <3>1
      <4> QED
        BY <2>2, <3>1, <4>1 DEF FolderInv, RepliesOrdered
    <3>2. CASE replies'[i] \in R
      BY <1>8, <1>9, <2>2, <3>2
    <3> QED
      BY <1>7, <3>1, <3>2
  <2>3. ASSUME server'.mode = "literal", NEW i \in 1 .. Len(replies'), replies'[i].kind = "tagged"
        PROVE  replies'[i].tag <= server'.tag
    <3>1. i \in 1 .. Len(replies) /\ replies'[i] = replies[i]
      BY <1>7, <1>8, <2>3
    <3>2. replies[i].tag <= cmd.tag /\ (server.mode = "literal" => replies[i].tag <= server.tag)
      BY <1>2, <2>3, <3>1 DEF FolderInv, RepliesOrdered
    <3>3. \/ server.mode = "literal" /\ server'.tag = server.tag
          \/ server'.tag = cmd.tag
      BY <1>5, <2>3 DEF IsAnswered, MessageEnds, Untagged
    <3> QED
      BY <3>1, <3>2, <3>3
  <2> QED
    BY <2>1, <2>2, <2>3 DEF RepliesOrdered
<1>11. OwnCommand'
  <2>1. SUFFICES ASSUME pc # "idle"
                 PROVE  OwnCommand'
    BY <1>1 DEF OwnCommand
  <2>2. /\ \A i \in 1 .. Len(commands) :
             commands[i].tag = session.tag =>
               /\ commands[i].verb = "EXAMINE" <=> pc \in Examining
               /\ commands[i].verb = "EXAMINE" => commands[i].folder = caller.folder
               /\ commands[i].verb = "APPEND" => pc \in Appending
        /\ server.mode = "literal" /\ server.tag = session.tag => pc \in Appending
    BY <2>1 DEF FolderInv, OwnCommand
  <2>3. server'.mode = "literal" /\ server'.tag = session.tag => pc \in Appending
    <3>1. \/ server'.mode # "literal"
          \/ server.mode = "literal" /\ server'.tag = server.tag
          \/ server'.tag = cmd.tag /\ cmd.verb = "APPEND"
      BY <1>5 DEF IsAnswered, MessageEnds, Untagged
    <3> QED
      BY <1>2, <2>2, <3>1
  <2>4. \A i \in 1 .. Len(commands') :
             commands'[i].tag = session.tag =>
               /\ commands'[i].verb = "EXAMINE" <=> pc \in Examining
               /\ commands'[i].verb = "EXAMINE" => commands'[i].folder = caller.folder
               /\ commands'[i].verb = "APPEND" => pc \in Appending
    BY <1>2, <2>2
  <2> QED
    BY <1>1, <2>3, <2>4 DEF OwnCommand
\* A numbered command leaves a reply, or a server that waits for its message.
<1>12. ASSUME cmd.verb \in Numbered, ~server'.swallowed
       PROVE  \/ \E i \in 1 .. Len(replies') : replies'[i].kind = "tagged" /\ replies'[i].tag = cmd.tag
              \/ server'.mode = "literal" /\ server'.tag = cmd.tag
  BY <1>5, <1>7, <1>12 DEF IsAnswered, MessageEnds, Untagged
<1>13. ASSUME server.mode = "literal", ~server'.swallowed
       PROVE  \E i \in 1 .. Len(replies') : replies'[i].kind = "tagged" /\ replies'[i].tag = server.tag
  BY <1>5, <1>7, <1>13 DEF IsAnswered, MessageEnds, Untagged
<1>14. OwnPending'
  <2>1. SUFFICES ASSUME pc \in Asking, ~server'.swallowed
                 PROVE  OwnPending'
    BY <1>1 DEF OwnPending
  <2>2. ~server.swallowed
    BY <1>4, <2>1 DEF Turn
  <2>3. CASE \E i \in 1 .. Len(replies) : replies[i].kind = "tagged" /\ replies[i].tag = session.tag
    BY <1>1, <1>7, <2>3 DEF OwnPending
  <2>4. ASSUME NEW i \in 1 .. Len(commands), commands[i].verb \in Numbered, commands[i].tag = session.tag
        PROVE  OwnPending'
    <3>1. CASE i = 1
      BY <1>1, <1>2, <1>12, <2>1, <2>4, <3>1 DEF OwnPending
    <3>2. CASE i - 1 \in 1 .. Len(commands') /\ commands'[i - 1] = commands[i]
      BY <1>1, <2>4, <3>2 DEF OwnPending
    <3> QED
      BY <1>2, <3>1, <3>2
  <2>5. CASE server.mode = "literal" /\ server.tag = session.tag
    BY <1>1, <1>13, <2>1, <2>5 DEF OwnPending
  <2> QED
    BY <1>1, <2>1, <2>2, <2>3, <2>4, <2>5 DEF FolderInv, OwnPending
<1>15. ClientSelects'
  BY <1>1 DEF FolderInv, ClientSelects
<1>16. ASSUME Late, ~server'.swallowed
       PROVE  Late'
  <2>1. CASE \E i \in 1 .. Len(replies) : replies[i].kind = "tagged" /\ replies[i].tag < Now
    BY <1>6, <1>7, <2>1 DEF Late
  <2>2. ASSUME NEW i \in 1 .. Len(commands), commands[i].verb \in Numbered, commands[i].tag < Now
        PROVE  Late'
    <3>1. CASE i = 1
      <4>1. cmd.tag < Now /\ cmd.verb \in Numbered
        BY <1>2, <2>2, <3>1
      <4> QED
        BY <1>6, <1>12, <1>16, <4>1 DEF Late
    <3>2. CASE i - 1 \in 1 .. Len(commands') /\ commands'[i - 1] = commands[i]
      BY <1>6, <2>2, <3>2 DEF Late
    <3> QED
      BY <1>2, <3>1, <3>2
  <2>3. CASE server.mode = "literal" /\ server.tag < Now
    BY <1>6, <1>13, <1>16, <2>3 DEF Late
  <2> QED
    BY <1>1, <1>16, <2>1, <2>2, <2>3 DEF Late
<1>17. ServerSelects'
  <2>1. SUFFICES ASSUME ~server'.swallowed, ~Late'
                 PROVE  ServerSelects'
    BY DEF ServerSelects
  <2>2. ~server.swallowed /\ ~Late
    BY <1>4, <1>16, <2>1 DEF Turn
  <2>3. session.state = "selected" /\ pc \notin Examining => server.selected = selected
    BY <2>2 DEF FolderInv, ServerSelects
  \* Only the running behaviour's EXAMINE is still to be taken in.
  <2>4. ASSUME cmd.verb = "EXAMINE"
        PROVE  cmd.tag = session.tag /\ pc \in Examining /\ cmd.folder = caller.folder
    <3>1. ~(cmd.tag < Now)
      BY <1>2, <2>2, <2>4 DEF Late, Numbered
    <3>2. pc # "idle" /\ cmd.tag = session.tag
      BY <1>3, <1>6, <3>1 DEF Now
    <3> QED
      BY <1>2, <2>4, <3>2 DEF FolderInv, OwnCommand
  <2>5. session.state = "selected" /\ pc \notin Examining => server'.selected = selected
    BY <1>4, <2>3, <2>4 DEF Turn
  <2>6. ASSUME NEW i \in 1 .. Len(replies'), replies'[i].kind = "tagged", replies'[i].tag = session.tag
        PROVE  /\ pc \in Examining => /\ replies'[i].status \in {"ok", "no"}
                                      /\ replies'[i].status = "ok" => server'.selected = caller.folder
               /\ pc \in {"search", "fetch"} => replies'[i].data \in {"none", selected}
    <3>1. CASE i \in 1 .. Len(replies)
      <4>1. replies'[i] = replies[i]
        BY <1>7, <3>1
      <4>2. cmd.verb # "EXAMINE"
        <5>1. ASSUME cmd.verb = "EXAMINE" PROVE FALSE
          <6>1. replies[i].tag < cmd.tag
            BY <1>2, <2>6, <3>1, <4>1, <5>1 DEF FolderInv, RepliesOrdered, Special
          <6> QED
            BY <1>6, <2>4, <2>6, <4>1, <5>1, <6>1
        <5> QED
          BY <5>1
      <4>3. server'.selected = server.selected
        BY <1>4, <4>2 DEF Turn
      <4> QED
        BY <2>2, <2>6, <3>1, <4>1, <4>3 DEF FolderInv, ServerSelects
    <3>2. CASE replies'[i] \in R
      <4> DEFINE r == replies'[i]
      <4> HIDE DEF r
      <4>1. r \in R /\ r.kind = "tagged" /\ r.tag = session.tag
        BY <2>6, <3>2 DEF r
      <4>2. CASE server.mode = "literal"
        <5>1. server.tag = session.tag
          BY <1>8, <4>1, <4>2
        <5>2. pc = "idle" \/ pc \in Appending
          BY <4>2, <5>1 DEF FolderInv, OwnCommand
        <5> QED
          BY <5>2 DEF Appending, Examining
      <4>3. CASE server.mode # "literal"
        <5>1. /\ r.tag = cmd.tag /\ r.data \in {"none", server.selected}
              /\ cmd.verb = "EXAMINE" =>
                   r.status \in {"ok", "no"} /\ (r.status = "ok" => server'.selected = cmd.folder)
          BY <1>5, <4>1, <4>3 DEF IsAnswered, MessageEnds, Untagged
        <5>2. ASSUME pc \in Examining
              PROVE  r.status \in {"ok", "no"} /\ (r.status = "ok" => server'.selected = caller.folder)
          <6>1. cmd.verb = "EXAMINE"
            BY <1>2, <4>1, <5>1, <5>2 DEF FolderInv, OwnCommand, Examining
          <6> QED
            BY <2>4, <5>1, <6>1
        <5>3. ASSUME pc \in {"search", "fetch"}
              PROVE  r.data \in {"none", selected}
          BY <2>3, <5>1, <5>3 DEF FolderInv, ClientSelects, Examining
        <5> QED
          BY <5>2, <5>3 DEF r
      <4> QED
        BY <4>2, <4>3
    <3> QED
      BY <1>7, <3>1, <3>2
  <2> QED
    BY <1>1, <2>5, <2>6 DEF ServerSelects
<1>18. DataFromFolderInStep'
  BY <1>1, <1>4 DEF FolderInv, DataFromFolderInStep, DataFromFolder, Turn
<1> QED
  BY <1>10, <1>11, <1>14, <1>15, <1>17, <1>18 DEF FolderInv

\* One lemma for every action.
LEMMA NextKeepsFolder ==
  ASSUME IInv, FolderInv, [Next]_vars, IInv'
  PROVE  FolderInv'
<1>1. ASSUME NEW oauth2 \in BOOLEAN, beConnect(oauth2)
      PROVE  FolderInv'
  BY <1>1, beConnectKeepsFolder
<1>2. CASE \/ beGetFolders \/ beFetch \/ beClose
           \/ \E folder \in Folder : beExamine(folder) \/ beSearch(folder) \/ beAppend(folder)
  BY <1>2, CallKeepsFolder
<1>3. CASE BehaviourStep
  BY <1>3, GreetingKeepsFolder, OauthKeepsFolder, LoginKeepsFolder, LogoutKeepsFolder,
     ListKeepsFolder, ExamineKeepsFolder, SearchKeepsFolder, FetchKeepsFolder,
     AppendLineKeepsFolder, AppendRefusedKeepsFolder, AppendedKeepsFolder
     DEF BehaviourStep
<1>4. CASE Serve
  BY <1>4, ServeKeepsFolder DEF IInv, Types
<1>5. CASE Drop
  BY <1>5, DropKeepsFolder
<1>6. CASE UNCHANGED vars
  BY <1>6, StutterKeepsFolder
<1> QED
  BY <1>1, <1>2, <1>3, <1>4, <1>5, <1>6 DEF Next

\* FolderInv is what every reachable state satisfies, with IInv.
LEMMA FolderInvariance == Spec => []FolderInv
<1>1. Init => FolderInv
  <2>1. ASSUME Init PROVE FolderInv
    <3>1. /\ session = [stream |-> FALSE, state |-> "disconnected", tag |-> 0]
          /\ pc = "idle" /\ returned = NothingReturned
          /\ Len(commands) = 0 /\ Len(replies) = 0 /\ server = NewServer
      BY <2>1 DEF Init
    <3>2. session.state = "disconnected" /\ server.mode = "command"
      BY <3>1 DEF NewServer
    <3>3. RepliesOrdered /\ OwnCommand
      BY <3>1, <3>2 DEF RepliesOrdered, OwnCommand
    <3>4. OwnPending /\ ClientSelects /\ ServerSelects
      BY <3>1, <3>2 DEF OwnPending, ClientSelects, ServerSelects, Asking, Examining, Appending
    <3>5. DataFromFolderInStep
      BY <3>1 DEF DataFromFolderInStep, DataFromFolder, NothingReturned
    <3> QED
      BY <3>3, <3>4, <3>5 DEF FolderInv
  <2> QED
    BY <2>1
<1>2. IInv /\ FolderInv /\ [Next]_vars /\ IInv' => FolderInv'
  BY NextKeepsFolder
<1> QED
  BY <1>1, <1>2, Invariance, PTL DEF Spec

----------------------------------------------------------------------------
(***************************************************************************)
(* The theorems.                                                           *)
(***************************************************************************)
\* The variables of mailimap, of the actor and of the wire have their types: above all
\* no behaviour ever uses more than two tags.
THEOREM ImapTypeCorrect == Spec => []TypeOK
<1>1. IInv => TypeOK
  <2>1. ASSUME IInv PROVE TypeOK
    <3>1. ClientTypes /\ WireTypes /\ ServerTypes
      BY <2>1 DEF IInv, Types
    <3>2. \A i \in 1 .. Len(replies) : replies[i] \in Reply
      BY <3>1 DEF WireTypes
    <3> QED
      BY <3>1, <3>2 DEF TypeOK, ClientTypes, WireTypes, ServerTypes, Tag, Place, Pc
  <2> QED
    BY <2>1
<1> QED
  BY <1>1, Invariance, PTL

\* A behaviour of IMAP that has sent its command returns nil only if the server has
\* carried out that very command (mailimap_parse_response compares the tags), whatever
\* was late, lost or swallowed.  Two results promise nothing: the [] of beGetFolders, which
\* is also what it has when LIST fails, and the nil of a fetch of no messages, which
\* sends nothing.
THEOREM NilIsAlwaysThisCommand == Spec => []NilIsThisCommand
<1>1. IInv => NilIsThisCommand
  BY DEF IInv, ResultHolds, NilIsThisCommand
<1> QED
  BY <1>1, Invariance, PTL

\* beAppend returns nil only if the message is stored, whole, in the folder it was for,
\* although mailimap_append sends it as bytes without a tag.
THEOREM AppendedIsAlwaysStored == Spec => []AppendedMeansStored
<1>1. IInv => AppendedMeansStored
  BY DEF IInv
<1> QED
  BY <1>1, Invariance, PTL

\* A session whose imap_state says that it is logged in talks to a server that agrees.
THEOREM LoggedInIsAlwaysAuthenticated == Spec => []LoggedInMeansAuthenticated
<1>1. IInv => LoggedInMeansAuthenticated
  BY DEF IInv
<1> QED
  BY <1>1, Invariance, PTL

\* What beSearch and beFetch bring comes from the folder that the client takes for
\* selected (struct mailimap keeps only the state, the actor no name), whatever timed out,
\* came late or was lost, as long as the server has taken no command for a message.
THEOREM DataIsAlwaysFromFolderInStep == Spec => []DataFromFolderInStep
<1>1. FolderInv => DataFromFolderInStep
  BY DEF FolderInv
<1> QED
  BY <1>1, FolderInvariance, PTL
=============================================================================
