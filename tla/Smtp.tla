-------------------------------- MODULE Smtp --------------------------------
(***************************************************************************)
(* The SMTP actor (Sources/MailPacket/SMTP.swift), its bridge              *)
(* (libetpan/cmailpacket.c) and the session of libetpan it drives          *)
(* (libetpan/low-level/smtp), against a server at the other end of a       *)
(* connection.                                                             *)
(*                                                                         *)
(* A behaviour runs to its end before the actor takes the next one, and    *)
(* inside it the C code alternates: send one command, wait for one reply.  *)
(* An action is what happens between two waits.  The wait itself ends with *)
(* the server's reply, with the end of the connection, or with the network *)
(* timeout, and a timeout does not close the connection: the reply that    *)
(* comes later is read as the answer to a later command.                   *)
(*                                                                         *)
(* The server is not in the repository.  It follows RFC 5321 and RFC 4954, *)
(* answers the commands in order, and refuses what it likes.               *)
(***************************************************************************)
EXTENDS Integers, Sequences

CONSTANTS
  Send,             \* calls of beSend; each is made once
  MaxRecipients,    \* bound: recipients of a send
  MaxConnects,      \* bound: calls of beConnect
  MaxTimeouts,      \* bound: waits that end before a reply that does come
  CanDrop,          \* may the connection break?
  Refuses,          \* commands the server may refuse although they are in order
  Capabilities,     \* what a reply to EHLO may announce
  NestedMailRefused,\* a server answers MAIL inside a transaction with 503, or
                    \* starts the transaction again
  CallersAsk        \* what a caller looks at before beSend: "result" of its last
                    \* beConnect, or "info", what beGetConnection returns

ASSUME CapabilitiesAssumption ==
  Capabilities \subseteq [starttls : BOOLEAN, size : {"absent", "bare", "limit"}, auth : BOOLEAN]
ASSUME BoundsAssumption ==
  {MaxRecipients, MaxConnects, MaxTimeouts} \subseteq Nat
\* "none" stands for no send, where a send's name can be.
ASSUME SendAssumption == "none" \notin Send

VARIABLES
  session,        \* the fields of struct mailsmtp that steer it
  pc,             \* the command whose reply is awaited, "idle" or "crashed"
  caller,         \* the arguments and the progress of the running behaviour
  connectionInfo, \* unsafeConnectionInfo # nil
  connected,      \* the last beConnect has returned nil, and no beClose came after
  result,         \* what each send returned
  connects,       \* calls of beConnect so far
  commands,       \* sent by the client, not yet taken in by the server
  replies,        \* sent by the server, not yet read by the client
  up,             \* the connection is not broken
  timeouts,       \* how many waits ended too early
  server,         \* the server's side of the session
  delivered       \* the messages the server has accepted

clientVars == <<session, pc, caller>>
actorVars == <<connectionInfo, connected, result, connects>>
serverVars == <<server, delivered>>
wire == <<commands, replies, up, timeouts>>
vars == <<clientVars, actorVars, wire, serverVars>>

----------------------------------------------------------------------------
(***************************************************************************)
(* Values.                                                                 *)
(***************************************************************************)
NoCapabilities == [starttls |-> FALSE, size |-> "absent", auth |-> FALSE]

\* A command: its verb, and the send it belongs to with a number, if it has one.
Plain(verb) == [verb |-> verb, of |-> "none", n |-> 0]
Of(verb, s, n) == [verb |-> verb, of |-> s, n |-> n]

\* A reply: its code, and the capabilities it lists.  Code 0 is no reply.
Code(code) == [code |-> code, caps |-> NoCapabilities]
NoReply == Code(0)
Reply == {Code(c) : c \in {0, 220, 235, 250, 334, 354, 451, 454, 500, 501, 502, 503,
                           535, 550, 552, 554}}
         \cup {[code |-> 250, caps |-> c] : c \in Capabilities}

NewServer(tls) ==
  [tls |-> tls, hello |-> FALSE, auth |-> FALSE, mode |-> "command", rounds |-> 0,
   open |-> "none", rcpts |-> {}, junk |-> FALSE, caps |-> NoCapabilities]

NoCaller == [op |-> "none", security |-> "ssl", oauth2 |-> FALSE, upgraded |-> FALSE,
             send |-> "none", n |-> 0, big |-> FALSE, i |-> 0]

Init ==
  /\ session = [stream |-> FALSE, esmtp |-> FALSE, starttls |-> FALSE, size |-> FALSE,
                max |-> 0, auth |-> "notChecked"]
  /\ pc = "idle" /\ caller = NoCaller
  /\ connectionInfo = FALSE /\ connected = FALSE
  /\ result = [s \in Send |-> "none"]
  /\ connects = 0
  /\ commands = <<>> /\ replies = <<>> /\ up = FALSE /\ timeouts = 0
  /\ server = NewServer(FALSE)
  /\ delivered = {}

----------------------------------------------------------------------------
(***************************************************************************)
(* The client's end of the connection.                                     *)
(***************************************************************************)

\* send_command, then the wait for its reply: what is written to a broken
\* connection is lost, and the wait finds that out.
Issue(command, next) ==
  /\ commands' = IF up THEN Append(commands, command) ELSE commands
  /\ pc' = next
  /\ UNCHANGED actorVars

\* read_response: the first reply there is.  Without one, code 0 when the
\* connection is broken or the server has nothing left to answer, and in
\* MaxTimeouts cases when the server is only late.  The mutant waits for ever.
ReadForEver(reply) ==
  /\ replies # <<>>
  /\ reply = Head(replies) /\ replies' = Tail(replies)
  /\ UNCHANGED timeouts
Read(reply) ==
  \/ /\ replies # <<>>
     /\ reply = Head(replies) /\ replies' = Tail(replies)
     /\ UNCHANGED timeouts
  \/ /\ replies = <<>> /\ reply = NoReply /\ UNCHANGED replies
     /\ IF commands = <<>> THEN UNCHANGED timeouts
        ELSE timeouts < MaxTimeouts /\ timeouts' = timeouts + 1

Waits(state) == pc = state /\ UNCHANGED <<connects, serverVars>>

\* The end of a beConnect: unsafeConnectionInfo is set on success and kept
\* otherwise.
ConnectReturns(error) ==
  /\ pc' = "idle" /\ caller' = NoCaller
  /\ connected' = (error = "nil")
  /\ connectionInfo' = (connectionInfo \/ error = "nil")
  /\ UNCHANGED <<result, commands>>

SendReturns(error) ==
  /\ pc' = "idle" /\ caller' = NoCaller
  /\ result' = [result EXCEPT ![caller.send] = error]
  /\ UNCHANGED <<connectionInfo, connected, commands>>

----------------------------------------------------------------------------
(***************************************************************************)
(* beConnect.                                                              *)
(***************************************************************************)

\* A new stream takes the place of the session's, closed or not; when the
\* server cannot be reached the session keeps the stream it had.
beConnect(security, oauth2) ==
  /\ pc = "idle" /\ connects < MaxConnects
  /\ connects' = connects + 1
  /\ connected' = FALSE
  /\ \/ UNCHANGED <<clientVars, connectionInfo, result, wire, serverVars>>
     \/ /\ session' = [session EXCEPT !.stream = TRUE]
        /\ caller' = [NoCaller EXCEPT !.op = "connect", !.security = security,
                                      !.oauth2 = oauth2]
        /\ pc' = "greeting"
        /\ commands' = <<Plain("CONNECT")>> /\ replies' = <<>> /\ up' = TRUE
        /\ server' = NewServer(security = "ssl")
        /\ UNCHANGED <<connectionInfo, result, timeouts, delivered>>

\* mailsmtp_connect: anything but 220 closes the stream; an error of any other
\* command keeps it.
Greeting ==
  /\ Waits("greeting") /\ UNCHANGED up
  /\ \E reply \in Reply :
       /\ Read(reply)
       /\ IF reply.code = 220
          THEN Issue(Plain("EHLO"), "ehlo") /\ UNCHANGED <<session, caller>>
          ELSE ConnectReturns("error") /\ session' = [session EXCEPT !.stream = FALSE]

\* mailsmtp_auth or mailsmtp_oauth2_authenticate: only the first looks at what
\* the server announced.
Authenticate(s) ==
  IF caller.oauth2 THEN Issue(Plain("AUTH"), "oauth") /\ UNCHANGED caller
  ELSE IF s.auth = "usable" THEN Issue(Plain("AUTH"), "sasl") /\ UNCHANGED caller
  ELSE ConnectReturns("error")

\* mailsmtp_init has succeeded and left the session as s.  The mutant takes
\* STARTTLS for an option.
InitialisedOpportunistic(s) ==
  /\ session' = s
  /\ IF caller.security = "startTLS" /\ ~caller.upgraded /\ s.starttls
     THEN Issue(Plain("STARTTLS"), "starttls") /\ UNCHANGED caller
     ELSE Authenticate(s)
Initialised(s) ==
  /\ session' = s
  /\ IF caller.security = "startTLS" /\ ~caller.upgraded
     THEN IF s.starttls THEN Issue(Plain("STARTTLS"), "starttls") /\ UNCHANGED caller
          ELSE ConnectReturns("error")
     ELSE Authenticate(s)

\* mailesmtp_parse_ehlo: smtp_max_msg_size is only written when SIZE has a number.
ParseEhlo(caps) ==
  [session EXCEPT !.esmtp = TRUE, !.starttls = caps.starttls, !.size = caps.size # "absent",
                  !.max = IF caps.size = "limit" THEN 1 ELSE @,
                  !.auth = IF caps.auth THEN "usable" ELSE "none"]

\* The reply to EHLO.  Whatever is wrong with it, HELO is tried next.
Ehlo ==
  /\ Waits("ehlo") /\ UNCHANGED up
  /\ \E reply \in Reply :
       /\ Read(reply)
       /\ IF reply.code = 250 THEN Initialised(ParseEhlo(reply.caps))
          ELSE Issue(Plain("HELO"), "helo") /\ UNCHANGED <<session, caller>>

Helo ==
  /\ Waits("helo") /\ UNCHANGED up
  /\ \E reply \in Reply :
       /\ Read(reply)
       /\ IF reply.code = 250
          THEN Initialised([session EXCEPT !.esmtp = FALSE, !.starttls = FALSE,
                                           !.size = FALSE, !.auth = "notChecked"])
          ELSE ConnectReturns("error") /\ UNCHANGED session

\* mailsmtp_socket_starttls: the handshake is part of this step and may fail,
\* which the server answers by hanging up.  It fails when replies are left over.
Starttls ==
  /\ Waits("starttls") /\ UNCHANGED session
  /\ \E reply \in Reply :
       /\ Read(reply)
       /\ \/ ConnectReturns("error") /\ up' = (up /\ reply.code # 220)
          \/ /\ reply.code = 220 /\ replies' = <<>> /\ up
             /\ Issue(Plain("TLS+EHLO"), "ehlo")
             /\ caller' = [caller EXCEPT !.upgraded = TRUE]
             /\ UNCHANGED up

\* The SASL dialogue.  A challenge that the client cannot answer ends the call
\* and leaves the server waiting.  Codes below 400 pass for success
\* (auth_map_errors).  The mutant takes no reply for a success, too.
AuthSucceedsSilently(code) == code \notin 400 .. 599
AuthSucceeds(code) == code # 0 /\ code \notin 400 .. 599

Sasl ==
  /\ Waits("sasl") /\ UNCHANGED <<session, up>>
  /\ \E reply \in Reply :
       /\ Read(reply)
       /\ \/ reply.code = 334 /\ Issue(Plain("RESPONSE"), "sasl") /\ UNCHANGED caller
          \/ reply.code = 334 /\ ConnectReturns("error")
          \/ /\ reply.code # 334
             /\ ConnectReturns(IF AuthSucceeds(reply.code) THEN "nil" ELSE "error")

\* AUTH XOAUTH2.  A 334 carries the error, and an empty line acknowledges it.
Oauth ==
  /\ (Waits("oauth") \/ Waits("oauthError")) /\ UNCHANGED <<session, up>>
  /\ \E reply \in Reply :
       /\ Read(reply)
       /\ IF pc = "oauth" /\ reply.code = 334
          THEN Issue(Plain("RESPONSE"), "oauthError") /\ UNCHANGED caller
          ELSE ConnectReturns(IF reply.code \in {220, 235} THEN "nil" ELSE "error")

----------------------------------------------------------------------------
(***************************************************************************)
(* beSend and beClose.                                                     *)
(***************************************************************************)

\* A command on a session without a stream: send_command dereferences it.
SendIssues(s, n, big) ==
  /\ caller' = [NoCaller EXCEPT !.op = "send", !.send = s, !.n = n, !.big = big]
  /\ UNCHANGED actorVars
  /\ IF session.stream THEN Issue(Of("MAIL", s, IF big THEN 1 ELSE 0), "mail")
     ELSE pc' = "crashed" /\ UNCHANGED commands

\* The message is too big for the last limit a server announced.
ExceedsLimit(big) == session.esmtp /\ session.size /\ session.max # 0 /\ big

beSend(s, n, big) ==
  /\ pc = "idle" /\ result[s] = "none"
  /\ IF CallersAsk = "result" THEN connected ELSE connectionInfo
  /\ IF n = 0 \/ ExceedsLimit(big)
     THEN /\ result' = [result EXCEPT ![s] = IF n = 0 THEN "error" ELSE "tooBig"]
          /\ UNCHANGED <<pc, caller, connectionInfo, connected, connects, commands>>
     ELSE SendIssues(s, n, big)
  /\ UNCHANGED <<session, replies, up, timeouts, serverVars>>

\* The reply to MAIL.  The mutant goes on with a transaction that is open.
MailInOpenTransaction ==
  /\ Waits("mail") /\ UNCHANGED <<session, up>>
  /\ \E reply \in Reply :
       /\ Read(reply)
       /\ IF reply.code \in {250, 503}
          THEN Issue(Of("RCPT", caller.send, 1), "rcpt") /\ caller' = [caller EXCEPT !.i = 1]
          ELSE SendReturns("error")
Mail ==
  /\ Waits("mail") /\ UNCHANGED <<session, up>>
  /\ \E reply \in Reply :
       /\ Read(reply)
       /\ IF reply.code = 250
          THEN Issue(Of("RCPT", caller.send, 1), "rcpt") /\ caller' = [caller EXCEPT !.i = 1]
          ELSE SendReturns("error")

\* The reply to RCPT: the next recipient, or DATA.  One refusal ends the send;
\* the transaction is not reset.  The mutants skip a refused recipient, and
\* loop once too often.
NextRecipient(last) ==
  IF caller.i < last
  THEN Issue(Of("RCPT", caller.send, caller.i + 1), "rcpt") /\ caller' = [caller EXCEPT !.i = @ + 1]
  ELSE Issue(Of("DATA", caller.send, 0), "data") /\ UNCHANGED caller
RcptSkipsRefused ==
  /\ Waits("rcpt") /\ UNCHANGED <<session, up>>
  /\ \E reply \in Reply :
       Read(reply) /\ IF reply.code = 0 THEN SendReturns("error") ELSE NextRecipient(caller.n)
RcptOnceMore ==
  /\ Waits("rcpt") /\ UNCHANGED <<session, up>>
  /\ \E reply \in Reply :
       Read(reply) /\ IF reply.code = 250 THEN NextRecipient(caller.n + 1) ELSE SendReturns("error")
Rcpt ==
  /\ Waits("rcpt") /\ UNCHANGED <<session, up>>
  /\ \E reply \in Reply :
       Read(reply) /\ IF reply.code = 250 THEN NextRecipient(caller.n) ELSE SendReturns("error")

Data ==
  /\ Waits("data") /\ UNCHANGED <<session, up>>
  /\ \E reply \in Reply :
       /\ Read(reply)
       /\ IF reply.code = 354
          THEN Issue(Of("TEXT", caller.send, caller.n), "message") /\ UNCHANGED caller
          ELSE SendReturns("error")

\* The reply to the message text.  Without EHLO, mailesmtp_send_mail has called
\* mailsmtp_send, which has sent the text already: mailesmtp_send sends it again.
\* The mutant drops the session on an error.
MessageClosesStream ==
  /\ Waits("message") /\ UNCHANGED up
  /\ \E reply \in Reply :
       /\ Read(reply)
       /\ SendReturns(IF reply.code = 250 THEN "nil" ELSE "error")
       /\ session' = [session EXCEPT !.stream = reply.code = 250]
MessageTwice ==
  /\ (Waits("message") \/ Waits("again")) /\ UNCHANGED <<session, up>>
  /\ \E reply \in Reply :
       /\ Read(reply)
       /\ IF reply.code # 250 THEN SendReturns("error")
          ELSE IF pc = "message"
          THEN Issue(Of("TEXT", caller.send, caller.n), "again") /\ UNCHANGED caller
          ELSE SendReturns("nil")
Message ==
  /\ (Waits("message") \/ Waits("again")) /\ UNCHANGED <<session, up>>
  /\ \E reply \in Reply :
       /\ Read(reply)
       /\ IF reply.code # 250 THEN SendReturns("error")
          ELSE IF pc = "message" /\ ~session.esmtp
          THEN Issue(Of("TEXT", caller.send, caller.n), "again") /\ UNCHANGED caller
          ELSE SendReturns("nil")

\* mailsmtp_quit: QUIT is sent if there is a stream, its reply is not waited for.
beClose ==
  /\ pc = "idle"
  /\ session' = [session EXCEPT !.stream = FALSE]
  /\ connected' = FALSE
  /\ commands' = IF session.stream /\ up THEN Append(commands, Plain("QUIT")) ELSE commands
  /\ UNCHANGED <<pc, caller, connectionInfo, result, connects, replies, up, timeouts, serverVars>>

----------------------------------------------------------------------------
(***************************************************************************)
(* The server: it takes in one command and answers it.                     *)
(***************************************************************************)
Reset(srv) == [srv EXCEPT !.open = "none", !.rcpts = {}]

\* The answer to a verb is `code`, unless the server refuses the verb.
Answer(verb, code, refusal) ==
  \/ replies' = Append(replies, Code(code))
  \/ verb \in Refuses /\ replies' = Append(replies, Code(refusal))

Accepted == replies'[Len(replies')].code \notin 400 .. 599

\* EHLO and HELO start over; EHLO announces what the server can do now.
ServeHello(verb, srv) ==
  /\ IF verb = "HELO"
     THEN /\ replies' = Append(replies, Code(250))
          /\ server' = [Reset(srv) EXCEPT !.hello = TRUE]
     ELSE \/ \E caps \in Capabilities :
               /\ replies' = Append(replies, [code |-> 250, caps |-> caps])
               /\ server' = [Reset(srv) EXCEPT !.hello = TRUE, !.caps = caps]
          \/ /\ "EHLO" \in Refuses
             /\ replies' = Append(replies, Code(502))
             /\ server' = srv
  /\ UNCHANGED <<up, delivered>>

\* AUTH and the answers to its challenges: two challenges at most.
ServeAuth ==
  /\ \/ /\ server.rounds < 2
        /\ replies' = Append(replies, Code(334))
        /\ server' = [server EXCEPT !.mode = "auth", !.rounds = @ + 1]
     \/ /\ replies' = Append(replies, Code(235))
        /\ server' = [server EXCEPT !.mode = "command", !.auth = TRUE]
     \/ /\ "AUTH" \in Refuses
        /\ replies' = Append(replies, Code(535))
        /\ server' = [server EXCEPT !.mode = "command"]
  /\ UNCHANGED <<up, delivered>>

\* A transaction inside another is refused, or takes its place.
ServeMail(cmd) ==
  /\ IF ~server.hello \/ (server.open # "none" /\ NestedMailRefused)
     THEN replies' = Append(replies, Code(503))
     ELSE IF cmd.n = 1 /\ server.caps.size = "limit"
     THEN replies' = Append(replies, Code(552))
     ELSE Answer("MAIL", 250, 550)
  /\ server' = IF Accepted THEN [server EXCEPT !.open = cmd.of, !.rcpts = {}] ELSE server
  /\ UNCHANGED <<up, delivered>>

ServeRcpt(cmd) ==
  /\ IF server.open = "none" THEN replies' = Append(replies, Code(503))
     ELSE Answer("RCPT", 250, 550)
  /\ server' = IF Accepted THEN [server EXCEPT !.rcpts = @ \cup {<<cmd.of, cmd.n>>}] ELSE server
  /\ UNCHANGED <<up, delivered>>

ServeData ==
  /\ IF server.rcpts = {} THEN replies' = Append(replies, Code(503))
     ELSE Answer("DATA", 354, 451)
  /\ server' = IF Accepted THEN [server EXCEPT !.mode = "data", !.junk = FALSE] ELSE server
  /\ UNCHANGED <<up, delivered>>

\* In data mode every line is text, up to the lone dot at the end of a message.
ServeText(cmd) ==
  /\ server.mode = "data"
  /\ IF cmd.verb = "TEXT"
     THEN /\ Answer("TEXT", 250, 554)
          /\ server' = [Reset(server) EXCEPT !.mode = "command"]
          /\ delivered' = IF Accepted
                          THEN delivered \cup {[from |-> server.open, to |-> server.rcpts,
                                                text |-> cmd.of, n |-> cmd.n, junk |-> server.junk]}
                          ELSE delivered
     ELSE server' = [server EXCEPT !.junk = TRUE] /\ UNCHANGED <<replies, delivered>>
  /\ UNCHANGED up

ServeCommand(cmd) ==
  /\ server.mode = "command"
  /\ \/ cmd.verb \in {"EHLO", "HELO"} /\ ServeHello(cmd.verb, server)
     \/ cmd.verb = "AUTH" /\ ServeAuth
     \/ cmd.verb = "MAIL" /\ ServeMail(cmd)
     \/ cmd.verb = "RCPT" /\ ServeRcpt(cmd)
     \/ cmd.verb = "DATA" /\ ServeData
     \/ /\ cmd.verb = "CONNECT" /\ Answer("CONNECT", 220, 554)
        /\ UNCHANGED <<up, serverVars>>
     \/ /\ cmd.verb = "STARTTLS" /\ Answer("STARTTLS", 220, 454)
        /\ server' = IF Accepted THEN [server EXCEPT !.mode = "tls"] ELSE server
        /\ UNCHANGED <<up, delivered>>
     \/ /\ cmd.verb = "QUIT" /\ up' = FALSE /\ UNCHANGED <<replies, serverVars>>
     \/ \* a message's lines, two at least, or an empty line
        /\ cmd.verb \in {"TEXT", "RESPONSE"}
        /\ replies' = replies \o IF cmd.verb = "TEXT" THEN <<Code(500), Code(500)>>
                                 ELSE <<Code(500)>>
        /\ UNCHANGED <<up, serverVars>>

\* Inside an AUTH exchange any line is taken for an answer to the challenge.
ServeExchange(cmd) ==
  /\ server.mode = "auth"
  /\ IF cmd.verb = "RESPONSE" THEN ServeAuth
     ELSE /\ replies' = Append(replies, Code(501))
          /\ server' = [server EXCEPT !.mode = "command"]
          /\ UNCHANGED <<up, delivered>>

\* After STARTTLS was accepted: the handshake, or a line in clear.
ServeHandshake(cmd) ==
  /\ server.mode = "tls"
  /\ IF cmd.verb = "TLS+EHLO" THEN ServeHello("EHLO", NewServer(TRUE))
     ELSE up' = FALSE /\ UNCHANGED <<replies, serverVars>>

Serve ==
  /\ up /\ commands # <<>>
  /\ commands' = Tail(commands)
  /\ LET cmd == Head(commands) IN
     ServeText(cmd) \/ ServeCommand(cmd) \/ ServeExchange(cmd) \/ ServeHandshake(cmd)
  /\ UNCHANGED <<clientVars, actorVars, timeouts>>

\* The connection breaks.  Commands on their way are lost, replies may be.
Drop ==
  /\ CanDrop /\ up
  /\ up' = FALSE /\ commands' = <<>>
  /\ \E n \in 0 .. Len(replies) : replies' = SubSeq(replies, 1, n)
  /\ UNCHANGED <<clientVars, actorVars, timeouts, serverVars>>

----------------------------------------------------------------------------
BehaviourStep ==
  \/ Greeting \/ Ehlo \/ Helo \/ Starttls \/ Sasl \/ Oauth
  \/ Mail \/ Rcpt \/ Data \/ Message

Next ==
  \/ \E security \in {"ssl", "startTLS"}, oauth2 \in BOOLEAN : beConnect(security, oauth2)
  \/ \E s \in Send, n \in 0 .. MaxRecipients, big \in BOOLEAN : beSend(s, n, big)
  \/ beClose
  \/ BehaviourStep
  \/ Serve
  \/ Drop

Spec == Init /\ [][Next]_vars

\* The server takes in what has arrived, and a wait ends: with a reply, or after
\* the network timeout, which every read of mailstream has.
FairSpec == Spec /\ WF_vars(BehaviourStep) /\ WF_vars(Serve)

----------------------------------------------------------------------------
(***************************************************************************)
(* Properties.                                                             *)
(***************************************************************************)
TypeOK ==
  /\ session \in [stream : BOOLEAN, esmtp : BOOLEAN, starttls : BOOLEAN, size : BOOLEAN,
                  max : 0 .. 1, auth : {"notChecked", "none", "usable"}]
  /\ pc \in {"idle", "crashed", "greeting", "ehlo", "helo", "starttls", "sasl", "oauth",
             "oauthError", "mail", "rcpt", "data", "message", "again"}
  /\ caller \in [op : {"none", "connect", "send"}, security : {"ssl", "startTLS"},
                 oauth2 : BOOLEAN, upgraded : BOOLEAN, send : Send \cup {"none"},
                 n : 0 .. MaxRecipients, big : BOOLEAN, i : 0 .. MaxRecipients]
  /\ {connectionInfo, connected, up} \subseteq BOOLEAN
  /\ result \in [Send -> {"none", "nil", "error", "tooBig"}]
  /\ connects \in 0 .. MaxConnects /\ timeouts \in 0 .. MaxTimeouts
  /\ \A i \in 1 .. Len(replies) : replies[i] \in Reply
  /\ \A d \in delivered : d.from \in Send /\ d.text \in Send

\* What a send with a nil error must have brought about: its message, whole and
\* alone, to each of its recipients and to nobody else.
AsComposed(d) == d.from = d.text /\ ~d.junk /\ d.to = {<<d.text, i>> : i \in 1 .. d.n}

\* beSend calls back with nil only when the server has accepted this message for
\* these recipients, whatever replies came late, stale or from a refusal before.
NilMeansDelivered ==
  \A s \in Send : result[s] = "nil" => \E d \in delivered : d.text = s /\ AsComposed(d)

\* No message reaches recipients of another send, though a failed send leaves
\* its transaction open on the server.
EnvelopesUnmixed ==
  \A d \in delivered : \A r \in d.to : r[1] = d.text

\* beConnect calls back with nil only when the server has authenticated the
\* client on this connection, which is encrypted.
ConnectedMeansAuthenticated ==
  connected /\ pc \notin {"crashed"} => server.auth /\ server.tls

\* Credentials are only sent when the connection is encrypted.
CredentialsUnderTLS ==
  \A i \in 1 .. Len(commands) : commands[i].verb \in {"AUTH", "RESPONSE"} => server.tls

\* A behaviour never issues a command on a session without a stream.
NeverCrashes == pc # "crashed"

\* A send that returns an error while nothing is lost or late has delivered
\* nothing: the caller may send the message again.
FailsUndelivered ==
  timeouts' = 0 /\ up' =>
    \A s \in Send : result'[s] # result[s] /\ result'[s] # "nil" => \A d \in delivered' : d.text # s
ErrorMeansNotDelivered == [][FailsUndelivered]_vars

\* The same on a session that the server has greeted as ESMTP.
EsmtpErrorMeansNotDelivered == [][session.esmtp => FailsUndelivered]_vars

\* Every behaviour returns to its caller.
EveryBehaviourReturns == pc # "idle" ~> pc = "idle"
=============================================================================
