----------------------------- MODULE SmtpProofs -----------------------------
(***************************************************************************)
(* Proofs about Smtp, for any sends, recipients, connects and time-outs,   *)
(* and whatever the server refuses: types, that a session with a nil error *)
(* is authenticated and encrypted, that credentials are only sent under    *)
(* TLS, that no command is issued without a stream, and that a send which  *)
(* fails while nothing is lost or late has delivered nothing.              *)
(***************************************************************************)
EXTENDS Smtp, TLAPS

----------------------------------------------------------------------------
(***************************************************************************)
(* The inductive invariant.                                                *)
(***************************************************************************)
Sender == Send \cup {"none"}
OfSend == {"MAIL", "RCPT", "DATA", "TEXT"}
Hello == {"EHLO", "TLS+EHLO", "HELO"}
Credentials == {"AUTH", "RESPONSE"}
Verb == {"CONNECT", "STARTTLS", "QUIT"} \cup Hello \cup Credentials \cup OfSend
Command == [verb : Verb, of : Sender, n : Nat]
Session == [stream : BOOLEAN, esmtp : BOOLEAN, starttls : BOOLEAN, size : BOOLEAN,
            max : 0 .. 1, auth : {"notChecked", "none", "usable"}]
Caller == [op : {"none", "connect", "send"}, security : {"ssl", "startTLS"},
           oauth2 : BOOLEAN, upgraded : BOOLEAN, send : Sender,
           n : 0 .. MaxRecipients, big : BOOLEAN, i : 0 .. MaxRecipients]
Recipients == SUBSET (Sender \X Nat)
Announced == Capabilities \cup {NoCapabilities}
Server == [tls : BOOLEAN, hello : BOOLEAN, auth : BOOLEAN,
           mode : {"command", "auth", "data", "tls"}, rounds : Nat, open : Sender,
           rcpts : Recipients, junk : BOOLEAN, caps : Announced]

\* The waits of beConnect, and those of beSend.
Authenticating == {"sasl", "oauth", "oauthError"}
Connecting == {"greeting", "ehlo", "helo", "starttls"} \cup Authenticating
Sending == {"mail", "rcpt", "data", "message", "again"}

ClientTypes ==
  /\ session \in Session /\ caller \in Caller
  /\ pc \in {"idle", "crashed"} \cup Connecting \cup Sending
  /\ connectionInfo \in BOOLEAN /\ connected \in BOOLEAN
  /\ result \in [Send -> {"none", "nil", "error", "tooBig"}]
  /\ connects \in 0 .. MaxConnects
WireTypes ==
  /\ commands \in Seq(Command) /\ replies \in Seq(Reply)
  /\ \A i \in 1 .. Len(commands) : commands[i].verb \in OfSend => commands[i].of \in Send
  /\ up \in BOOLEAN /\ timeouts \in 0 .. MaxTimeouts
ServerTypes ==
  /\ server \in Server
  /\ server.mode = "data" \/ server.rcpts # {} => server.open \in Send
  /\ \A d \in delivered : d.from \in Send /\ d.text \in Send

\* What the running behaviour can rely on.
Stage ==
  /\ pc \in Connecting => ~connected /\ session.stream
  /\ pc \in Sending => /\ session.stream
                       /\ caller.send \in Send /\ result[caller.send] = "none"
                       /\ caller.n >= 1
  /\ pc = "again" => ~session.esmtp
  /\ pc = "crashed" => CallersAsk # "result" /\ ~session.stream
  /\ connected => session.stream /\ server.auth /\ server.tls

\* The handshake is the first thing to reach the server, or nothing has come since.
Handshake ==
  \A i \in 1 .. Len(commands) :
    commands[i].verb = "TLS+EHLO" =>
      i = 1 /\ replies = <<>> /\ server.mode = "tls" /\ ~connected

\* Only an authentication is answered with 235.
Known == \A i \in 1 .. Len(replies) : replies[i].code = 235 => server.auth

\* While the client connects: the connection is encrypted from the start, or as soon as
\* the server takes in the handshake, which nothing overtakes.
Secure ==
  pc \in Connecting =>
    /\ caller.security = "ssl" => server.tls
    /\ caller.upgraded /\ ~server.tls =>
         replies = <<>> /\ (up => commands # <<>> /\ commands[1].verb = "TLS+EHLO")
    /\ pc \in Authenticating => server.tls

\* One command or one reply is on its way, of these verbs or codes.
One(verbs, codes) ==
  /\ Len(commands) + Len(replies) <= 1
  /\ \A i \in 1 .. Len(commands) : commands[i].verb \in verbs
  /\ \A i \in 1 .. Len(replies) : replies[i].code \in codes

\* What each wait of beConnect may meet: only after HELO the replies can be out of step.
Expected ==
  /\ pc = "greeting" => One({"CONNECT"}, {220, 501, 554})
  /\ pc = "ehlo" => One({"EHLO", "TLS+EHLO"}, {250, 501, 502})
  /\ pc = "starttls" =>
       /\ One({"STARTTLS"}, {220, 454, 501})
       /\ \A i \in 1 .. Len(replies) : replies[i].code = 220 => server.mode = "tls"
  /\ pc = "sasl" => One(Credentials, {235, 334, 500, 501, 535})
  /\ pc \in {"helo", "oauth", "oauthError"} =>
       /\ \A i \in 1 .. Len(commands) : commands[i].verb \in Hello \cup Credentials
       /\ \A i \in 1 .. Len(replies) : replies[i].code # 220

\* The text of a send is sent, and delivered, by this send only, near its end.
Begun(s) == result[s] # "none" \/ (caller.send = s /\ pc \in {"message", "again"})
Texts ==
  /\ \A i \in 1 .. Len(commands) : commands[i].verb = "TEXT" => Begun(commands[i].of)
  /\ \A d \in delivered : Begun(d.text)

\* Nothing has been lost or late since the client connected, to a server that knows EHLO.
Undisturbed ==
  timeouts = 0 /\ up /\ session.stream /\ (session.esmtp \/ pc \in Connecting)

\* Then the replies are in step with the commands, and the server reads a text only when
\* it is one.
InStep ==
  Undisturbed =>
    /\ pc = "idle" => replies = <<>> /\ commands = <<>>
    /\ pc \in Connecting \cup Sending => Len(commands) + Len(replies) <= 1
    /\ \A i \in 1 .. Len(commands) :
         commands[i].verb = "TEXT" => pc = "message" /\ server.mode = "data"
    /\ \A i \in 1 .. Len(replies) : replies[i].code = 354 => server.mode = "data"
    /\ pc = "message" =>
         \A d \in delivered : d.text = caller.send => replies # <<>> /\ replies[1].code = 250

Types == ClientTypes /\ WireTypes /\ ServerTypes
Wire == Handshake /\ CredentialsUnderTLS /\ Known /\ Texts /\ InStep
IInv == Types /\ Stage /\ Secure /\ Expected /\ Wire

----------------------------------------------------------------------------
(***************************************************************************)
(* What a wait brings, and what the client does then.                      *)
(***************************************************************************)

\* A reply that came before, or none; what is left came before, too.
Received(reply) ==
  /\ replies' \in Seq(Reply) /\ Len(replies') <= Len(replies)
  /\ \A i \in 1 .. Len(replies') : \E j \in 1 .. Len(replies) : replies'[i] = replies[j]
  /\ reply = NoReply \/ (replies # <<>> /\ reply = replies[1] /\ Len(replies') = Len(replies) - 1)
  /\ replies # <<>> => reply = replies[1]
  /\ timeouts' \in 0 .. MaxTimeouts
  /\ timeouts' = 0 => timeouts = 0
  /\ timeouts' = 0 /\ Len(commands) + Len(replies) <= 1 => commands = <<>> /\ replies' = <<>>

\* read_response takes the first reply, if there is one.
LEMMA ReadReceives ==
  ASSUME WireTypes, NEW reply, Read(reply)
  PROVE  Received(reply)
<1>0. /\ replies \in Seq(Reply) /\ commands \in Seq(Command)
      /\ timeouts \in 0 .. MaxTimeouts /\ MaxTimeouts \in Nat
  BY BoundsAssumption DEF WireTypes
<1>1. CASE /\ replies # <<>>
           /\ reply = Head(replies) /\ replies' = Tail(replies)
           /\ UNCHANGED timeouts
  <2>1. /\ replies' \in Seq(Reply) /\ Len(replies') = Len(replies) - 1
        /\ \A i \in 1 .. Len(replies') : replies'[i] = replies[i + 1]
    BY <1>0, <1>1
  <2>2. \A i \in 1 .. Len(replies') : i + 1 \in 1 .. Len(replies)
    BY <1>0, <2>1
  <2>3. reply = replies[1]
    BY <1>0, <1>1
  <2>4. ASSUME Len(commands) + Len(replies) <= 1
        PROVE  commands = <<>> /\ replies' = <<>>
    <3>1. Len(replies) # 0 /\ Len(replies) \in Nat /\ Len(commands) \in Nat
      BY <1>0, <1>1
    <3>2. Len(commands) = 0 /\ Len(replies') = 0
      BY <2>1, <2>4, <3>1
    <3> QED
      BY <1>0, <2>1, <3>2
  <2>5. Len(replies') <= Len(replies)
    BY <1>0, <2>1
  <2> QED
    BY <1>0, <1>1, <2>1, <2>2, <2>3, <2>4, <2>5 DEF Received
<1>2. CASE /\ replies = <<>> /\ reply = NoReply /\ UNCHANGED replies
           /\ IF commands = <<>> THEN UNCHANGED timeouts
              ELSE timeouts < MaxTimeouts /\ timeouts' = timeouts + 1
  BY <1>0, <1>2 DEF Received
<1> QED
  BY <1>1, <1>2 DEF Read

\* The commands after one more was sent, or lost.
LEMMA SentLast ==
  ASSUME commands \in Seq(Command), NEW cmd \in Command, NEW next, Issue(cmd, next)
  PROVE  /\ commands' \in Seq(Command) /\ Len(commands') <= Len(commands) + 1
         /\ \A i \in 1 .. Len(commands') :
              \/ i \in 1 .. Len(commands) /\ commands'[i] = commands[i]
              \/ i = Len(commands) + 1 /\ commands'[i] = cmd
BY DEF Issue

\* What a client step leaves alone.
Leaves == UNCHANGED <<connects, serverVars>> /\ UNCHANGED up

\* A wait of a behaviour ends and its next command goes out: the wire stays in order.
LEMMA IssueKeepsWire ==
  ASSUME IInv, NEW reply, Received(reply), NEW cmd \in Command, NEW next, Issue(cmd, next),
         Leaves, ClientTypes',
         pc \in Connecting \cup Sending,
         cmd.verb \in OfSend => cmd.of \in Send,
         cmd.verb = "TLS+EHLO" =>
           commands = <<>> /\ replies' = <<>> /\ server.mode = "tls" /\ ~connected,
         cmd.verb \in Credentials => server.tls,
         cmd.verb = "TEXT" => next \in {"message", "again"} /\ caller.send = cmd.of,
         caller'.send = caller.send,
         pc \in {"message", "again"} => next \in {"message", "again"},
         session'.stream = session.stream,
         pc \in Connecting => next \in Connecting /\ cmd.verb # "TEXT",
         pc \in Sending => next \in Sending /\ session' = session,
         next = "message" => pc = "data" /\ reply.code = 354,
         cmd.verb = "TEXT" => next = "message" \/ ~session.esmtp
  PROVE  Types' /\ Wire'
<1>0. /\ ClientTypes /\ WireTypes /\ ServerTypes /\ Stage
      /\ Handshake /\ CredentialsUnderTLS /\ Known /\ Texts /\ InStep
  BY DEF IInv, Types, Wire
<1>1. /\ commands \in Seq(Command) /\ replies \in Seq(Reply)
      /\ UNCHANGED <<server, delivered, up, connectionInfo, connected, result, connects>>
      /\ pc' = next
  BY <1>0 DEF WireTypes, Issue, Leaves, actorVars, serverVars
<1>2. /\ commands' \in Seq(Command) /\ Len(commands') <= Len(commands) + 1
      /\ \A i \in 1 .. Len(commands') :
           \/ i \in 1 .. Len(commands) /\ commands'[i] = commands[i]
           \/ i = Len(commands) + 1 /\ commands'[i] = cmd
  BY <1>1, SentLast
<1>3. /\ replies' \in Seq(Reply) /\ Len(replies') <= Len(replies)
      /\ \A i \in 1 .. Len(replies') : \E j \in 1 .. Len(replies) : replies'[i] = replies[j]
      /\ timeouts' \in 0 .. MaxTimeouts
      /\ timeouts' = 0 => timeouts = 0
      /\ timeouts' = 0 /\ Len(commands) + Len(replies) <= 1 => commands = <<>> /\ replies' = <<>>
  BY DEF Received
<1>4. Types'
  <2>1. WireTypes'
    BY <1>0, <1>1, <1>2, <1>3, ZenonT(30) DEF WireTypes
  <2>2. ServerTypes'
    BY <1>0, <1>1 DEF ServerTypes
  <2> QED
    BY <2>1, <2>2 DEF Types
<1>5. Handshake'
  <2> SUFFICES ASSUME NEW i \in 1 .. Len(commands'), commands'[i].verb = "TLS+EHLO"
               PROVE  i = 1 /\ replies' = <<>> /\ server'.mode = "tls" /\ ~connected'
    BY DEF Handshake
  <2>1. CASE i \in 1 .. Len(commands) /\ commands'[i] = commands[i]
    <3>1. i = 1 /\ replies = <<>> /\ server.mode = "tls" /\ ~connected
      BY <1>0, <2>1 DEF Handshake
    <3>2. replies' = <<>>
      BY <1>1, <1>3, <3>1
    <3> QED
      BY <1>1, <3>1, <3>2
  <2>2. CASE i = Len(commands) + 1 /\ commands'[i] = cmd
    BY <1>1, <2>2
  <2> QED
    BY <1>2, <2>1, <2>2
<1>6. CredentialsUnderTLS'
  BY <1>0, <1>1, <1>2 DEF CredentialsUnderTLS, Credentials
<1>7. Known'
  BY <1>0, <1>1, <1>3 DEF Known
<1>8. Texts'
  <2>1. ASSUME NEW s, Begun(s)
        PROVE  result'[s] # "none" \/ (caller'.send = s /\ pc' \in {"message", "again"})
    BY <1>1, <2>1 DEF Begun
  <2>2. ASSUME NEW i \in 1 .. Len(commands'), commands'[i].verb = "TEXT"
        PROVE  \/ result'[commands'[i].of] # "none"
               \/ caller'.send = commands'[i].of /\ pc' \in {"message", "again"}
    <3>1. CASE i \in 1 .. Len(commands) /\ commands'[i] = commands[i]
      BY <1>0, <2>1, <2>2, <3>1 DEF Texts
    <3>2. CASE commands'[i] = cmd
      BY <1>1, <2>2, <3>2
    <3> QED
      BY <1>2, <3>1, <3>2
  <2>3. \A d \in delivered' :
          \/ result'[d.text] # "none"
          \/ caller'.send = d.text /\ pc' \in {"message", "again"}
    BY <1>0, <1>1, <2>1 DEF Texts
  <2> QED
    BY <2>2, <2>3 DEF Texts, Begun
<1>9. InStep'
  <2> SUFFICES ASSUME Undisturbed' PROVE InStep'
    BY DEF InStep
  <2>1. Undisturbed
    <3>1. session'.esmtp \/ next \in Connecting => session.esmtp \/ pc \in Connecting
      BY DEF Connecting, Authenticating, Sending
    <3> QED
      BY <1>1, <1>3, <3>1 DEF Undisturbed
  <2>2. commands = <<>> /\ replies' = <<>>
    BY <1>0, <1>3, <2>1 DEF InStep, Undisturbed
  <2>3. Len(commands') <= 1 /\ Len(replies') = 0 /\ pc' # "idle"
    BY <1>1, <1>2, <2>2 DEF Connecting, Authenticating, Sending
  <2>4. ASSUME NEW i \in 1 .. Len(commands'), commands'[i].verb = "TEXT"
        PROVE  pc' = "message" /\ server'.mode = "data"
    <3>1. commands'[i] = cmd
      BY <1>2, <2>2
    <3>2. pc \in Sending /\ session.esmtp
      BY <2>1, <2>4, <3>1 DEF Undisturbed
    <3>3. next = "message" /\ pc = "data" /\ reply.code = 354
      BY <2>4, <3>1, <3>2
    <3>4. replies # <<>> /\ replies[1].code = 354
      BY <3>3 DEF Received, NoReply, Code
    <3>5. server.mode = "data"
      BY <1>0, <1>1, <2>1, <3>4 DEF InStep
    <3> QED
      BY <1>1, <3>3, <3>5
  <2>5. pc' = "message" => \A d \in delivered' : d.text # caller'.send
    <3> SUFFICES ASSUME pc' = "message", NEW d \in delivered', d.text = caller'.send
                 PROVE  FALSE
      OBVIOUS
    <3>1. pc = "data" /\ d \in delivered /\ d.text = caller.send
      BY <1>1
    <3>2. result[caller.send] = "none" /\ Begun(d.text)
      BY <1>0, <3>1 DEF Stage, Texts, Sending
    <3> QED
      BY <3>1, <3>2 DEF Begun
  <2> QED
    BY <2>3, <2>4, <2>5 DEF InStep
<1> QED
  BY <1>4, <1>5, <1>6, <1>7, <1>8, <1>9 DEF Wire

\* Between two behaviours.
LEMMA NoCallerIsCaller ==
  NoCaller \in Caller /\ ~NoCaller.upgraded
BY BoundsAssumption DEF NoCaller, Caller, Sender

\* The wait was the last of its behaviour.
LEMMA ReturnKeepsWire ==
  ASSUME IInv, NEW reply, Received(reply), ClientTypes', UNCHANGED <<commands, serverVars>>,
         pc \in Connecting \cup Sending, pc' = "idle",
         up' \in BOOLEAN, up' => up,
         connected' => connected \/ replies # <<>>,
         \A s \in Send : result[s] # "none" => result'[s] # "none",
         pc \in {"message", "again"} => result'[caller.send] # "none",
         session'.stream => session.stream,
         pc \in Sending => session' = session
  PROVE  Types' /\ Secure' /\ Expected' /\ Wire'
<1>0. /\ ClientTypes /\ WireTypes /\ ServerTypes /\ Stage
      /\ Handshake /\ CredentialsUnderTLS /\ Known /\ Texts /\ InStep
  BY DEF IInv, Types, Wire
<1>1. UNCHANGED <<commands, server, delivered>>
  BY DEF serverVars
<1>2. /\ replies' \in Seq(Reply) /\ Len(replies') <= Len(replies)
      /\ \A i \in 1 .. Len(replies') : \E j \in 1 .. Len(replies) : replies'[i] = replies[j]
      /\ timeouts' \in 0 .. MaxTimeouts
      /\ timeouts' = 0 => timeouts = 0
      /\ timeouts' = 0 /\ Len(commands) + Len(replies) <= 1 => commands = <<>> /\ replies' = <<>>
  BY DEF Received
<1>3. Types'
  BY <1>0, <1>1, <1>2 DEF Types, WireTypes, ServerTypes
<1>4. Secure' /\ Expected'
  BY DEF Secure, Expected, Connecting, Authenticating
<1>5. Handshake'
  <2> SUFFICES ASSUME NEW i \in 1 .. Len(commands'), commands'[i].verb = "TLS+EHLO"
               PROVE  i = 1 /\ replies' = <<>> /\ server'.mode = "tls" /\ ~connected'
    BY DEF Handshake
  <2>1. i = 1 /\ replies = <<>> /\ server.mode = "tls" /\ ~connected
    BY <1>0, <1>1 DEF Handshake
  <2>2. replies' = <<>>
    BY <1>2, <2>1
  <2> QED
    BY <1>1, <2>1, <2>2
<1>6. CredentialsUnderTLS'
  BY <1>0, <1>1 DEF CredentialsUnderTLS
<1>7. Known'
  BY <1>0, <1>1, <1>2 DEF Known
<1>8. Texts'
  <2>1. ASSUME NEW s \in Send, Begun(s)
        PROVE  result'[s] # "none"
    BY <2>1 DEF Begun
  <2>2. ASSUME NEW i \in 1 .. Len(commands'), commands'[i].verb = "TEXT"
        PROVE  result'[commands'[i].of] # "none"
    <3>1. commands[i].of \in Send /\ Begun(commands[i].of)
      BY <1>0, <1>1, <2>2 DEF WireTypes, OfSend, Texts
    <3> QED
      BY <1>1, <2>1, <3>1
  <2>3. \A d \in delivered' : result'[d.text] # "none"
    BY <1>0, <1>1, <2>1 DEF ServerTypes, Texts
  <2> QED
    BY <2>2, <2>3 DEF Texts, Begun
<1>9. InStep'
  <2> SUFFICES ASSUME Undisturbed' PROVE InStep'
    BY DEF InStep
  <2>1. Undisturbed
    BY <1>2 DEF Undisturbed, Connecting, Authenticating
  <2>2. commands' = <<>> /\ replies' = <<>>
    BY <1>0, <1>1, <1>2, <2>1 DEF InStep, Undisturbed
  <2> QED
    BY <2>2 DEF InStep
<1> QED
  BY <1>3, <1>4, <1>5, <1>6, <1>7, <1>8, <1>9 DEF Wire

\* beConnect returns, with a nil error only when the server has authenticated the client.
LEMMA ConnectReturnKeepsIInv ==
  ASSUME IInv, NEW reply, Received(reply), NEW error \in {"nil", "error"}, ConnectReturns(error),
         pc \in Connecting, UNCHANGED <<connects, serverVars>>,
         up' \in BOOLEAN, up' => up,
         session' \in Session, session'.stream => session.stream,
         error = "nil" => reply.code # 0 /\ server.auth /\ server.tls /\ session' = session
  PROVE  IInv'
<1>0. ClientTypes /\ Stage
  BY DEF IInv, Types
<1>1. /\ pc' = "idle" /\ caller' = NoCaller /\ connected' = (error = "nil")
      /\ UNCHANGED <<result, commands, server>>
      /\ connectionInfo' \in BOOLEAN
  BY <1>0 DEF ConnectReturns, ClientTypes, serverVars
<1>2. ClientTypes'
  <2>1. NoCaller \in Caller
    BY NoCallerIsCaller
  <2> QED
    BY <1>0, <1>1, <2>1 DEF ClientTypes
<1>3. connected' => replies # <<>>
  <2>1. NoReply.code = 0
    BY DEF NoReply, Code
  <2>2. error = "nil" => replies # <<>>
    BY <2>1 DEF Received
  <2> QED
    BY <1>1, <2>2
<1>4. pc \notin Sending
  BY DEF Connecting, Authenticating, Sending
<1>5. Types' /\ Secure' /\ Expected' /\ Wire'
  BY <1>1, <1>2, <1>3, <1>4, ReturnKeepsWire DEF Sending
<1>6. Stage'
  BY <1>0, <1>1 DEF Stage, Connecting, Authenticating, Sending
<1> QED
  BY <1>5, <1>6 DEF IInv

\* beSend returns.
LEMMA SendReturnKeepsIInv ==
  ASSUME IInv, NEW reply, Received(reply), NEW error \in {"nil", "error"}, SendReturns(error),
         pc \in Sending, UNCHANGED <<session, connects, serverVars>>, UNCHANGED up
  PROVE  IInv'
<1>0. ClientTypes /\ Stage /\ WireTypes
  BY DEF IInv, Types
<1>1. /\ pc' = "idle" /\ caller' = NoCaller
      /\ result' = [result EXCEPT ![caller.send] = error]
      /\ UNCHANGED <<connectionInfo, connected, commands, server>>
  BY DEF SendReturns, serverVars
<1>2. caller.send \in Send
  BY <1>0 DEF Stage
<1>3. ClientTypes'
  <2>1. NoCaller \in Caller
    BY NoCallerIsCaller
  <2> QED
    BY <1>0, <1>1, <2>1 DEF ClientTypes
<1>4. /\ \A s \in Send : result[s] # "none" => result'[s] # "none"
      /\ result'[caller.send] # "none"
  BY <1>0, <1>1, <1>2 DEF ClientTypes
<1>5. Types' /\ Secure' /\ Expected' /\ Wire'
  BY <1>0, <1>1, <1>3, <1>4, ReturnKeepsWire DEF WireTypes
<1>6. Stage'
  BY <1>0, <1>1 DEF Stage, Connecting, Authenticating, Sending
<1> QED
  BY <1>5, <1>6 DEF IInv

----------------------------------------------------------------------------
(***************************************************************************)
(* The waits of beConnect.                                                 *)
(***************************************************************************)

\* When one reply was on its way, and has come, nothing else is.
LEMMA Answered ==
  ASSUME WireTypes, NEW reply, Received(reply), reply.code # 0, Len(commands) + Len(replies) <= 1
  PROVE  /\ commands = <<>> /\ replies' = <<>>
         /\ replies # <<>> /\ reply = replies[1] /\ 1 \in 1 .. Len(replies)
<1>1. NoReply.code = 0
  BY DEF NoReply, Code
<1>2. /\ replies # <<>> /\ reply = replies[1] /\ Len(replies') = Len(replies) - 1
      /\ replies' \in Seq(Reply) /\ replies \in Seq(Reply) /\ commands \in Seq(Command)
  BY <1>1 DEF Received, WireTypes
<1>3. Len(replies) \in Nat /\ Len(commands) \in Nat /\ Len(replies) # 0
  BY <1>2
<1>4. Len(commands) = 0 /\ Len(replies') = 0 /\ Len(replies) = 1
  BY <1>2, <1>3
<1> QED
  BY <1>2, <1>4

\* The command that is sent then is the only thing on its way.
LEMMA SentAlone ==
  ASSUME commands = <<>>, replies' = <<>>, NEW cmd \in Command, NEW next, Issue(cmd, next)
  PROVE  /\ Len(commands') + Len(replies') <= 1 /\ Len(replies') = 0
         /\ \A i \in 1 .. Len(commands') : commands'[i] = cmd
<1>1. commands' = <<>> \/ commands' = <<cmd>>
  BY DEF Issue
<1>2. Len(replies') = 0
  OBVIOUS
<1>3. CASE commands' = <<>>
  <2>1. Len(commands') = 0
    BY <1>3
  <2> QED
    BY <1>2, <2>1
<1>4. CASE commands' = <<cmd>>
  <2>1. Len(commands') = 1 /\ commands'[1] = cmd
    BY <1>4
  <2> QED
    BY <1>2, <2>1
<1> QED
  BY <1>1, <1>3, <1>4

LEMMA PlainIsCommand ==
  ASSUME NEW verb \in Verb
  PROVE  Plain(verb) \in Command /\ Plain(verb).verb = verb
BY DEF Plain, Command, Sender

\* The next wait of beConnect: what Secure and Expected ask for is left to the caller.
LEMMA ConnectGoesOn ==
  ASSUME IInv, NEW reply, Received(reply), NEW verb \in Verb \ OfSend, NEW next \in Connecting,
         Issue(Plain(verb), next), Leaves, pc \in Connecting,
         verb = "TLS+EHLO" => commands = <<>> /\ replies' = <<>> /\ server.mode = "tls",
         verb \in Credentials => server.tls,
         session' \in Session, session'.stream = session.stream,
         caller' \in Caller, caller'.send = caller.send
  PROVE  Types' /\ Wire' /\ Stage'
<1>0. ClientTypes /\ Stage /\ WireTypes
  BY DEF IInv, Types
<1>1. /\ pc' = next /\ UNCHANGED <<connectionInfo, connected, result, connects, server>>
  BY DEF Issue, Leaves, actorVars, serverVars
<1>2. ClientTypes'
  BY <1>0, <1>1 DEF ClientTypes
<1>3. Plain(verb) \in Command /\ Plain(verb).verb = verb
  BY PlainIsCommand
<1>4. pc \notin Sending /\ next \notin Sending /\ pc \notin {"message", "again"} /\ next # "message"
  BY DEF Connecting, Authenticating, Sending
<1>5. verb # "TEXT"
  BY DEF OfSend
<1>6. ~connected /\ session.stream
  BY <1>0 DEF Stage
<1>7. Types' /\ Wire'
  BY <1>2, <1>3, <1>4, <1>5, <1>6, IssueKeepsWire
<1>8. Stage'
  BY <1>1, <1>4, <1>6 DEF Stage, Connecting, Authenticating, Sending
<1> QED
  BY <1>7, <1>8

LEMMA GreetingKeepsIInv ==
  ASSUME IInv, Greeting
  PROVE  IInv'
<1>0. /\ ClientTypes /\ WireTypes /\ Stage /\ Secure /\ Expected
      /\ pc = "greeting" /\ pc \in Connecting /\ UNCHANGED up /\ UNCHANGED <<connects, serverVars>>
      /\ up \in BOOLEAN
  BY DEF IInv, Types, WireTypes, Greeting, Waits, Connecting
<1>1. PICK reply \in Reply :
        /\ Read(reply)
        /\ IF reply.code = 220
           THEN Issue(Plain("EHLO"), "ehlo") /\ UNCHANGED <<session, caller>>
           ELSE ConnectReturns("error") /\ session' = [session EXCEPT !.stream = FALSE]
  BY DEF Greeting
<1>2. Received(reply)
  BY <1>0, <1>1, ReadReceives
<1>3. CASE reply.code = 220
  <2>1. Issue(Plain("EHLO"), "ehlo") /\ UNCHANGED <<session, caller>>
    BY <1>1, <1>3
  <2>2. commands = <<>> /\ replies' = <<>>
    BY <1>0, <1>2, <1>3, Answered DEF Expected, One
  <2>3. "EHLO" \in Verb \ OfSend /\ "ehlo" \in Connecting
        /\ "EHLO" \notin Credentials /\ "EHLO" # "TLS+EHLO"
    BY DEF Verb, OfSend, Hello, Credentials, Connecting
  <2>4. Types' /\ Wire' /\ Stage'
    BY <1>0, <1>2, <2>1, <2>3, ConnectGoesOn DEF ClientTypes, Leaves
  <2>5. /\ Len(commands') + Len(replies') <= 1 /\ Len(replies') = 0
        /\ \A i \in 1 .. Len(commands') : commands'[i].verb = "EHLO"
    BY <2>1, <2>2, <2>3, SentAlone, PlainIsCommand
  <2>6. pc' = "ehlo" /\ caller' = caller /\ server' = server
    BY <1>0, <2>1 DEF Issue, serverVars
  <2>7. Expected'
    BY <2>5, <2>6 DEF Expected, One
  <2>8. Secure'
    <3>1. replies # <<>>
      BY <1>0, <1>2, <1>3, Answered DEF Expected, One
    <3> QED
      BY <1>0, <2>6, <3>1 DEF Secure, Authenticating
  <2> QED
    BY <2>4, <2>7, <2>8 DEF IInv
<1>4. CASE reply.code # 220
  <2>1. ConnectReturns("error") /\ session' = [session EXCEPT !.stream = FALSE]
    BY <1>1, <1>4
  <2>2. session' \in Session /\ ~session'.stream
    BY <1>0, <2>1 DEF ClientTypes, Session
  <2> QED
    BY <1>0, <1>2, <2>1, <2>2, ConnectReturnKeepsIInv
<1> QED
  BY <1>3, <1>4

\* mailsmtp_init was answered with 250: STARTTLS, an authentication, or the end.
LEMMA InitialisedKeepsIInv ==
  ASSUME IInv, NEW reply, Received(reply), NEW s \in Session, Initialised(s),
         pc \in {"ehlo", "helo"}, reply.code = 250, Leaves, s.stream = session.stream,
         pc = "helo" => ~s.starttls /\ s.auth = "notChecked"
  PROVE  IInv'
<1>0. /\ ClientTypes /\ WireTypes /\ Stage /\ Secure /\ Expected
      /\ pc \in Connecting /\ session' = s /\ UNCHANGED <<connects, server>>
      /\ UNCHANGED <<connects, serverVars>>
      /\ up' = up /\ up \in BOOLEAN
      /\ caller \in Caller /\ caller.security \in {"ssl", "startTLS"}
  BY DEF IInv, Types, Leaves, serverVars, Connecting, Initialised, WireTypes, ClientTypes, Caller
<1>1. replies # <<>>
  <2>1. NoReply.code = 0
    BY DEF NoReply, Code
  <2> QED
    BY <2>1 DEF Received
<1>2. pc = "ehlo" => commands = <<>> /\ replies' = <<>>
  BY <1>0, Answered DEF Expected, One
<1>3. CASE ConnectReturns("error")
  BY <1>0, <1>3, ConnectReturnKeepsIInv
<1>4. CASE /\ caller.security = "startTLS" /\ ~caller.upgraded /\ s.starttls
           /\ Issue(Plain("STARTTLS"), "starttls") /\ UNCHANGED caller
  <2>1. pc = "ehlo"
    BY <1>4
  <2>2. /\ "STARTTLS" \in Verb \ OfSend /\ "starttls" \in Connecting
        /\ "STARTTLS" \notin Credentials /\ "STARTTLS" # "TLS+EHLO"
    BY DEF Verb, OfSend, Hello, Credentials, Connecting
  <2>3. Types' /\ Wire' /\ Stage'
    BY <1>0, <1>4, <2>2, ConnectGoesOn
  <2>4. /\ Len(commands') + Len(replies') <= 1 /\ Len(replies') = 0
        /\ \A i \in 1 .. Len(commands') : commands'[i].verb = "STARTTLS"
    BY <1>2, <1>4, <2>1, <2>2, SentAlone, PlainIsCommand
  <2>5. pc' = "starttls" /\ caller' = caller
    BY <1>4 DEF Issue
  <2>6. Expected'
    BY <2>4, <2>5 DEF Expected, One
  <2>7. Secure'
    BY <1>0, <1>4, <2>5 DEF Secure, Authenticating
  <2> QED
    BY <2>3, <2>6, <2>7 DEF IInv
<1>5. ASSUME NEW next \in {"sasl", "oauth"}, next = "sasl" => s.auth = "usable",
             caller.security = "startTLS" => caller.upgraded,
             Issue(Plain("AUTH"), next), UNCHANGED caller
      PROVE  IInv'
  <2>1. server.tls
    BY <1>0, <1>1, <1>5 DEF Secure
  <2>2. /\ "AUTH" \in Verb \ OfSend /\ next \in Connecting /\ "AUTH" # "TLS+EHLO"
        /\ "AUTH" \in Credentials
    BY <1>5 DEF Verb, OfSend, Hello, Credentials, Connecting, Authenticating
  <2>3. Types' /\ Wire' /\ Stage'
    BY <1>0, <1>5, <2>1, <2>2, ConnectGoesOn
  <2>4. pc' = next /\ caller' = caller
    BY <1>5 DEF Issue
  <2>5. Secure'
    BY <1>0, <2>1, <2>4 DEF Secure
  <2>6. Plain("AUTH") \in Command /\ Plain("AUTH").verb = "AUTH"
    BY <2>2, PlainIsCommand
  <2>7. Expected'
    <3>1. CASE pc = "ehlo"
      <4>1. /\ Len(commands') + Len(replies') <= 1 /\ Len(replies') = 0
            /\ \A i \in 1 .. Len(commands') : commands'[i].verb \in Credentials
        BY <1>2, <1>5, <2>2, <2>6, <3>1, SentAlone
      <4> QED
        BY <1>5, <2>4, <4>1 DEF Expected, One
    <3>2. CASE pc = "helo"
      <4>1. next = "oauth"
        BY <1>5, <3>2
      <4>2. \A i \in 1 .. Len(replies') : replies'[i].code # 220
        BY <1>0, <3>2 DEF Expected, Received
      <4>3. \A i \in 1 .. Len(commands') : commands'[i].verb \in Hello \cup Credentials
        BY <1>0, <1>5, <2>2, <2>6, <3>2, SentLast DEF Expected, WireTypes
      <4> QED
        BY <2>4, <4>1, <4>2, <4>3 DEF Expected
    <3> QED
      BY <3>1, <3>2
  <2> QED
    BY <2>3, <2>5, <2>7 DEF IInv
<1>6. CASE ~(caller.security = "startTLS" /\ ~caller.upgraded) /\ Authenticate(s)
  BY <1>3, <1>5, <1>6 DEF Authenticate
<1> QED
  BY <1>3, <1>4, <1>6 DEF Initialised

LEMMA EhloKeepsIInv ==
  ASSUME IInv, Ehlo
  PROVE  IInv'
<1>0. /\ ClientTypes /\ WireTypes /\ Stage /\ Secure /\ Expected
      /\ pc = "ehlo" /\ pc \in Connecting /\ Leaves
  BY DEF IInv, Types, Ehlo, Waits, Connecting, Leaves
<1>1. PICK reply \in Reply :
        /\ Read(reply)
        /\ IF reply.code = 250 THEN Initialised(ParseEhlo(reply.caps))
           ELSE Issue(Plain("HELO"), "helo") /\ UNCHANGED <<session, caller>>
  BY DEF Ehlo
<1>2. Received(reply)
  BY <1>0, <1>1, ReadReceives
<1>3. CASE reply.code = 250
  <2>1. reply.caps \in [starttls : BOOLEAN, size : {"absent", "bare", "limit"}, auth : BOOLEAN]
    <3> DEFINE C == [starttls : BOOLEAN, size : {"absent", "bare", "limit"}, auth : BOOLEAN]
    <3>1. NoCapabilities \in C /\ Capabilities \subseteq C
      BY CapabilitiesAssumption DEF NoCapabilities
    <3> HIDE DEF C
    <3>2. \A c : Code(c).caps = NoCapabilities
      BY DEF Code
    <3>3. reply.caps \in C
      BY <3>1, <3>2 DEF Reply
    <3> QED
      BY <3>3 DEF C
  <2> DEFINE s == ParseEhlo(reply.caps)
  <2>2. s \in Session /\ s.stream = session.stream
    <3> DEFINE a == reply.caps.starttls
               b == reply.caps.size # "absent"
               m == IF reply.caps.size = "limit" THEN 1 ELSE session.max
               u == IF reply.caps.auth THEN "usable" ELSE "none"
    <3>1. /\ a \in BOOLEAN /\ b \in BOOLEAN /\ m \in 0 .. 1
          /\ u \in {"notChecked", "none", "usable"}
      BY <1>0, <2>1 DEF ClientTypes, Session
    <3>2. s = [session EXCEPT !.esmtp = TRUE, !.starttls = a, !.size = b, !.max = m, !.auth = u]
      BY DEF ParseEhlo
    <3> HIDE DEF a, b, m, u, s
    <3> QED
      BY <1>0, <3>1, <3>2 DEF ClientTypes, Session
  <2>3. Initialised(s)
    BY <1>1, <1>3
  <2> HIDE DEF s
  <2> QED
    BY <1>0, <1>2, <1>3, <2>2, <2>3, InitialisedKeepsIInv
<1>4. CASE reply.code # 250
  <2>1. Issue(Plain("HELO"), "helo") /\ UNCHANGED <<session, caller>>
    BY <1>1, <1>4
  <2>2. /\ "HELO" \in Verb \ OfSend /\ "helo" \in Connecting
        /\ "HELO" \notin Credentials /\ "HELO" # "TLS+EHLO"
    BY DEF Verb, OfSend, Hello, Credentials, Connecting
  <2>3. Types' /\ Wire' /\ Stage'
    BY <1>0, <1>2, <2>1, <2>2, ConnectGoesOn DEF ClientTypes
  <2>4. pc' = "helo" /\ caller' = caller /\ server' = server
    BY <1>0, <2>1 DEF Issue, Leaves, serverVars
  <2>5. \A i \in 1 .. Len(replies') : replies'[i].code # 220
    BY <1>0, <1>2 DEF Expected, One, Received
  <2>6. \A i \in 1 .. Len(commands') : commands'[i].verb \in Hello
    <3>1. Plain("HELO") \in Command /\ Plain("HELO").verb = "HELO"
      BY <2>2, PlainIsCommand
    <3> QED
      BY <1>0, <2>1, <3>1, SentLast DEF Expected, One, WireTypes, Hello
  <2>7. Expected'
    BY <2>4, <2>5, <2>6 DEF Expected
  <2>8. Secure'
    <3>1. replies = <<>> => replies' = <<>>
      BY <1>0, <1>2 DEF Received, WireTypes
    <3>2. commands # <<>> => commands' # <<>> /\ commands'[1] = commands[1]
      BY <1>0, <2>1, <2>2, PlainIsCommand DEF WireTypes, Issue
    <3> QED
      BY <1>0, <2>4, <3>1, <3>2 DEF Secure, Authenticating, Leaves
  <2> QED
    BY <2>3, <2>7, <2>8 DEF IInv
<1> QED
  BY <1>3, <1>4

LEMMA HeloKeepsIInv ==
  ASSUME IInv, Helo
  PROVE  IInv'
<1>0. /\ ClientTypes /\ WireTypes
      /\ pc = "helo" /\ pc \in Connecting /\ Leaves /\ UNCHANGED <<connects, serverVars>>
      /\ up \in BOOLEAN /\ up' = up
  BY DEF IInv, Types, Helo, Waits, Connecting, Leaves, WireTypes
<1>1. PICK reply \in Reply :
        /\ Read(reply)
        /\ IF reply.code = 250
           THEN Initialised([session EXCEPT !.esmtp = FALSE, !.starttls = FALSE,
                                            !.size = FALSE, !.auth = "notChecked"])
           ELSE ConnectReturns("error") /\ UNCHANGED session
  BY DEF Helo
<1>2. Received(reply)
  BY <1>0, <1>1, ReadReceives
<1>3. CASE reply.code = 250
  <2> DEFINE s == [session EXCEPT !.esmtp = FALSE, !.starttls = FALSE,
                                  !.size = FALSE, !.auth = "notChecked"]
  <2>1. s \in Session /\ s.stream = session.stream /\ ~s.starttls /\ s.auth = "notChecked"
    BY <1>0 DEF ClientTypes, Session
  <2>2. Initialised(s)
    BY <1>1, <1>3
  <2> HIDE DEF s
  <2> QED
    BY <1>0, <1>2, <1>3, <2>1, <2>2, InitialisedKeepsIInv
<1>4. CASE reply.code # 250
  BY <1>0, <1>1, <1>2, <1>4, ConnectReturnKeepsIInv DEF ClientTypes
<1> QED
  BY <1>3, <1>4

LEMMA StarttlsKeepsIInv ==
  ASSUME IInv, Starttls
  PROVE  IInv'
<1>0. /\ ClientTypes /\ WireTypes /\ Stage /\ Secure /\ Expected
      /\ pc = "starttls" /\ pc \in Connecting /\ UNCHANGED <<connects, serverVars>>
      /\ UNCHANGED session /\ session \in Session /\ up \in BOOLEAN
  BY DEF IInv, Types, Starttls, Waits, Connecting, WireTypes, ClientTypes
<1>1. PICK reply \in Reply :
        /\ Read(reply)
        /\ \/ ConnectReturns("error") /\ up' = (up /\ reply.code # 220)
           \/ /\ reply.code = 220 /\ replies' = <<>> /\ up
              /\ Issue(Plain("TLS+EHLO"), "ehlo")
              /\ caller' = [caller EXCEPT !.upgraded = TRUE]
              /\ UNCHANGED up
  BY DEF Starttls
<1>2. Received(reply)
  BY <1>0, <1>1, ReadReceives
<1>3. CASE ConnectReturns("error") /\ up' = (up /\ reply.code # 220)
  <2>1. up' \in BOOLEAN /\ (up' => up)
    BY <1>3
  <2> QED
    BY <1>0, <1>2, <1>3, <2>1, ConnectReturnKeepsIInv
<1>4. CASE /\ reply.code = 220 /\ up
           /\ Issue(Plain("TLS+EHLO"), "ehlo")
           /\ caller' = [caller EXCEPT !.upgraded = TRUE]
           /\ UNCHANGED up
  <2>1. /\ commands = <<>> /\ replies' = <<>>
        /\ reply = replies[1] /\ 1 \in 1 .. Len(replies)
    BY <1>0, <1>2, <1>4, Answered DEF Expected, One
  <2>2. server.mode = "tls"
    BY <1>0, <1>4, <2>1 DEF Expected
  <2>3. /\ "TLS+EHLO" \in Verb \ OfSend /\ "ehlo" \in Connecting
        /\ "TLS+EHLO" \notin Credentials
    BY DEF Verb, OfSend, Hello, Credentials, Connecting
  <2>4. caller' \in Caller /\ caller'.send = caller.send /\ caller'.security = caller.security
    BY <1>0, <1>4 DEF ClientTypes, Caller
  <2>5. Types' /\ Wire' /\ Stage'
    BY <1>0, <1>2, <1>4, <2>1, <2>2, <2>3, <2>4, ConnectGoesOn DEF Leaves
  <2>6. /\ Len(commands') + Len(replies') <= 1 /\ Len(replies') = 0
        /\ \A i \in 1 .. Len(commands') : commands'[i].verb = "TLS+EHLO"
    BY <1>4, <2>1, <2>3, SentAlone, PlainIsCommand
  <2>7. pc' = "ehlo" /\ server' = server
    BY <1>0, <1>4 DEF Issue, serverVars
  <2>8. Expected'
    BY <2>6, <2>7 DEF Expected, One
  <2>9. Secure'
    <3>1. commands' # <<>> /\ commands'[1].verb = "TLS+EHLO"
      BY <1>4, <2>1, <2>3, PlainIsCommand DEF Issue
    <3> QED
      BY <1>0, <2>1, <2>4, <2>7, <3>1 DEF Secure, Authenticating
  <2> QED
    BY <2>5, <2>8, <2>9 DEF IInv
<1> QED
  BY <1>1, <1>3, <1>4

\* The client goes on with an authentication.
LEMMA AuthenticationGoesOn ==
  ASSUME IInv, NEW reply, Received(reply), Issue(Plain("RESPONSE"), pc'), UNCHANGED caller,
         Leaves, UNCHANGED session, reply.code = 334,
         (pc = "sasl" /\ pc' = "sasl") \/ (pc = "oauth" /\ pc' = "oauthError")
  PROVE  IInv'
<1>0. /\ ClientTypes /\ WireTypes /\ Stage /\ Secure /\ Expected
      /\ pc \in Connecting /\ pc \in Authenticating /\ pc' \in Connecting
      /\ server' = server
  BY DEF IInv, Types, Connecting, Authenticating, Leaves, serverVars
<1>1. "RESPONSE" \in Verb \ OfSend /\ "RESPONSE" # "TLS+EHLO" /\ "RESPONSE" \in Credentials
  BY DEF Verb, OfSend, Credentials, Hello
<1>2. server.tls
  BY <1>0 DEF Secure
<1>3. Types' /\ Wire' /\ Stage'
  BY <1>0, <1>1, <1>2, ConnectGoesOn DEF ClientTypes
<1>4. Plain("RESPONSE") \in Command /\ Plain("RESPONSE").verb = "RESPONSE"
  BY <1>1, PlainIsCommand
<1>5. Expected'
  <2>1. CASE pc = "sasl" /\ pc' = "sasl"
    <3>1. commands = <<>> /\ replies' = <<>>
      BY <1>0, <2>1, Answered DEF Expected, One
    <3>2. /\ Len(commands') + Len(replies') <= 1 /\ Len(replies') = 0
          /\ \A i \in 1 .. Len(commands') : commands'[i].verb \in Credentials
      BY <1>1, <1>4, <3>1, SentAlone
    <3> QED
      BY <2>1, <3>2 DEF Expected, One
  <2>2. CASE pc = "oauth" /\ pc' = "oauthError"
    <3>1. \A i \in 1 .. Len(replies') : replies'[i].code # 220
      BY <1>0, <2>2 DEF Expected, Received
    <3>2. \A i \in 1 .. Len(commands') : commands'[i].verb \in Hello \cup Credentials
      BY <1>0, <1>1, <1>4, <2>2, SentLast DEF Expected, WireTypes
    <3> QED
      BY <2>2, <3>1, <3>2 DEF Expected
  <2> QED
    BY <2>1, <2>2
<1>6. Secure'
  BY <1>0, <1>2 DEF Secure
<1> QED
  BY <1>3, <1>5, <1>6 DEF IInv

\* A 235 tells of the authentication on this connection, which is encrypted.
LEMMA AuthenticationSucceeds ==
  ASSUME IInv, NEW reply, Received(reply), reply.code = 235, pc \in Authenticating
  PROVE  server.auth /\ server.tls
<1>1. NoReply.code = 0
  BY DEF NoReply, Code
<1>2. replies # <<>> /\ reply = replies[1] /\ replies \in Seq(Reply)
  BY <1>1 DEF Received, IInv, Types, WireTypes
<1>3. 1 \in 1 .. Len(replies)
  BY <1>2
<1>4. server.auth
  BY <1>2, <1>3 DEF IInv, Wire, Known
<1>5. server.tls
  BY DEF IInv, Secure, Connecting
<1> QED
  BY <1>4, <1>5

LEMMA SaslKeepsIInv ==
  ASSUME IInv, Sasl
  PROVE  IInv'
<1>0. /\ ClientTypes /\ WireTypes /\ Expected
      /\ pc = "sasl" /\ pc \in Connecting /\ pc \in Authenticating
      /\ UNCHANGED <<connects, serverVars>> /\ Leaves
      /\ UNCHANGED <<session, up>> /\ session \in Session /\ up \in BOOLEAN
  BY DEF IInv, Types, Sasl, Waits, Connecting, Authenticating, WireTypes, ClientTypes, Leaves
<1>1. PICK reply \in Reply :
        /\ Read(reply)
        /\ \/ reply.code = 334 /\ Issue(Plain("RESPONSE"), "sasl") /\ UNCHANGED caller
           \/ reply.code = 334 /\ ConnectReturns("error")
           \/ /\ reply.code # 334
              /\ ConnectReturns(IF AuthSucceeds(reply.code) THEN "nil" ELSE "error")
  BY DEF Sasl
<1>2. Received(reply)
  BY <1>0, <1>1, ReadReceives
<1>3. CASE reply.code = 334 /\ Issue(Plain("RESPONSE"), "sasl") /\ UNCHANGED caller
  <2>1. pc' = "sasl"
    BY <1>3 DEF Issue
  <2> QED
    BY <1>0, <1>2, <1>3, <2>1, AuthenticationGoesOn
<1>4. CASE ConnectReturns("error")
  BY <1>0, <1>2, <1>4, ConnectReturnKeepsIInv
<1>5. CASE ConnectReturns("nil") /\ reply.code # 334 /\ AuthSucceeds(reply.code)
  <2>1. reply.code # 0
    BY <1>5 DEF AuthSucceeds
  <2>2. reply = replies[1] /\ 1 \in 1 .. Len(replies)
    BY <1>0, <1>2, <2>1, Answered DEF Expected, One
  <2>3. reply.code \in {235, 334, 500, 501, 535}
    BY <1>0, <2>2 DEF Expected, One
  <2>4. reply.code = 235
    BY <1>5, <2>3 DEF AuthSucceeds
  <2>5. server.auth /\ server.tls
    BY <1>0, <1>2, <2>4, AuthenticationSucceeds
  <2> QED
    BY <1>0, <1>2, <1>5, <2>1, <2>5, ConnectReturnKeepsIInv
<1> QED
  BY <1>1, <1>3, <1>4, <1>5

LEMMA OauthKeepsIInv ==
  ASSUME IInv, Oauth
  PROVE  IInv'
<1>0. /\ ClientTypes /\ WireTypes /\ Expected
      /\ pc \in {"oauth", "oauthError"} /\ pc \in Connecting /\ pc \in Authenticating
      /\ UNCHANGED <<connects, serverVars>> /\ Leaves
      /\ UNCHANGED <<session, up>> /\ session \in Session /\ up \in BOOLEAN
  BY DEF IInv, Types, Oauth, Waits, Connecting, Authenticating, WireTypes, ClientTypes, Leaves
<1>1. PICK reply \in Reply :
        /\ Read(reply)
        /\ IF pc = "oauth" /\ reply.code = 334
           THEN Issue(Plain("RESPONSE"), "oauthError") /\ UNCHANGED caller
           ELSE ConnectReturns(IF reply.code \in {220, 235} THEN "nil" ELSE "error")
  BY DEF Oauth
<1>2. Received(reply)
  BY <1>0, <1>1, ReadReceives
<1>3. CASE /\ pc = "oauth" /\ reply.code = 334
           /\ Issue(Plain("RESPONSE"), "oauthError") /\ UNCHANGED caller
  <2>1. pc' = "oauthError"
    BY <1>3 DEF Issue
  <2> QED
    BY <1>0, <1>2, <1>3, <2>1, AuthenticationGoesOn
<1>4. CASE ConnectReturns("error")
  BY <1>0, <1>2, <1>4, ConnectReturnKeepsIInv
<1>5. CASE ConnectReturns("nil") /\ reply.code \in {220, 235}
  <2>1. NoReply.code = 0
    BY DEF NoReply, Code
  <2>2. replies # <<>> /\ reply = replies[1]
    BY <1>2, <1>5, <2>1 DEF Received
  <2>3. 1 \in 1 .. Len(replies)
    BY <1>0, <2>2 DEF WireTypes
  <2>4. reply.code = 235
    BY <1>0, <1>5, <2>2, <2>3 DEF Expected
  <2>5. server.auth /\ server.tls
    BY <1>0, <1>2, <2>4, AuthenticationSucceeds
  <2> QED
    BY <1>0, <1>2, <1>5, <2>4, <2>5, ConnectReturnKeepsIInv
<1> QED
  BY <1>1, <1>3, <1>4, <1>5

----------------------------------------------------------------------------
(***************************************************************************)
(* The waits of beSend.                                                    *)
(***************************************************************************)
LEMMA SendGoesOn ==
  ASSUME IInv, NEW reply, Received(reply), NEW verb \in OfSend, NEW n \in Nat,
         NEW next \in Sending, Issue(Of(verb, caller.send, n), next),
         Leaves, UNCHANGED session, pc \in Sending,
         caller' \in Caller, caller'.send = caller.send, caller'.n = caller.n,
         verb = "TEXT" => next \in {"message", "again"},
         pc \in {"message", "again"} => next \in {"message", "again"},
         next = "message" => pc = "data" /\ reply.code = 354,
         next = "again" => ~session.esmtp
  PROVE  IInv'
<1>0. /\ ClientTypes /\ Stage
      /\ caller.send \in Send /\ result[caller.send] = "none" /\ caller.n >= 1
      /\ session.stream
  BY DEF IInv, Types, Stage
<1>1. /\ pc' = next /\ pc' \notin Connecting /\ pc \notin Connecting
      /\ UNCHANGED <<connectionInfo, connected, result, connects, server>>
  BY DEF Issue, Leaves, actorVars, serverVars, Connecting, Authenticating, Sending
<1>2. ClientTypes'
  BY <1>0, <1>1 DEF ClientTypes
<1> DEFINE cmd == Of(verb, caller.send, n)
<1>3. cmd \in Command /\ cmd.verb = verb /\ cmd.of = caller.send
  BY <1>0 DEF Of, Command, Verb, Sender
<1>4. Issue(cmd, next)
  OBVIOUS
<1>5. verb # "TLS+EHLO" /\ verb \notin Credentials
  BY DEF OfSend, Credentials
<1> HIDE DEF cmd
<1>6. Types' /\ Wire'
  BY <1>0, <1>1, <1>2, <1>3, <1>4, <1>5, IssueKeepsWire
<1>7. Stage'
  BY <1>0, <1>1 DEF Stage, Sending
<1>8. Secure' /\ Expected'
  BY <1>1 DEF Secure, Expected, Connecting, Authenticating, Sending
<1> QED
  BY <1>6, <1>7, <1>8 DEF IInv

LEMMA MailKeepsIInv ==
  ASSUME IInv, Mail
  PROVE  IInv'
<1>0. /\ ClientTypes /\ WireTypes /\ Stage
      /\ pc = "mail" /\ pc \in Sending /\ UNCHANGED <<connects, serverVars>> /\ Leaves
      /\ UNCHANGED session /\ UNCHANGED up
  BY DEF IInv, Types, Mail, Waits, Sending, Leaves
<1>1. PICK reply \in Reply :
        /\ Read(reply)
        /\ IF reply.code = 250
           THEN Issue(Of("RCPT", caller.send, 1), "rcpt") /\ caller' = [caller EXCEPT !.i = 1]
           ELSE SendReturns("error")
  BY DEF Mail
<1>2. Received(reply)
  BY <1>0, <1>1, ReadReceives
<1>3. CASE /\ Issue(Of("RCPT", caller.send, 1), "rcpt") /\ caller' = [caller EXCEPT !.i = 1]
  <2>1. MaxRecipients >= 1 /\ MaxRecipients \in Nat
    BY <1>0, BoundsAssumption DEF ClientTypes, Caller, Stage
  <2>2. caller' \in Caller /\ caller'.send = caller.send /\ caller'.n = caller.n
    BY <1>0, <1>3, <2>1 DEF ClientTypes, Caller
  <2>3. "RCPT" \in OfSend /\ "RCPT" # "TEXT" /\ "rcpt" \in Sending
    BY DEF OfSend, Sending
  <2> QED
    BY <1>0, <1>2, <1>3, <2>2, <2>3, SendGoesOn
<1>4. CASE SendReturns("error")
  BY <1>0, <1>2, <1>4, SendReturnKeepsIInv
<1> QED
  BY <1>1, <1>3, <1>4

LEMMA RcptKeepsIInv ==
  ASSUME IInv, Rcpt
  PROVE  IInv'
<1>0. /\ ClientTypes /\ WireTypes /\ Stage
      /\ pc = "rcpt" /\ pc \in Sending /\ UNCHANGED <<connects, serverVars>> /\ Leaves
      /\ UNCHANGED session /\ UNCHANGED up
  BY DEF IInv, Types, Rcpt, Waits, Sending, Leaves
<1>1. PICK reply \in Reply :
        Read(reply) /\ IF reply.code = 250 THEN NextRecipient(caller.n) ELSE SendReturns("error")
  BY DEF Rcpt
<1>2. Received(reply)
  BY <1>0, <1>1, ReadReceives
<1>3. caller \in Caller /\ MaxRecipients \in Nat
      /\ caller.i \in 0 .. MaxRecipients /\ caller.n \in 0 .. MaxRecipients
  BY <1>0, BoundsAssumption DEF ClientTypes, Caller
<1>4. CASE /\ caller.i < caller.n
           /\ Issue(Of("RCPT", caller.send, caller.i + 1), "rcpt")
           /\ caller' = [caller EXCEPT !.i = @ + 1]
  <2>1. caller.i + 1 \in 0 .. MaxRecipients /\ caller.i + 1 \in Nat
    BY <1>3, <1>4
  <2>2. caller' \in Caller /\ caller'.send = caller.send /\ caller'.n = caller.n
    BY <1>3, <1>4, <2>1 DEF Caller
  <2>3. "RCPT" \in OfSend /\ "RCPT" # "TEXT" /\ "rcpt" \in Sending
    BY DEF OfSend, Sending
  <2> QED
    BY <1>0, <1>2, <1>4, <2>1, <2>2, <2>3, SendGoesOn
<1>5. CASE Issue(Of("DATA", caller.send, 0), "data") /\ UNCHANGED caller
  <2>1. "DATA" \in OfSend /\ "DATA" # "TEXT" /\ "data" \in Sending
    BY DEF OfSend, Sending
  <2> QED
    BY <1>0, <1>2, <1>3, <1>5, <2>1, SendGoesOn
<1>6. CASE SendReturns("error")
  BY <1>0, <1>2, <1>6, SendReturnKeepsIInv
<1> QED
  BY <1>1, <1>4, <1>5, <1>6 DEF NextRecipient

LEMMA DataKeepsIInv ==
  ASSUME IInv, Data
  PROVE  IInv'
<1>0. /\ ClientTypes /\ WireTypes
      /\ pc = "data" /\ pc \in Sending /\ UNCHANGED <<connects, serverVars>> /\ Leaves
      /\ UNCHANGED session /\ UNCHANGED up
      /\ caller \in Caller /\ caller.n \in Nat
  BY BoundsAssumption DEF IInv, Types, Data, Waits, Sending, Leaves, ClientTypes, Caller
<1>1. PICK reply \in Reply :
        /\ Read(reply)
        /\ IF reply.code = 354
           THEN Issue(Of("TEXT", caller.send, caller.n), "message") /\ UNCHANGED caller
           ELSE SendReturns("error")
  BY DEF Data
<1>2. Received(reply)
  BY <1>0, <1>1, ReadReceives
<1>3. CASE /\ reply.code = 354
           /\ Issue(Of("TEXT", caller.send, caller.n), "message") /\ UNCHANGED caller
  <2>1. "TEXT" \in OfSend /\ "message" \in Sending
    BY DEF OfSend, Sending
  <2> QED
    BY <1>0, <1>2, <1>3, <2>1, SendGoesOn
<1>4. CASE SendReturns("error")
  BY <1>0, <1>2, <1>4, SendReturnKeepsIInv
<1> QED
  BY <1>1, <1>3, <1>4

LEMMA MessageKeepsIInv ==
  ASSUME IInv, Message
  PROVE  IInv'
<1>0. /\ ClientTypes /\ WireTypes
      /\ pc \in {"message", "again"} /\ pc \in Sending
      /\ UNCHANGED <<connects, serverVars>> /\ Leaves
      /\ UNCHANGED session /\ UNCHANGED up
      /\ caller \in Caller /\ caller.n \in Nat
  BY BoundsAssumption DEF IInv, Types, Message, Waits, Sending, Leaves, ClientTypes, Caller
<1>1. PICK reply \in Reply :
        /\ Read(reply)
        /\ IF reply.code # 250 THEN SendReturns("error")
           ELSE IF pc = "message" /\ ~session.esmtp
           THEN Issue(Of("TEXT", caller.send, caller.n), "again") /\ UNCHANGED caller
           ELSE SendReturns("nil")
  BY DEF Message
<1>2. Received(reply)
  BY <1>0, <1>1, ReadReceives
<1>3. CASE /\ ~session.esmtp
           /\ Issue(Of("TEXT", caller.send, caller.n), "again") /\ UNCHANGED caller
  <2>1. "TEXT" \in OfSend /\ "again" \in Sending
    BY DEF OfSend, Sending
  <2> QED
    BY <1>0, <1>2, <1>3, <2>1, SendGoesOn
<1>4. CASE SendReturns("error")
  BY <1>0, <1>2, <1>4, SendReturnKeepsIInv
<1>5. CASE SendReturns("nil")
  BY <1>0, <1>2, <1>5, SendReturnKeepsIInv
<1> QED
  BY <1>1, <1>3, <1>4, <1>5

----------------------------------------------------------------------------
(***************************************************************************)
(* The calls.                                                              *)
(***************************************************************************)
LEMMA beConnectKeepsIInv ==
  ASSUME IInv, NEW security \in {"ssl", "startTLS"}, NEW oauth2 \in BOOLEAN,
         beConnect(security, oauth2)
  PROVE  IInv'
<1>0. /\ ClientTypes /\ WireTypes /\ ServerTypes /\ Stage
      /\ Handshake /\ CredentialsUnderTLS /\ Known /\ Texts /\ InStep
      /\ pc = "idle" /\ connected' = FALSE /\ connects' \in 0 .. MaxConnects
      /\ pc \notin Connecting /\ pc \notin Sending
  BY BoundsAssumption
     DEF IInv, Types, Wire, ClientTypes, beConnect, Connecting, Authenticating, Sending
<1>1. CASE UNCHANGED <<clientVars, connectionInfo, result, wire, serverVars>>
  <2>1. UNCHANGED <<session, pc, caller, connectionInfo, result, commands, replies, up, timeouts,
                    server, delivered>>
    BY <1>1 DEF clientVars, wire, serverVars
  <2>2. Types'
    BY <1>0, <2>1 DEF Types, ClientTypes, WireTypes, ServerTypes
  <2>3. Stage' /\ Secure' /\ Expected'
    BY <1>0, <2>1 DEF Stage, Secure, Expected
  <2>4. Handshake' /\ CredentialsUnderTLS' /\ Known'
    BY <1>0, <2>1 DEF Handshake, CredentialsUnderTLS, Known
  <2>5. Texts'
    BY <1>0, <2>1 DEF Texts, Begun
  <2>6. InStep'
    BY <1>0, <2>1 DEF InStep, Undisturbed
  <2> QED
    BY <2>2, <2>3, <2>4, <2>5, <2>6 DEF IInv, Wire
<1>2. CASE /\ session' = [session EXCEPT !.stream = TRUE]
           /\ caller' = [NoCaller EXCEPT !.op = "connect", !.security = security,
                                         !.oauth2 = oauth2]
           /\ pc' = "greeting"
           /\ commands' = <<Plain("CONNECT")>> /\ replies' = <<>> /\ up' = TRUE
           /\ server' = NewServer(security = "ssl")
           /\ UNCHANGED <<connectionInfo, result, timeouts, delivered>>
  <2>1. session' \in Session /\ session'.stream
    BY <1>0, <1>2 DEF ClientTypes, Session
  <2>2. caller' \in Caller /\ caller'.security = security /\ ~caller'.upgraded
    BY <1>2, NoCallerIsCaller DEF Caller
  <2>3. /\ server' \in Server /\ server'.tls = (security = "ssl")
        /\ server'.mode = "command" /\ server'.rcpts = {}
    <3>1. ASSUME NEW b \in BOOLEAN
          PROVE  NewServer(b) \in Server /\ NewServer(b).tls = b
                 /\ NewServer(b).mode = "command" /\ NewServer(b).rcpts = {}
      BY DEF NewServer, Server, Sender, Recipients, Announced
    <3> QED
      BY <1>2, <3>1, Zenon
  <2>4. Plain("CONNECT") \in Command /\ Plain("CONNECT").verb = "CONNECT"
    BY PlainIsCommand DEF Verb
  <2>5. /\ commands' \in Seq(Command) /\ Len(commands') = 1
        /\ \A i \in 1 .. Len(commands') : commands'[i].verb = "CONNECT"
    BY <1>2, <2>4
  <2>6. replies' \in Seq(Reply) /\ Len(replies') = 0
    BY <1>2
  <2>7. pc' \in Connecting /\ pc' \notin Sending /\ pc' \notin Authenticating
    BY <1>2 DEF Connecting, Authenticating, Sending
  <2>8. Types'
    <3>1. ClientTypes'
      BY <1>0, <1>2, <2>1, <2>2, <2>7 DEF ClientTypes
    <3>2. WireTypes'
      BY <1>0, <1>2, <2>5, <2>6 DEF WireTypes, OfSend
    <3>3. ServerTypes'
      BY <1>0, <1>2, <2>3 DEF ServerTypes
    <3> QED
      BY <3>1, <3>2, <3>3 DEF Types
  <2>9. Stage'
    BY <1>0, <1>2, <2>1, <2>7 DEF Stage
  <2>10. Secure'
    BY <1>2, <2>2, <2>3, <2>7 DEF Secure
  <2>11. Expected'
    BY <1>2, <2>5, <2>6 DEF Expected, One
  <2>12. Handshake' /\ CredentialsUnderTLS' /\ Known'
    BY <2>5, <2>6 DEF Handshake, CredentialsUnderTLS, Known
  <2>13. Texts'
    BY <1>0, <1>2, <2>5 DEF Texts, Begun
  <2>14. InStep'
    BY <1>2, <2>5, <2>6, <2>7 DEF InStep
  <2> QED
    BY <2>8, <2>9, <2>10, <2>11, <2>12, <2>13, <2>14 DEF IInv, Wire
<1> QED
  BY <1>1, <1>2 DEF beConnect

LEMMA beSendKeepsIInv ==
  ASSUME IInv, NEW s \in Send, NEW n \in 0 .. MaxRecipients, NEW big \in BOOLEAN,
         beSend(s, n, big)
  PROVE  IInv'
<1>0. /\ ClientTypes /\ WireTypes /\ ServerTypes /\ Stage
      /\ Handshake /\ CredentialsUnderTLS /\ Known /\ Texts /\ InStep
      /\ pc = "idle" /\ result[s] = "none"
      /\ UNCHANGED <<session, replies, up, timeouts, server, delivered>>
  BY DEF IInv, Types, Wire, beSend, serverVars
<1>1. \A x : Begun(x) => result[x] # "none"
  BY <1>0 DEF Begun
<1>2. /\ \A i \in 1 .. Len(commands) : commands[i].verb = "TEXT" => result[commands[i].of] # "none"
      /\ \A d \in delivered : result[d.text] # "none"
  BY <1>0, <1>1 DEF Texts
<1>3. CASE /\ result' = [result EXCEPT ![s] = IF n = 0 THEN "error" ELSE "tooBig"]
           /\ UNCHANGED <<pc, caller, connectionInfo, connected, connects, commands>>
  <2>1. \A x \in Send : result[x] # "none" => result'[x] # "none"
    BY <1>0, <1>3 DEF ClientTypes
  <2>2. Types'
    BY <1>0, <1>3 DEF Types, ClientTypes, WireTypes, ServerTypes
  <2>3. Stage' /\ Secure' /\ Expected'
    BY <1>0, <1>3 DEF Stage, Secure, Expected, Connecting, Authenticating, Sending
  <2>4. Handshake' /\ CredentialsUnderTLS' /\ Known'
    BY <1>0, <1>3 DEF Handshake, CredentialsUnderTLS, Known
  <2>5. Texts'
    BY <1>0, <1>2, <1>3, <2>1 DEF Texts, Begun, WireTypes, ServerTypes, OfSend
  <2>6. InStep'
    BY <1>0, <1>3 DEF InStep, Undisturbed
  <2> QED
    BY <2>2, <2>3, <2>4, <2>5, <2>6 DEF IInv, Wire
<1>4. CASE n # 0 /\ SendIssues(s, n, big)
  <2>1. /\ caller' = [NoCaller EXCEPT !.op = "send", !.send = s, !.n = n, !.big = big]
        /\ UNCHANGED <<connectionInfo, connected, result, connects>>
    BY <1>4 DEF SendIssues, actorVars
  <2>2. caller' \in Caller /\ caller'.send = s /\ caller'.n = n /\ n >= 1
    <3>1. n \in Nat /\ MaxRecipients \in Nat
      BY BoundsAssumption
    <3>2. n >= 1
      BY <1>4, <3>1
    <3> QED
      BY <2>1, <3>2, NoCallerIsCaller DEF Caller, Sender
  <2> DEFINE cmd == Of("MAIL", s, IF big THEN 1 ELSE 0)
  <2>3. cmd \in Command /\ cmd.verb = "MAIL" /\ cmd.of = s
    BY DEF Of, Command, Verb, OfSend, Sender
  <2>4. \/ session.stream /\ Issue(cmd, "mail")
        \/ ~session.stream /\ pc' = "crashed" /\ UNCHANGED commands
    BY <1>4 DEF SendIssues
  <2> HIDE DEF cmd
  <2>5. CASE session.stream /\ Issue(cmd, "mail")
    <3>1. /\ commands' \in Seq(Command) /\ Len(commands') <= Len(commands) + 1
          /\ \A i \in 1 .. Len(commands') :
               \/ i \in 1 .. Len(commands) /\ commands'[i] = commands[i]
               \/ i = Len(commands) + 1 /\ commands'[i] = cmd
      BY <1>0, <2>3, <2>5, SentLast DEF WireTypes
    <3>2. pc' = "mail" /\ pc' \in Sending /\ pc' \notin Connecting
      BY <2>5 DEF Issue, Sending, Connecting, Authenticating
    <3>3. Types'
      <4>1. ClientTypes'
        BY <1>0, <2>1, <2>2, <3>2 DEF ClientTypes
      <4>2. WireTypes'
        BY <1>0, <2>3, <3>1 DEF WireTypes, OfSend
      <4>3. ServerTypes'
        BY <1>0 DEF ServerTypes
      <4> QED
        BY <4>1, <4>2, <4>3 DEF Types
    <3>4. Stage' /\ Secure' /\ Expected'
      BY <1>0, <2>1, <2>2, <2>5, <3>2
         DEF Stage, Secure, Expected, Connecting, Authenticating, Sending
    <3>5. Handshake' /\ CredentialsUnderTLS' /\ Known'
      BY <1>0, <2>1, <2>3, <3>1 DEF Handshake, CredentialsUnderTLS, Known
    <3>6. Texts'
      BY <1>0, <1>2, <2>1, <2>3, <3>1 DEF Texts, Begun
    <3>7. InStep'
      <4> SUFFICES ASSUME Undisturbed' PROVE InStep'
        BY DEF InStep
      <4>1. commands = <<>> /\ replies = <<>>
        BY <1>0, <3>2 DEF InStep, Undisturbed, Connecting, Authenticating
      <4>2. Len(replies') = 0 /\ Len(commands') <= 1
        BY <1>0, <3>1, <4>1
      <4>3. \A i \in 1 .. Len(commands') : commands'[i].verb # "TEXT"
        BY <2>3, <3>1, <4>1
      <4> QED
        BY <3>1, <3>2, <4>2, <4>3 DEF InStep
    <3> QED
      BY <3>3, <3>4, <3>5, <3>6, <3>7 DEF IInv, Wire
  <2>6. CASE ~session.stream /\ pc' = "crashed" /\ UNCHANGED commands
    <3>1. CallersAsk # "result"
      BY <1>0, <2>6 DEF beSend, Stage
    <3>2. Types'
      BY <1>0, <2>1, <2>2, <2>6 DEF Types, ClientTypes, WireTypes, ServerTypes
    <3>3. Stage' /\ Secure' /\ Expected'
      BY <1>0, <2>1, <2>6, <3>1
         DEF Stage, Secure, Expected, Connecting, Authenticating, Sending
    <3>4. Handshake' /\ CredentialsUnderTLS' /\ Known'
      BY <1>0, <2>1, <2>6 DEF Handshake, CredentialsUnderTLS, Known
    <3>5. Texts'
      BY <1>0, <1>2, <2>1, <2>6 DEF Texts, Begun
    <3>6. InStep'
      BY <1>0, <2>6 DEF InStep, Undisturbed
    <3> QED
      BY <3>2, <3>3, <3>4, <3>5, <3>6 DEF IInv, Wire
  <2> QED
    BY <2>4, <2>5, <2>6
<1> QED
  BY <1>3, <1>4 DEF beSend

LEMMA beCloseKeepsIInv ==
  ASSUME IInv, beClose
  PROVE  IInv'
<1>0. /\ ClientTypes /\ WireTypes /\ ServerTypes /\ Stage
      /\ Handshake /\ CredentialsUnderTLS /\ Known /\ Texts
      /\ pc = "idle" /\ connected' = FALSE
      /\ session' = [session EXCEPT !.stream = FALSE]
      /\ UNCHANGED <<pc, caller, connectionInfo, result, connects, replies, up, timeouts,
                     server, delivered>>
  BY DEF IInv, Types, Wire, beClose, serverVars
<1>1. Plain("QUIT") \in Command /\ Plain("QUIT").verb = "QUIT"
  BY PlainIsCommand DEF Verb
<1>2. /\ commands' \in Seq(Command)
      /\ \A i \in 1 .. Len(commands') :
           \/ i \in 1 .. Len(commands) /\ commands'[i] = commands[i]
           \/ commands'[i].verb = "QUIT"
  BY <1>0, <1>1 DEF beClose, WireTypes
<1>3. session' \in Session /\ ~session'.stream
  BY <1>0 DEF ClientTypes, Session
<1>4. Types'
  <2>1. ClientTypes' /\ ServerTypes'
    BY <1>0, <1>3 DEF ClientTypes, ServerTypes
  <2>2. WireTypes'
    BY <1>0, <1>2 DEF WireTypes, OfSend
  <2> QED
    BY <2>1, <2>2 DEF Types
<1>5. Stage' /\ Secure' /\ Expected'
  BY <1>0 DEF Stage, Secure, Expected, Connecting, Authenticating, Sending
<1>6. Handshake' /\ CredentialsUnderTLS' /\ Known'
  BY <1>0, <1>2 DEF Handshake, CredentialsUnderTLS, Known
<1>7. Texts'
  BY <1>0, <1>2 DEF Texts, Begun
<1>8. InStep'
  BY <1>3 DEF InStep, Undisturbed
<1> QED
  BY <1>4, <1>5, <1>6, <1>7, <1>8 DEF IInv, Wire

----------------------------------------------------------------------------
(***************************************************************************)
(* The connection breaks.                                                  *)
(***************************************************************************)
LEMMA DropKeepsIInv ==
  ASSUME IInv, Drop
  PROVE  IInv'
<1>0. /\ ClientTypes /\ WireTypes /\ ServerTypes /\ Stage /\ Secure /\ Expected
      /\ Known /\ Texts
      /\ up' = FALSE /\ commands' = <<>>
      /\ UNCHANGED <<session, pc, caller, connectionInfo, connected, result, connects, timeouts,
                     server, delivered>>
  BY DEF IInv, Types, Wire, Drop, clientVars, actorVars, serverVars
<1>1. PICK n \in 0 .. Len(replies) : replies' = SubSeq(replies, 1, n)
  BY DEF Drop
<1>2. /\ replies' \in Seq(Reply) /\ Len(replies') <= Len(replies)
      /\ \A i \in 1 .. Len(replies') : i \in 1 .. Len(replies) /\ replies'[i] = replies[i]
  BY <1>0, <1>1 DEF WireTypes
<1>3. commands' \in Seq(Command) /\ Len(commands') = 0
  BY <1>0
<1>4. Types'
  <2>1. ClientTypes' /\ ServerTypes'
    BY <1>0 DEF ClientTypes, ServerTypes
  <2>2. WireTypes'
    <3>1. \A i \in 1 .. Len(commands') : FALSE
      BY <1>3
    <3>2. up' \in BOOLEAN /\ timeouts' \in 0 .. MaxTimeouts
      BY <1>0 DEF WireTypes
    <3> QED
      BY <1>2, <1>3, <3>1, <3>2 DEF WireTypes
  <2> QED
    BY <2>1, <2>2 DEF Types
<1>5. Stage'
  BY <1>0 DEF Stage
<1>6. Secure'
  <2>1. replies = <<>> => replies' = <<>>
    BY <1>0, <1>2 DEF WireTypes
  <2> QED
    BY <1>0, <2>1 DEF Secure
<1>7. Expected'
  <2>1. ASSUME NEW verbs, NEW codes, One(verbs, codes)
        PROVE  /\ Len(commands') + Len(replies') <= 1
               /\ \A i \in 1 .. Len(commands') : commands'[i].verb \in verbs
               /\ \A i \in 1 .. Len(replies') : replies'[i].code \in codes
    BY <1>0, <1>2, <1>3, <2>1 DEF One, WireTypes
  <2> QED
    BY <1>0, <1>2, <1>3, <2>1 DEF Expected, One
<1>8. Handshake' /\ CredentialsUnderTLS'
  BY <1>3 DEF Handshake, CredentialsUnderTLS
<1>9. Known'
  BY <1>0, <1>2 DEF Known
<1>10. Texts'
  BY <1>0, <1>3 DEF Texts, Begun
<1>11. InStep'
  BY <1>0 DEF InStep, Undisturbed
<1> QED
  BY <1>4, <1>5, <1>6, <1>7, <1>8, <1>9, <1>10, <1>11 DEF IInv, Wire

----------------------------------------------------------------------------
(***************************************************************************)
(* The server.                                                             *)
(***************************************************************************)

\* A reply that a command may get.
Fits(verb, code) ==
  /\ verb = "CONNECT" => code \in {220, 501, 554}
  /\ verb \in Hello => code \in {250, 501, 502}
  /\ verb = "STARTTLS" => code \in {220, 454, 501}
  /\ verb \in Credentials => code \in {235, 334, 500, 501, 535}
  /\ verb \notin {"CONNECT", "STARTTLS"} => code # 220
  /\ verb = "STARTTLS" /\ code = 220 => server'.mode = "tls"
  /\ code = 235 => server'.auth
  /\ code = 354 => server'.mode = "data"

\* The replies that one command adds: two at most, one if it is no stray text.
Replied(cmd) ==
  /\ replies' \in Seq(Reply) /\ Len(replies) <= Len(replies')
  /\ Len(replies') <= Len(replies) + (IF cmd.verb = "TEXT" /\ server.mode # "data" THEN 2 ELSE 1)
  /\ \A i \in 1 .. Len(replies) : replies'[i] = replies[i]
  /\ \A i \in Len(replies) + 1 .. Len(replies') : Fits(cmd.verb, replies'[i].code)

\* What one command does to the server: TLS stays, an authentication up to the handshake.
Changed(cmd) ==
  /\ server' \in Server
  /\ server'.mode = "data" \/ server'.rcpts # {} => server'.open \in Send
  /\ server.tls => server'.tls
  /\ cmd.verb = "TLS+EHLO" => server'.tls
  /\ server.auth /\ cmd.verb # "TLS+EHLO" => server'.auth

Delivers(cmd) ==
  \/ delivered' = delivered
  \/ /\ cmd.verb = "TEXT"
     /\ replies' # <<>> /\ replies'[Len(replies')].code = 250
     /\ \E d : delivered' = delivered \cup {d} /\ d.from \in Send /\ d.text = cmd.of

Effect(cmd) ==
  /\ Replied(cmd) /\ Changed(cmd) /\ Delivers(cmd)
  /\ up' \in BOOLEAN /\ (up' => up)

LEMMA NotReplied ==
  ASSUME replies \in Seq(Reply), NEW cmd, UNCHANGED replies
  PROVE  Replied(cmd)
<1>1. Len(replies) \in Nat
  OBVIOUS
<1> QED
  BY <1>1 DEF Replied

\* The codes that a server sends.
Codes == {0, 220, 235, 250, 334, 354, 451, 454, 500, 501, 502, 503, 535, 550, 552, 554}

LEMMA RepliedOnce ==
  ASSUME replies \in Seq(Reply), NEW cmd, NEW reply \in Reply, replies' = Append(replies, reply),
         Fits(cmd.verb, reply.code)
  PROVE  Replied(cmd) /\ replies' # <<>> /\ replies'[Len(replies')] = reply
<1>1. /\ replies' \in Seq(Reply) /\ Len(replies') = Len(replies) + 1 /\ Len(replies) \in Nat
      /\ \A i \in 1 .. Len(replies) : replies'[i] = replies[i]
      /\ replies'[Len(replies) + 1] = reply
  OBVIOUS
<1>2. \A i \in Len(replies) + 1 .. Len(replies') : Fits(cmd.verb, replies'[i].code)
  BY <1>1
<1>3. replies' # <<>>
  BY <1>1
<1> QED
  BY <1>1, <1>2, <1>3 DEF Replied

LEMMA CodeIsReply ==
  ASSUME NEW code \in Codes
  PROVE  Code(code) \in Reply /\ Code(code).code = code
BY DEF Codes, Code, Reply

LEMMA AcceptedMeans ==
  ASSUME replies \in Seq(Reply), NEW code \in Codes, replies' = Append(replies, Code(code))
  PROVE  Accepted <=> code \notin 400 .. 599
<1>1. Code(code) \in Reply /\ Code(code).code = code
  BY CodeIsReply
<1>2. replies'[Len(replies')] = Code(code)
  BY <1>1
<1> QED
  BY <1>1, <1>2 DEF Accepted

\* One reply of a code.
LEMMA CodeReplied ==
  ASSUME replies \in Seq(Reply), NEW cmd, NEW code \in Codes, replies' = Append(replies, Code(code)),
         Fits(cmd.verb, code)
  PROVE  /\ Replied(cmd)
         /\ replies' # <<>> /\ replies'[Len(replies')].code = code
<1>1. Code(code) \in Reply /\ Code(code).code = code
  BY CodeIsReply
<1>2. Replied(cmd) /\ replies' # <<>> /\ replies'[Len(replies')] = Code(code)
  BY <1>1, RepliedOnce
<1> QED
  BY <1>1, <1>2

\* The server as it was, and as a hello, a transaction's end or a new connection leaves it.
LEMMA ServersAreTyped ==
  ASSUME ServerTypes
  PROVE  /\ server \in Server
         /\ NewServer(TRUE) \in Server /\ NewServer(TRUE).tls /\ NewServer(TRUE).rcpts = {}
         /\ NewServer(TRUE).mode = "command"
BY DEF ServerTypes, NewServer, Server, Sender, Recipients, Announced

LEMMA HelloEffect ==
  ASSUME IInv, NEW cmd, NEW verb \in {"EHLO", "HELO"}, NEW srv \in Server, ServeHello(verb, srv),
         cmd.verb \in Hello,
         cmd.verb = "TLS+EHLO" => srv.tls,
         cmd.verb # "TLS+EHLO" => srv = server,
         srv.mode \in {"command", "auth", "tls"},
         srv.rcpts # {} => srv.open \in Send
  PROVE  Effect(cmd)
<1>0. /\ replies \in Seq(Reply) /\ server \in Server /\ up' = up /\ up \in BOOLEAN
      /\ delivered' = delivered
  BY DEF IInv, Types, WireTypes, ServerTypes, ServeHello
<1>1. ASSUME NEW t \in Server, t.tls = srv.tls, t.auth = srv.auth, t.mode = srv.mode,
             t.rcpts = {} \/ t = srv, server' = t
      PROVE  Changed(cmd)
  <2>1. server.tls => server'.tls
    BY <1>1 DEF Hello
  <2> QED
    BY <1>1, <2>1 DEF Changed
<1> DEFINE Greets(reply, t) ==
             /\ replies' = Append(replies, reply) /\ reply.code \in {250, 502}
             /\ server' = t /\ t.tls = srv.tls /\ t.auth = srv.auth /\ t.mode = srv.mode
             /\ t.rcpts = {} \/ t = srv
<1>2. PICK reply \in Reply, t \in Server : Greets(reply, t)
  <2>1. CASE verb = "HELO"
    <3> DEFINE t == [Reset(srv) EXCEPT !.hello = TRUE]
    <3>1. t \in Server /\ t.tls = srv.tls /\ t.auth = srv.auth /\ t.mode = srv.mode /\ t.rcpts = {}
      BY DEF Reset, Server, Sender, Recipients, Announced
    <3>2. Code(250) \in Reply /\ Code(250).code = 250
      BY CodeIsReply DEF Codes
    <3> QED
      BY <2>1, <3>1, <3>2 DEF ServeHello
  <2>2. ASSUME NEW caps \in Capabilities,
               replies' = Append(replies, [code |-> 250, caps |-> caps]),
               server' = [Reset(srv) EXCEPT !.hello = TRUE, !.caps = caps]
        PROVE  \E reply \in Reply, t \in Server : Greets(reply, t)
    <3> DEFINE t == [Reset(srv) EXCEPT !.hello = TRUE, !.caps = caps]
               reply == [code |-> 250, caps |-> caps]
    <3>1. t \in Server /\ t.tls = srv.tls /\ t.auth = srv.auth /\ t.mode = srv.mode /\ t.rcpts = {}
      BY DEF Reset, Server, Sender, Recipients, Announced
    <3>2. reply \in Reply /\ reply.code = 250
      BY DEF Reply
    <3>3. replies' = Append(replies, reply) /\ server' = t
      BY <2>2
    <3> HIDE DEF t, reply
    <3>4. Greets(reply, t)
      BY <3>1, <3>2, <3>3
    <3> QED
      BY <3>1, <3>2, <3>4
  <2>3. CASE replies' = Append(replies, Code(502)) /\ server' = srv
    <3>1. Code(502) \in Reply /\ Code(502).code = 502
      BY CodeIsReply DEF Codes
    <3> QED
      BY <2>3, <3>1
  <2> QED
    BY <2>1, <2>2, <2>3 DEF ServeHello
<1>3. Changed(cmd)
  BY <1>1, <1>2
<1>4. Fits(cmd.verb, reply.code)
  BY <1>2 DEF Fits, Hello, Credentials
<1>5. Replied(cmd)
  BY <1>0, <1>2, <1>4, RepliedOnce
<1> QED
  BY <1>0, <1>3, <1>5 DEF Effect, Delivers

LEMMA AuthEffect ==
  ASSUME IInv, NEW cmd, cmd.verb \in Credentials, server.mode \in {"command", "auth"}, ServeAuth
  PROVE  Effect(cmd)
<1>0. /\ replies \in Seq(Reply) /\ server \in Server /\ up' = up /\ up \in BOOLEAN
      /\ delivered' = delivered /\ (server.rcpts # {} => server.open \in Send)
      /\ cmd.verb # "TLS+EHLO" /\ cmd.verb \notin Hello /\ cmd.verb \notin {"CONNECT", "STARTTLS"}
  BY DEF IInv, Types, WireTypes, ServerTypes, ServeAuth, Credentials, Hello
<1>1. CASE /\ replies' = Append(replies, Code(334))
           /\ server' = [server EXCEPT !.mode = "auth", !.rounds = @ + 1]
  <2>1. Changed(cmd)
    <3>1. server \in Server
      BY <1>0
    <3>2. server.rounds + 1 \in Nat
      BY <3>1 DEF Server
    <3>3. PICK rounds \in Nat : server' = [server EXCEPT !.mode = "auth", !.rounds = rounds]
      BY <1>1, <3>2
    <3>4. /\ server' \in Server /\ server'.mode = "auth" /\ server'.auth = server.auth
          /\ server'.tls = server.tls /\ server'.open = server.open /\ server'.rcpts = server.rcpts
      BY <3>1, <3>3 DEF Server
    <3> QED
      BY <1>0, <3>4 DEF Changed
  <2>2. Fits(cmd.verb, 334) /\ 334 \in Codes
    BY <1>0 DEF Fits, Codes
  <2> QED
    BY <1>0, <1>1, <2>1, <2>2, CodeReplied DEF Effect, Delivers
<1>2. CASE /\ replies' = Append(replies, Code(235))
           /\ server' = [server EXCEPT !.mode = "command", !.auth = TRUE]
  <2>1. Changed(cmd) /\ server'.auth
    BY <1>0, <1>2 DEF Changed, Server
  <2>2. Fits(cmd.verb, 235) /\ 235 \in Codes
    BY <1>0, <2>1 DEF Fits, Codes
  <2> QED
    BY <1>0, <1>2, <2>1, <2>2, CodeReplied DEF Effect, Delivers
<1>3. CASE /\ replies' = Append(replies, Code(535))
           /\ server' = [server EXCEPT !.mode = "command"]
  <2>1. Changed(cmd)
    BY <1>0, <1>3 DEF Changed, Server
  <2>2. Fits(cmd.verb, 535) /\ 535 \in Codes
    BY <1>0 DEF Fits, Codes
  <2> QED
    BY <1>0, <1>3, <2>1, <2>2, CodeReplied DEF Effect, Delivers
<1> QED
  BY <1>1, <1>2, <1>3 DEF ServeAuth

\* A server that stays as it is, or drops what it was doing.
LEMMA SameServerChanged ==
  ASSUME ServerTypes, NEW cmd, cmd.verb # "TLS+EHLO", server.mode # "data",
         \/ server' = server
         \/ server' = [server EXCEPT !.mode = "command"]
         \/ server' = [server EXCEPT !.mode = "tls"]
  PROVE  Changed(cmd)
BY DEF ServerTypes, Changed, Server

LEMMA MailEffect ==
  ASSUME IInv, NEW cmd \in Command, cmd.verb = "MAIL", cmd.of \in Send, server.mode = "command",
         ServeMail(cmd)
  PROVE  Effect(cmd)
<1>0. /\ replies \in Seq(Reply) /\ server \in Server /\ up' = up /\ up \in BOOLEAN
      /\ delivered' = delivered /\ ServerTypes
      /\ server' = IF Accepted THEN [server EXCEPT !.open = cmd.of, !.rcpts = {}] ELSE server
  BY DEF IInv, Types, WireTypes, ServerTypes, ServeMail
<1>1. PICK code \in {250, 503, 550, 552} : replies' = Append(replies, Code(code))
  BY DEF ServeMail, Answer
<1>2. code \in Codes /\ Fits(cmd.verb, code)
  BY DEF Codes, Fits, Hello, Credentials
<1>3. Changed(cmd)
  <2>1. CASE server' = [server EXCEPT !.open = cmd.of, !.rcpts = {}]
    <3>1. cmd.of \in Sender /\ {} \in Recipients
      BY DEF Sender, Recipients
    <3>2. /\ server' \in Server /\ server'.rcpts = {} /\ server'.open = cmd.of
          /\ server'.tls = server.tls /\ server'.auth = server.auth
      <4>1. server \in Server
        BY <1>0
      <4> QED
        BY <2>1, <3>1, <4>1 DEF Server
    <3> QED
      BY <3>2 DEF Changed
  <2>2. CASE server' = server
    BY <1>0, <2>2, SameServerChanged
  <2> QED
    BY <1>0, <2>1, <2>2
<1> QED
  BY <1>0, <1>1, <1>2, <1>3, CodeReplied DEF Effect, Delivers

LEMMA RcptEffect ==
  ASSUME IInv, NEW cmd \in Command, cmd.verb = "RCPT", cmd.of \in Send, server.mode = "command",
         ServeRcpt(cmd)
  PROVE  Effect(cmd)
<1>0. /\ replies \in Seq(Reply) /\ server \in Server /\ up' = up /\ up \in BOOLEAN
      /\ delivered' = delivered /\ ServerTypes
      /\ server' = IF Accepted THEN [server EXCEPT !.rcpts = @ \cup {<<cmd.of, cmd.n>>}] ELSE server
  BY DEF IInv, Types, WireTypes, ServerTypes, ServeRcpt
<1>1. PICK code \in {250, 503, 550} :
        replies' = Append(replies, Code(code)) /\ (code = 250 => server.open # "none")
  BY DEF ServeRcpt, Answer
<1>2. code \in Codes /\ Fits(cmd.verb, code)
  BY DEF Codes, Fits, Hello, Credentials
<1>3. Replied(cmd) /\ (Accepted <=> code \notin 400 .. 599)
  BY <1>0, <1>1, <1>2, CodeReplied, AcceptedMeans
<1>4. Changed(cmd)
  <2>1. CASE code = 250 /\ server' = [server EXCEPT !.rcpts = @ \cup {<<cmd.of, cmd.n>>}]
    <3>1. server.open \in Send
      BY <1>0, <1>1, <2>1 DEF Server, Sender
    <3>2. <<cmd.of, cmd.n>> \in Sender \X Nat
      BY DEF Command, Sender
    <3>3. server.rcpts \cup {<<cmd.of, cmd.n>>} \in Recipients
      BY <1>0, <3>2 DEF Server, Recipients
    <3> DEFINE rcpts == server.rcpts \cup {<<cmd.of, cmd.n>>}
    <3>4. server' = [server EXCEPT !.rcpts = rcpts]
      BY <2>1
    <3>5. rcpts \in Recipients
      BY <3>3
    <3> HIDE DEF rcpts
    <3>6. /\ server' \in Server /\ server'.open = server.open
          /\ server'.tls = server.tls /\ server'.auth = server.auth
      <4>1. server \in Server
        BY <1>0
      <4> QED
        BY <3>4, <3>5, <4>1 DEF Server
    <3> QED
      BY <3>1, <3>6 DEF Changed
  <2>2. CASE server' = server
    BY <1>0, <2>2, SameServerChanged
  <2>3. code # 250 => code \in 400 .. 599
    BY <1>1
  <2> QED
    BY <1>0, <1>3, <2>1, <2>2, <2>3
<1> QED
  BY <1>0, <1>3, <1>4 DEF Effect, Delivers

LEMMA DataEffect ==
  ASSUME IInv, NEW cmd \in Command, cmd.verb = "DATA", server.mode = "command", ServeData
  PROVE  Effect(cmd)
<1>0. /\ replies \in Seq(Reply) /\ server \in Server /\ up' = up /\ up \in BOOLEAN
      /\ delivered' = delivered /\ ServerTypes
      /\ server' = IF Accepted THEN [server EXCEPT !.mode = "data", !.junk = FALSE] ELSE server
  BY DEF IInv, Types, WireTypes, ServerTypes, ServeData
<1>1. PICK code \in {354, 451, 503} :
        replies' = Append(replies, Code(code)) /\ (code = 354 => server.rcpts # {})
  BY DEF ServeData, Answer
<1>2. Accepted <=> code \notin 400 .. 599
  <2>1. code \in Codes
    BY DEF Codes
  <2> QED
    BY <1>0, <1>1, <2>1, AcceptedMeans
<1>3. CASE code = 354
  <2>1. server' = [server EXCEPT !.mode = "data", !.junk = FALSE]
    BY <1>0, <1>2, <1>3
  <2>2. Changed(cmd) /\ server'.mode = "data"
    <3>1. /\ server' \in Server /\ server'.rcpts = server.rcpts /\ server'.open = server.open
          /\ server'.tls = server.tls /\ server'.auth = server.auth /\ server'.mode = "data"
      <4>1. server \in Server
        BY <1>0
      <4> QED
        BY <2>1, <4>1 DEF Server
    <3>2. server.open \in Send
      BY <1>0, <1>1, <1>3 DEF ServerTypes
    <3> QED
      BY <3>1, <3>2 DEF Changed
  <2>3. Fits(cmd.verb, code) /\ code \in Codes
    BY <1>3, <2>2 DEF Fits, Codes, Hello, Credentials
  <2> QED
    BY <1>0, <1>1, <2>2, <2>3, CodeReplied DEF Effect, Delivers
<1>4. CASE code # 354
  <2>1. server' = server
    BY <1>0, <1>1, <1>2, <1>4
  <2>2. Changed(cmd)
    BY <1>0, <2>1, SameServerChanged
  <2>3. Fits(cmd.verb, code) /\ code \in Codes
    BY <1>1, <1>4 DEF Fits, Codes, Hello, Credentials
  <2> QED
    BY <1>0, <1>1, <2>2, <2>3, CodeReplied DEF Effect, Delivers
<1> QED
  BY <1>3, <1>4

LEMMA TextEffect ==
  ASSUME IInv, NEW cmd \in Command, cmd.verb = "TEXT" => cmd.of \in Send,
         cmd.verb # "TLS+EHLO", ServeText(cmd)
  PROVE  Effect(cmd)
<1>0. /\ replies \in Seq(Reply) /\ up' = up /\ up \in BOOLEAN /\ server.mode = "data"
  BY DEF IInv, Types, WireTypes, ServeText
<1>1. server \in Server /\ server.open \in Send
  BY <1>0 DEF IInv, Types, ServerTypes
<1>2. CASE cmd.verb = "TEXT"
  <2>1. PICK code \in {250, 554} : replies' = Append(replies, Code(code))
    BY <1>2 DEF ServeText, Answer
  <2>2. code \in Codes /\ Fits(cmd.verb, code)
    BY <1>2 DEF Codes, Fits, Hello, Credentials
  <2>3. Accepted <=> code \notin 400 .. 599
    BY <1>0, <2>1, <2>2, AcceptedMeans
  <2>4. Replied(cmd) /\ replies' # <<>> /\ replies'[Len(replies')].code = code
    BY <1>0, <2>1, <2>2, CodeReplied
  <2>5. server' = [Reset(server) EXCEPT !.mode = "command"]
    BY <1>2 DEF ServeText
  <2>6. /\ server' \in Server /\ server'.mode = "command" /\ server'.rcpts = {}
        /\ server'.tls = server.tls /\ server'.auth = server.auth
    BY <1>1, <2>5 DEF Reset, Server, Sender, Recipients
  <2>7. Changed(cmd)
    BY <2>6 DEF Changed
  <2>8. Delivers(cmd)
    <3>1. CASE code = 250
      <4> DEFINE d == [from |-> server.open, to |-> server.rcpts,
                       text |-> cmd.of, n |-> cmd.n, junk |-> server.junk]
      <4>1. Accepted
        BY <2>3, <3>1
      <4>2. delivered' = delivered \cup {d}
        BY <1>2, <4>1 DEF ServeText
      <4>3. d.from \in Send /\ d.text = cmd.of
        BY <1>1
      <4> HIDE DEF d
      <4> QED
        BY <1>2, <2>4, <3>1, <4>2, <4>3 DEF Delivers
    <3>2. CASE code # 250
      <4>1. ~Accepted
        BY <2>1, <2>3, <3>2
      <4> QED
        BY <1>2, <4>1 DEF ServeText, Delivers
    <3> QED
      BY <3>1, <3>2
  <2> QED
    BY <1>0, <2>4, <2>7, <2>8 DEF Effect
<1>3. CASE cmd.verb # "TEXT"
  <2>1. server' = [server EXCEPT !.junk = TRUE] /\ UNCHANGED <<replies, delivered>>
    BY <1>3 DEF ServeText
  <2>2. Replied(cmd)
    BY <1>0, <2>1, NotReplied
  <2>3. /\ server' \in Server /\ server'.open = server.open
        /\ server'.tls = server.tls /\ server'.auth = server.auth
    BY <1>1, <2>1 DEF Server
  <2>4. Changed(cmd)
    BY <1>1, <2>3 DEF Changed
  <2> QED
    BY <1>0, <2>1, <2>2, <2>4 DEF Effect, Delivers
<1> QED
  BY <1>2, <1>3

\* A command that is answered at once and leaves the server, but for its mode, as it was.
LEMMA PlainEffect ==
  ASSUME IInv, NEW cmd, cmd.verb # "TLS+EHLO", server.mode # "data", UNCHANGED <<up, delivered>>,
         \/ server' = server
         \/ server' = [server EXCEPT !.mode = "command"]
         \/ server' = [server EXCEPT !.mode = "tls"],
         NEW code \in Codes, replies' = Append(replies, Code(code)), Fits(cmd.verb, code)
  PROVE  Effect(cmd)
<1>0. replies \in Seq(Reply) /\ ServerTypes /\ up \in BOOLEAN
  BY DEF IInv, Types, WireTypes
<1>1. Changed(cmd)
  BY <1>0, SameServerChanged
<1> QED
  BY <1>0, <1>1, CodeReplied DEF Effect, Delivers

LEMMA ExchangeEffect ==
  ASSUME IInv, NEW cmd \in Command, cmd.verb # "TLS+EHLO", ServeExchange(cmd)
  PROVE  Effect(cmd)
<1>1. CASE cmd.verb = "RESPONSE"
  BY <1>1, AuthEffect DEF ServeExchange, Credentials
<1>2. CASE cmd.verb # "RESPONSE"
  <2>1. /\ replies' = Append(replies, Code(501)) /\ server' = [server EXCEPT !.mode = "command"]
        /\ UNCHANGED <<up, delivered>> /\ server.mode = "auth"
    BY <1>2 DEF ServeExchange
  <2>2. 501 \in Codes /\ Fits(cmd.verb, 501)
    BY DEF Codes, Fits
  <2> QED
    BY <2>1, <2>2, PlainEffect
<1> QED
  BY <1>1, <1>2

\* A server that hangs up.
LEMMA HangUpEffect ==
  ASSUME IInv, NEW cmd, cmd.verb # "TLS+EHLO", server.mode # "data",
         up' = FALSE, UNCHANGED <<replies, serverVars>>
  PROVE  Effect(cmd)
<1>0. replies \in Seq(Reply) /\ ServerTypes
  BY DEF IInv, Types, WireTypes
<1>1. UNCHANGED <<server, delivered>>
  BY DEF serverVars
<1> QED
  BY <1>0, <1>1, NotReplied, SameServerChanged DEF Effect, Delivers

LEMMA HandshakeEffect ==
  ASSUME IInv, NEW cmd \in Command, ServeHandshake(cmd)
  PROVE  Effect(cmd)
<1>1. CASE cmd.verb = "TLS+EHLO"
  <2>1. ServeHello("EHLO", NewServer(TRUE))
    BY <1>1 DEF ServeHandshake
  <2>2. /\ NewServer(TRUE) \in Server /\ NewServer(TRUE).tls /\ NewServer(TRUE).rcpts = {}
        /\ NewServer(TRUE).mode = "command"
    BY ServersAreTyped DEF IInv, Types
  <2> QED
    BY <1>1, <2>1, <2>2, HelloEffect DEF Hello
<1>2. CASE cmd.verb # "TLS+EHLO"
  BY <1>2, HangUpEffect DEF ServeHandshake
<1> QED
  BY <1>1, <1>2

\* A message's lines, taken for commands.
LEMMA StrayTextEffect ==
  ASSUME IInv, NEW cmd, cmd.verb = "TEXT", server.mode = "command",
         replies' = replies \o <<Code(500), Code(500)>>, UNCHANGED <<up, serverVars>>
  PROVE  Effect(cmd)
<1>0. replies \in Seq(Reply) /\ ServerTypes /\ up \in BOOLEAN /\ UNCHANGED <<server, delivered>>
  BY DEF IInv, Types, WireTypes, serverVars
<1>1. Code(500) \in Reply /\ Code(500).code = 500
  BY CodeIsReply DEF Codes
<1>2. Fits(cmd.verb, 500)
  BY DEF Fits, Hello, Credentials
<1>3. Replied(cmd)
  <2> DEFINE r == Code(500)
  <2>1. r \in Reply /\ replies' = replies \o <<r, r>>
    BY <1>1
  <2> HIDE DEF r
  <2>2. /\ replies' \in Seq(Reply) /\ Len(replies') = Len(replies) + 2 /\ Len(replies) \in Nat
        /\ \A i \in 1 .. Len(replies) : replies'[i] = replies[i]
        /\ \A i \in Len(replies) + 1 .. Len(replies') : replies'[i] = r
    BY <1>0, <2>1
  <2>3. r.code = 500
    BY <1>1 DEF r
  <2> QED
    BY <1>2, <2>2, <2>3 DEF Replied
<1>4. Changed(cmd)
  BY <1>0, SameServerChanged
<1> QED
  BY <1>0, <1>3, <1>4 DEF Effect, Delivers

LEMMA CommandEffect ==
  ASSUME IInv, NEW cmd \in Command, cmd.verb \in OfSend => cmd.of \in Send,
         cmd.verb # "TLS+EHLO", ServeCommand(cmd)
  PROVE  Effect(cmd)
<1>0. server.mode = "command" /\ server \in Server /\ (server.rcpts # {} => server.open \in Send)
  BY DEF IInv, Types, ServerTypes, ServeCommand
<1>1. CASE cmd.verb \in {"EHLO", "HELO"} /\ ServeHello(cmd.verb, server)
  BY <1>0, <1>1, HelloEffect DEF Hello
<1>2. CASE cmd.verb = "AUTH" /\ ServeAuth
  BY <1>0, <1>2, AuthEffect DEF Credentials
<1>3. CASE cmd.verb = "MAIL" /\ ServeMail(cmd)
  BY <1>0, <1>3, MailEffect DEF OfSend
<1>4. CASE cmd.verb = "RCPT" /\ ServeRcpt(cmd)
  BY <1>0, <1>4, RcptEffect DEF OfSend
<1>5. CASE cmd.verb = "DATA" /\ ServeData
  BY <1>0, <1>5, DataEffect
<1>6. CASE cmd.verb = "CONNECT" /\ Answer("CONNECT", 220, 554) /\ UNCHANGED <<up, serverVars>>
  <2>1. PICK code \in {220, 554} : replies' = Append(replies, Code(code))
    BY <1>6 DEF Answer
  <2>2. code \in Codes /\ Fits(cmd.verb, code)
    BY <1>6 DEF Codes, Fits, Hello, Credentials
  <2>3. server' = server /\ UNCHANGED <<up, delivered>>
    BY <1>6 DEF serverVars
  <2> QED
    BY <1>0, <2>1, <2>2, <2>3, PlainEffect
<1>7. CASE /\ cmd.verb = "STARTTLS" /\ Answer("STARTTLS", 220, 454)
           /\ server' = IF Accepted THEN [server EXCEPT !.mode = "tls"] ELSE server
           /\ UNCHANGED <<up, delivered>>
  <2>1. PICK code \in {220, 454} : replies' = Append(replies, Code(code))
    BY <1>7 DEF Answer
  <2>2. code \in Codes /\ replies \in Seq(Reply)
    BY DEF Codes, IInv, Types, WireTypes
  <2>3. Accepted <=> code \notin 400 .. 599
    BY <2>1, <2>2, AcceptedMeans
  <2>4. code = 220 => server' = [server EXCEPT !.mode = "tls"]
    BY <1>7, <2>3
  <2>5. code = 220 => server'.mode = "tls"
    BY <1>0, <2>4 DEF Server
  <2>6. Fits(cmd.verb, code)
    BY <1>7, <2>5 DEF Fits, Hello, Credentials
  <2> QED
    BY <1>0, <1>7, <2>1, <2>2, <2>6, PlainEffect
<1>8. CASE cmd.verb = "QUIT" /\ up' = FALSE /\ UNCHANGED <<replies, serverVars>>
  BY <1>0, <1>8, HangUpEffect
<1>9. CASE /\ cmd.verb \in {"TEXT", "RESPONSE"}
           /\ replies' = replies \o IF cmd.verb = "TEXT" THEN <<Code(500), Code(500)>>
                                    ELSE <<Code(500)>>
           /\ UNCHANGED <<up, serverVars>>
  <2>1. CASE cmd.verb = "TEXT"
    BY <1>0, <1>9, <2>1, StrayTextEffect
  <2>2. CASE cmd.verb = "RESPONSE"
    <3>1. replies \in Seq(Reply)
      BY DEF IInv, Types, WireTypes
    <3>2. replies' = replies \o <<Code(500)>>
      BY <1>9, <2>2
    <3>3. replies' = Append(replies, Code(500))
      <4>1. Code(500) \in Reply
        BY CodeIsReply DEF Codes
      <4> DEFINE r == Code(500)
      <4> HIDE DEF r
      <4>2. replies \o <<r>> = Append(replies, r)
        BY <3>1
      <4> QED
        BY <3>2, <4>2 DEF r
    <3>4. 500 \in Codes /\ Fits(cmd.verb, 500)
      BY <2>2 DEF Codes, Fits, Hello, Credentials
    <3>5. server' = server /\ UNCHANGED <<up, delivered>>
      BY <1>9 DEF serverVars
    <3> QED
      BY <1>0, <2>2, <3>3, <3>4, <3>5, PlainEffect
  <2> QED
    BY <1>9, <2>1, <2>2
<1> QED
  BY <1>1, <1>2, <1>3, <1>4, <1>5, <1>6, <1>7, <1>8, <1>9 DEF ServeCommand

LEMMA ServeKeepsIInv ==
  ASSUME IInv, Serve
  PROVE  IInv'
<1>0. /\ ClientTypes /\ WireTypes /\ ServerTypes /\ Stage /\ Secure /\ Expected
      /\ Handshake /\ CredentialsUnderTLS /\ Known /\ Texts /\ InStep
      /\ UNCHANGED <<session, pc, caller, connectionInfo, connected, result, connects, timeouts>>
      /\ up /\ commands # <<>> /\ commands' = Tail(commands)
  BY DEF IInv, Types, Wire, Serve, clientVars, actorVars
<1> DEFINE cmd == commands[1]
<1>1. /\ commands \in Seq(Command) /\ replies \in Seq(Reply) /\ cmd \in Command
      /\ cmd = Head(commands) /\ 1 \in 1 .. Len(commands)
      /\ Len(commands) \in Nat /\ Len(replies) \in Nat
  BY <1>0 DEF WireTypes
<1>2. /\ commands' \in Seq(Command) /\ Len(commands') = Len(commands) - 1
      /\ \A i \in 1 .. Len(commands') : i + 1 \in 1 .. Len(commands) /\ commands'[i] = commands[i + 1]
  BY <1>0, <1>1
<1>3. cmd.verb \in OfSend => cmd.of \in Send
  BY <1>0, <1>1 DEF WireTypes
<1>4. cmd.verb = "TLS+EHLO" => replies = <<>> /\ server.mode = "tls" /\ ~connected
  BY <1>0, <1>1 DEF Handshake
<1>5. Effect(cmd)
  <2>1. ServeText(cmd) \/ ServeCommand(cmd) \/ ServeExchange(cmd) \/ ServeHandshake(cmd)
    BY <1>1 DEF Serve
  <2> HIDE DEF cmd
  <2>2. CASE cmd.verb = "TLS+EHLO"
    <3>1. ServeHandshake(cmd)
      BY <1>4, <2>1, <2>2 DEF ServeText, ServeCommand, ServeExchange
    <3> QED
      BY <1>1, <3>1, HandshakeEffect
  <2>3. CASE cmd.verb # "TLS+EHLO"
    BY <1>1, <1>3, <2>1, <2>3, TextEffect, CommandEffect, ExchangeEffect, HandshakeEffect
       DEF OfSend
  <2> QED
    BY <2>2, <2>3
<1> HIDE DEF cmd
<1>6. /\ replies' \in Seq(Reply) /\ Len(replies) <= Len(replies')
      /\ Len(replies') <= Len(replies) + (IF cmd.verb = "TEXT" /\ server.mode # "data" THEN 2 ELSE 1)
      /\ \A i \in 1 .. Len(replies) : replies'[i] = replies[i]
      /\ \A i \in Len(replies) + 1 .. Len(replies') : Fits(cmd.verb, replies'[i].code)
      /\ Len(replies') \in Nat
  BY <1>5 DEF Effect, Replied
<1>7. /\ server' \in Server
      /\ server'.mode = "data" \/ server'.rcpts # {} => server'.open \in Send
      /\ server.tls => server'.tls
      /\ cmd.verb = "TLS+EHLO" => server'.tls
      /\ server.auth /\ cmd.verb # "TLS+EHLO" => server'.auth
      /\ up' \in BOOLEAN
  BY <1>5 DEF Effect, Changed
<1>8. Delivers(cmd)
  BY <1>5 DEF Effect
<1>9. \A i \in 1 .. Len(replies') :
        \/ i \in 1 .. Len(replies) /\ replies'[i] = replies[i]
        \/ Fits(cmd.verb, replies'[i].code)
  BY <1>1, <1>6
<1>10. Types'
  <2>1. ClientTypes'
    BY <1>0 DEF ClientTypes
  <2>2. WireTypes'
    <3>1. \A i \in 1 .. Len(commands') : commands'[i].verb \in OfSend => commands'[i].of \in Send
      BY <1>0, <1>2 DEF WireTypes
    <3> QED
      BY <1>0, <1>2, <1>6, <1>7, <3>1 DEF WireTypes
  <2>3. ServerTypes'
    <3>1. \A d \in delivered' : d.from \in Send /\ d.text \in Send
      BY <1>0, <1>3, <1>8 DEF ServerTypes, Delivers, OfSend
    <3> QED
      BY <1>7, <3>1 DEF ServerTypes
  <2> QED
    BY <2>1, <2>2, <2>3 DEF Types
<1>11. Stage'
  BY <1>0, <1>4, <1>7 DEF Stage
<1>12. Secure'
  <2>1. ~server.tls /\ caller.upgraded /\ pc \in Connecting => server'.tls
    BY <1>0, <1>7 DEF Secure, cmd
  <2> QED
    BY <1>0, <1>7, <2>1 DEF Secure
<1>13. ASSUME Len(commands) + Len(replies) <= 1
       PROVE  /\ Len(commands') = 0 /\ Len(replies) = 0
              /\ \A i \in 1 .. Len(replies') : Fits(cmd.verb, replies'[i].code)
              /\ cmd.verb # "TEXT" \/ server.mode = "data" => Len(replies') <= 1
  <2>1. Len(commands) >= 1
    BY <1>1
  <2>2. Len(commands) = 1 /\ Len(replies) = 0
    <3>1. Len(commands) \in Nat /\ Len(replies) \in Nat
      BY <1>1
    <3> DEFINE m == Len(commands)
               n == Len(replies)
    <3> HIDE DEF m, n
    <3>2. m \in Nat /\ n \in Nat /\ m >= 1 /\ m + n <= 1
      BY <1>13, <2>1, <3>1 DEF m, n
    <3>3. m = 1 /\ n = 0
      BY <3>2
    <3> QED
      BY <3>3 DEF m, n
  <2>3. Len(commands') = 0
    BY <1>2, <2>2
  <2>4. \A i \in 1 .. Len(replies') : i \in Len(replies) + 1 .. Len(replies')
    BY <1>6, <2>2
  <2>5. \A i \in 1 .. Len(replies') : Fits(cmd.verb, replies'[i].code)
    BY <1>6, <2>4
  <2>6. cmd.verb # "TEXT" \/ server.mode = "data" => Len(replies') <= 1
    BY <1>6, <2>2
  <2> QED
    BY <2>2, <2>3, <2>5, <2>6
<1>14. Expected'
  <2>1. ASSUME NEW verbs, NEW codes, One(verbs, codes), "TEXT" \notin verbs,
               \A verb \in verbs : \A code : Fits(verb, code) => code \in codes
        PROVE  /\ Len(commands') + Len(replies') <= 1
               /\ \A i \in 1 .. Len(commands') : commands'[i].verb \in verbs
               /\ \A i \in 1 .. Len(replies') : replies'[i].code \in codes
    <3>1. cmd.verb \in verbs
      BY <1>1, <2>1 DEF One, cmd
    <3>2. Len(commands') = 0 /\ Len(replies') <= 1
      BY <1>13, <2>1, <3>1 DEF One
    <3>3. \A i \in 1 .. Len(replies') : Fits(cmd.verb, replies'[i].code)
      BY <1>13, <2>1 DEF One
    <3> QED
      BY <1>6, <2>1, <3>1, <3>2, <3>3
  <2>2. ASSUME pc = "greeting"
        PROVE  One({"CONNECT"}, {220, 501, 554})'
    <3>1. One({"CONNECT"}, {220, 501, 554})
      BY <1>0, <2>2 DEF Expected
    <3>2. "TEXT" \notin {"CONNECT"}
      BY DEF Credentials
    <3>3. \A verb \in {"CONNECT"} : \A code : Fits(verb, code) => code \in {220, 501, 554}
      BY DEF Fits
    <3>4. /\ Len(commands') + Len(replies') <= 1
          /\ \A i \in 1 .. Len(commands') : commands'[i].verb \in {"CONNECT"}
          /\ \A i \in 1 .. Len(replies') : replies'[i].code \in {220, 501, 554}
      BY <2>1, <3>1, <3>2, <3>3
    <3> QED
      BY <3>4 DEF One
  <2>3. ASSUME pc = "ehlo"
        PROVE  One({"EHLO", "TLS+EHLO"}, {250, 501, 502})'
    <3>1. One({"EHLO", "TLS+EHLO"}, {250, 501, 502})
      BY <1>0, <2>3 DEF Expected
    <3>2. "TEXT" \notin {"EHLO", "TLS+EHLO"}
      BY DEF Credentials
    <3>3. \A verb \in {"EHLO", "TLS+EHLO"} : \A code : Fits(verb, code) => code \in {250, 501, 502}
      BY DEF Fits, Hello
    <3>4. /\ Len(commands') + Len(replies') <= 1
          /\ \A i \in 1 .. Len(commands') : commands'[i].verb \in {"EHLO", "TLS+EHLO"}
          /\ \A i \in 1 .. Len(replies') : replies'[i].code \in {250, 501, 502}
      BY <2>1, <3>1, <3>2, <3>3
    <3> QED
      BY <3>4 DEF One
  <2>4. ASSUME pc = "starttls"
        PROVE  One({"STARTTLS"}, {220, 454, 501})'
    <3>1. One({"STARTTLS"}, {220, 454, 501})
      BY <1>0, <2>4 DEF Expected
    <3>2. "TEXT" \notin {"STARTTLS"}
      BY DEF Credentials
    <3>3. \A verb \in {"STARTTLS"} : \A code : Fits(verb, code) => code \in {220, 454, 501}
      BY DEF Fits
    <3>4. /\ Len(commands') + Len(replies') <= 1
          /\ \A i \in 1 .. Len(commands') : commands'[i].verb \in {"STARTTLS"}
          /\ \A i \in 1 .. Len(replies') : replies'[i].code \in {220, 454, 501}
      BY <2>1, <3>1, <3>2, <3>3
    <3> QED
      BY <3>4 DEF One
  <2>5. ASSUME pc = "sasl"
        PROVE  One(Credentials, {235, 334, 500, 501, 535})'
    <3>1. One(Credentials, {235, 334, 500, 501, 535})
      BY <1>0, <2>5 DEF Expected
    <3>2. "TEXT" \notin Credentials
      BY DEF Credentials
    <3>3. \A verb \in Credentials : \A code : Fits(verb, code) => code \in {235, 334, 500, 501, 535}
      BY DEF Fits, Credentials
    <3>4. /\ Len(commands') + Len(replies') <= 1
          /\ \A i \in 1 .. Len(commands') : commands'[i].verb \in Credentials
          /\ \A i \in 1 .. Len(replies') : replies'[i].code \in {235, 334, 500, 501, 535}
      BY <2>1, <3>1, <3>2, <3>3
    <3> QED
      BY <3>4 DEF One
  <2>6. ASSUME pc = "starttls"
        PROVE  \A i \in 1 .. Len(replies') : replies'[i].code = 220 => server'.mode = "tls"
    <3>1. One({"STARTTLS"}, {220, 454, 501})
      BY <1>0, <2>6 DEF Expected
    <3>2. cmd.verb = "STARTTLS"
      BY <1>1, <3>1 DEF One, cmd
    <3>3. \A i \in 1 .. Len(replies') : Fits(cmd.verb, replies'[i].code)
      BY <1>13, <3>1 DEF One
    <3> QED
      BY <3>2, <3>3 DEF Fits
  <2>7. pc \in {"helo", "oauth", "oauthError"} =>
          /\ \A i \in 1 .. Len(commands') : commands'[i].verb \in Hello \cup Credentials
          /\ \A i \in 1 .. Len(replies') : replies'[i].code # 220
    <3>1. ASSUME pc \in {"helo", "oauth", "oauthError"}
          PROVE  cmd.verb \notin {"CONNECT", "STARTTLS"}
      BY <1>0, <1>1, <3>1 DEF Expected, Hello, Credentials, cmd
    <3>2. ASSUME pc \in {"helo", "oauth", "oauthError"}
          PROVE  \A i \in 1 .. Len(replies') : replies'[i].code # 220
      BY <1>0, <1>9, <3>1, <3>2 DEF Expected, Fits
    <3> QED
      BY <1>0, <1>2, <3>2 DEF Expected
  <2> QED
    BY <1>0, <2>2, <2>3, <2>4, <2>5, <2>6, <2>7 DEF Expected
<1>15. Handshake'
  <2>1. \A i \in 1 .. Len(commands') : commands'[i].verb # "TLS+EHLO"
    BY <1>0, <1>2 DEF Handshake
  <2> QED
    BY <2>1 DEF Handshake
<1>16. CredentialsUnderTLS'
  BY <1>0, <1>2, <1>7 DEF CredentialsUnderTLS
<1>17. Known'
  <2> SUFFICES ASSUME NEW i \in 1 .. Len(replies'), replies'[i].code = 235
               PROVE  server'.auth
    BY DEF Known
  <2>1. CASE i \in 1 .. Len(replies) /\ replies'[i] = replies[i]
    <3>1. server.auth
      BY <1>0, <2>1 DEF Known
    <3>2. replies # <<>>
      BY <2>1
    <3> QED
      BY <1>4, <1>7, <3>1, <3>2
  <2>2. CASE Fits(cmd.verb, replies'[i].code)
    BY <2>2 DEF Fits
  <2> QED
    BY <1>9, <2>1, <2>2
<1>18. Texts'
  <2>1. \A x : Begun(x) => result'[x] # "none" \/ (caller'.send = x /\ pc' \in {"message", "again"})
    BY <1>0 DEF Begun
  <2>2. \A i \in 1 .. Len(commands') : commands'[i].verb = "TEXT" => Begun(commands'[i].of)
    BY <1>0, <1>2 DEF Texts
  <2>3. \A d \in delivered' : Begun(d.text)
    BY <1>0, <1>1, <1>8 DEF Texts, Delivers, cmd
  <2> QED
    BY <2>1, <2>2, <2>3 DEF Texts, Begun
<1>19. InStep'
  <2> SUFFICES ASSUME Undisturbed' PROVE InStep'
    BY DEF InStep
  <2>1. Undisturbed
    BY <1>0 DEF Undisturbed
  <2>2. pc # "idle" /\ pc \in Connecting \cup Sending
    <3>1. pc # "idle"
      BY <1>0, <2>1 DEF InStep
    <3>2. pc # "crashed"
      BY <1>0, <2>1 DEF Stage, Undisturbed
    <3> QED
      BY <1>0, <3>1, <3>2 DEF ClientTypes
  <2>3. Len(commands) + Len(replies) <= 1
    BY <1>0, <2>1, <2>2 DEF InStep
  <2>4. cmd.verb = "TEXT" => server.mode = "data"
    BY <1>0, <1>1, <2>1 DEF InStep, cmd
  <2>5. /\ Len(commands') = 0 /\ Len(replies') <= 1 /\ replies = <<>>
        /\ \A i \in 1 .. Len(replies') : Fits(cmd.verb, replies'[i].code)
    BY <1>1, <1>13, <2>3, <2>4
  <2>6. \A i \in 1 .. Len(replies') : replies'[i].code = 354 => server'.mode = "data"
    BY <2>5 DEF Fits
  <2>7. ASSUME pc' = "message", NEW d \in delivered', d.text = caller'.send
        PROVE  replies' # <<>> /\ replies'[1].code = 250
    <3>1. d \notin delivered
      BY <1>0, <2>1, <2>5, <2>7 DEF InStep
    <3>2. replies' # <<>> /\ replies'[Len(replies')].code = 250
      BY <1>8, <3>1 DEF Delivers
    <3>3. Len(replies') = 1
      <4>1. Len(replies') \in Nat /\ Len(replies') <= 1
        BY <1>6, <2>5
      <4>2. Len(replies') # 0
        <5>1. replies' \in Seq(Reply)
          BY <1>6
        <5> QED
          BY <3>2, <5>1
      <4> DEFINE n == Len(replies')
      <4> HIDE DEF n
      <4>3. n \in Nat /\ n <= 1 /\ n # 0
        BY <4>1, <4>2 DEF n
      <4>4. n = 1
        BY <4>3
      <4> QED
        BY <4>4 DEF n
    <3> QED
      BY <3>2, <3>3
  <2>8. pc' # "idle" /\ Len(commands') + Len(replies') <= 1
    <3>1. pc' # "idle" /\ Len(commands') = 0 /\ Len(replies') <= 1 /\ Len(replies') \in Nat
      BY <1>0, <1>6, <2>2, <2>5
    <3> DEFINE m == Len(commands')
               n == Len(replies')
    <3> HIDE DEF m, n
    <3>2. m = 0 /\ n <= 1 /\ n \in Nat
      BY <3>1 DEF m, n
    <3>3. m + n <= 1
      BY <3>2
    <3> QED
      BY <3>1, <3>3 DEF m, n
  <2>9. \A i \in 1 .. Len(commands') :
          commands'[i].verb = "TEXT" => pc' = "message" /\ server'.mode = "data"
    <3>1. Len(commands') = 0
      BY <2>5
    <3> QED
      BY <3>1
  <2>10. pc' = "message" =>
           \A d \in delivered' : d.text = caller'.send => replies' # <<>> /\ replies'[1].code = 250
    BY <2>7
  <2> QED
    BY <2>6, <2>8, <2>9, <2>10 DEF InStep
<1> QED
  BY <1>10, <1>11, <1>12, <1>14, <1>15, <1>16, <1>17, <1>18, <1>19 DEF IInv, Wire

----------------------------------------------------------------------------
(***************************************************************************)
(* The invariant.                                                          *)
(***************************************************************************)
LEMMA InitImpliesIInv == Init => IInv
<1> SUFFICES ASSUME Init PROVE IInv
  OBVIOUS
<1>1. /\ session = [stream |-> FALSE, esmtp |-> FALSE, starttls |-> FALSE, size |-> FALSE,
                    max |-> 0, auth |-> "notChecked"]
      /\ pc = "idle" /\ caller = NoCaller
      /\ connectionInfo = FALSE /\ connected = FALSE
      /\ result = [s \in Send |-> "none"] /\ connects = 0
      /\ commands = <<>> /\ replies = <<>> /\ up = FALSE /\ timeouts = 0
      /\ server = NewServer(FALSE) /\ delivered = {}
  BY DEF Init
<1>2. ClientTypes
  <2>1. caller \in Caller /\ session \in Session
    BY <1>1, NoCallerIsCaller DEF Session
  <2>2. connects \in 0 .. MaxConnects
    BY <1>1, BoundsAssumption
  <2> QED
    BY <1>1, <2>1, <2>2 DEF ClientTypes
<1>3. WireTypes
  <2>1. commands \in Seq(Command) /\ replies \in Seq(Reply) /\ Len(commands) = 0
    BY <1>1
  <2>2. timeouts \in 0 .. MaxTimeouts
    BY <1>1, BoundsAssumption
  <2>3. \A i \in 1 .. Len(commands) : commands[i].verb \in OfSend => commands[i].of \in Send
    BY <2>1
  <2>4. up \in BOOLEAN
    BY <1>1
  <2> QED
    BY <2>1, <2>2, <2>3, <2>4 DEF WireTypes
<1>4. ServerTypes
  <2>1. server \in Server
    BY <1>1 DEF NewServer, Server, Sender, Recipients, Announced
  <2>2. server.mode # "data" /\ server.rcpts = {}
    BY <1>1 DEF NewServer
  <2> QED
    BY <1>1, <2>1, <2>2 DEF ServerTypes
<1>5. Stage /\ Secure /\ Expected
  BY <1>1 DEF Stage, Secure, Expected, Connecting, Authenticating, Sending
<1>6. Len(commands) = 0 /\ Len(replies) = 0
  BY <1>1
<1>7. Handshake /\ CredentialsUnderTLS /\ Known /\ Texts
  BY <1>1, <1>6 DEF Handshake, CredentialsUnderTLS, Known, Texts
<1>8. InStep
  BY <1>1 DEF InStep, Undisturbed
<1> QED
  BY <1>2, <1>3, <1>4, <1>5, <1>7, <1>8 DEF IInv, Types, Wire

LEMMA StutterKeepsIInv ==
  ASSUME IInv, UNCHANGED vars
  PROVE  IInv'
<1>0. UNCHANGED <<session, pc, caller, connectionInfo, connected, result, connects, commands,
                  replies, up, timeouts, server, delivered>>
  BY DEF vars, clientVars, actorVars, wire, serverVars
<1>1. Types'
  BY <1>0 DEF IInv, Types, ClientTypes, WireTypes, ServerTypes
<1>2. Stage' /\ Secure'
  BY <1>0 DEF IInv, Stage, Secure
<1>3. Expected'
  BY <1>0 DEF IInv, Expected, One
<1>4. Handshake' /\ CredentialsUnderTLS' /\ Known'
  BY <1>0 DEF IInv, Wire, Handshake, CredentialsUnderTLS, Known
<1>5. Texts'
  BY <1>0 DEF IInv, Wire, Texts, Begun
<1>6. InStep'
  BY <1>0 DEF IInv, Wire, InStep, Undisturbed
<1> QED
  BY <1>1, <1>2, <1>3, <1>4, <1>5, <1>6 DEF IInv, Wire

LEMMA NextKeepsIInv == IInv /\ [Next]_vars => IInv'
<1> SUFFICES ASSUME IInv, [Next]_vars PROVE IInv'
  OBVIOUS
<1>1. CASE \E security \in {"ssl", "startTLS"}, oauth2 \in BOOLEAN : beConnect(security, oauth2)
  BY <1>1, beConnectKeepsIInv
<1>2. CASE \E s \in Send, n \in 0 .. MaxRecipients, big \in BOOLEAN : beSend(s, n, big)
  BY <1>2, beSendKeepsIInv
<1>3. CASE beClose
  BY <1>3, beCloseKeepsIInv
<1>4. CASE BehaviourStep
  BY <1>4, GreetingKeepsIInv, EhloKeepsIInv, HeloKeepsIInv, StarttlsKeepsIInv, SaslKeepsIInv,
     OauthKeepsIInv, MailKeepsIInv, RcptKeepsIInv, DataKeepsIInv, MessageKeepsIInv
     DEF BehaviourStep
<1>5. CASE Serve
  BY <1>5, ServeKeepsIInv
<1>6. CASE Drop
  BY <1>6, DropKeepsIInv
<1>7. CASE UNCHANGED vars
  BY <1>7, StutterKeepsIInv
<1> QED
  BY <1>1, <1>2, <1>3, <1>4, <1>5, <1>6, <1>7 DEF Next

\* IInv is what every reachable state satisfies.
LEMMA Invariance == Spec => []IInv
<1>1. Init => IInv
  BY InitImpliesIInv
<1>2. IInv /\ [Next]_vars => IInv'
  BY NextKeepsIInv
<1> QED
  BY <1>1, <1>2, PTL DEF Spec

\* The variables of the session, of the actor, of the wire and of the server have their
\* types: above all, beSend never asks for a recipient it was not given.
THEOREM SmtpTypeCorrect == Spec => []TypeOK
<1>1. IInv => TypeOK
  <2>1. ASSUME IInv PROVE TypeOK
    <3>1. ClientTypes /\ WireTypes /\ ServerTypes
      BY <2>1 DEF IInv, Types
    <3>2. \A i \in 1 .. Len(replies) : replies[i] \in Reply
      BY <3>1 DEF WireTypes
    <3>3. /\ session \in [stream : BOOLEAN, esmtp : BOOLEAN, starttls : BOOLEAN, size : BOOLEAN,
                          max : 0 .. 1, auth : {"notChecked", "none", "usable"}]
          /\ caller \in [op : {"none", "connect", "send"}, security : {"ssl", "startTLS"},
                         oauth2 : BOOLEAN, upgraded : BOOLEAN, send : Send \cup {"none"},
                         n : 0 .. MaxRecipients, big : BOOLEAN, i : 0 .. MaxRecipients]
      BY <3>1 DEF ClientTypes, Session, Caller, Sender
    <3>4. pc \in {"idle", "crashed", "greeting", "ehlo", "helo", "starttls", "sasl", "oauth",
                  "oauthError", "mail", "rcpt", "data", "message", "again"}
      BY <3>1 DEF ClientTypes, Connecting, Authenticating, Sending
    <3>5. {connectionInfo, connected, up} \subseteq BOOLEAN
      BY <3>1 DEF ClientTypes, WireTypes
    <3>6. /\ result \in [Send -> {"none", "nil", "error", "tooBig"}]
          /\ connects \in 0 .. MaxConnects /\ timeouts \in 0 .. MaxTimeouts
          /\ \A d \in delivered : d.from \in Send /\ d.text \in Send
      BY <3>1 DEF ClientTypes, WireTypes, ServerTypes
    <3> QED
      BY <3>2, <3>3, <3>4, <3>5, <3>6 DEF TypeOK
  <2> QED
    BY <2>1
<1> QED
  BY <1>1, Invariance, PTL

\* beConnect calls back with nil only if the server has authenticated the client on this
\* connection, and the connection is encrypted: through late replies, failed handshakes and
\* earlier connections.
THEOREM ConnectedIsAlwaysAuthenticated == Spec => []ConnectedMeansAuthenticated
<1>1. IInv => ConnectedMeansAuthenticated
  BY DEF IInv, Stage, ConnectedMeansAuthenticated
<1> QED
  BY <1>1, Invariance, PTL

\* cmailsmtp_starttls_connect sends no credentials before the handshake, whatever the
\* server announces or refuses, and whatever comes late.
THEOREM CredentialsAreAlwaysUnderTLS == Spec => []CredentialsUnderTLS
<1>1. IInv => CredentialsUnderTLS
  BY DEF IInv, Wire
<1> QED
  BY <1>1, Invariance, PTL

\* For callers who look at what their last beConnect returned, beSend never issues a
\* command on a session without a stream.
THEOREM NeverCrashesForCallersWhoLook ==
  ASSUME CallersAsk = "result"
  PROVE  Spec => []NeverCrashes
<1>1. IInv => NeverCrashes
  BY DEF IInv, Stage, NeverCrashes
<1> QED
  BY <1>1, Invariance, PTL

----------------------------------------------------------------------------
(***************************************************************************)
(* A send that fails.                                                      *)
(***************************************************************************)

\* beSend returns an error before anything of its text is sent.
LEMMA NothingBegun ==
  ASSUME IInv, NEW s, result[s] = "none",
         caller.send # s \/ pc \notin {"message", "again"}
  PROVE  \A d \in delivered : d.text # s
BY DEF IInv, Wire, Texts, Begun

\* An error of beSend after its text was sent to an ESMTP server, while nothing is lost or
\* late, is the server's refusal of the text.
LEMMA FailedSendUndelivered ==
  ASSUME IInv, NEW reply, Received(reply), NEW error, SendReturns(error),
         UNCHANGED <<up, delivered>>, pc \in Sending, session.esmtp,
         pc = "message" /\ error # "nil" => reply.code # 250
  PROVE  FailsUndelivered
<1> SUFFICES ASSUME timeouts' = 0, up', NEW s \in Send, result'[s] # result[s],
                    result'[s] # "nil", NEW d \in delivered', d.text = s
             PROVE  FALSE
  BY DEF FailsUndelivered
<1>0. ClientTypes /\ Stage /\ InStep
  BY DEF IInv, Types, Wire
<1>1. s = caller.send /\ error # "nil" /\ result[s] = "none"
  BY <1>0 DEF SendReturns, Stage, ClientTypes
<1>2. pc = "message"
  <2>1. pc # "again"
    BY <1>0 DEF Stage
  <2>2. pc \in {"message", "again"}
    BY <1>1, NothingBegun
  <2> QED
    BY <2>1, <2>2
<1>3. Undisturbed
  BY <1>0 DEF Undisturbed, Received, Stage
<1>4. replies # <<>> /\ replies[1].code = 250
  BY <1>0, <1>1, <1>2, <1>3 DEF InStep
<1>5. reply.code = 250
  BY <1>4 DEF Received
<1> QED
  BY <1>1, <1>2, <1>5

\* Only beSend and the waits of a send change a result.
LEMMA SameResult ==
  ASSUME UNCHANGED result
  PROVE  FailsUndelivered
BY DEF FailsUndelivered

\* beSend (SMTP.swift) reports a failure on an ESMTP session, while nothing is lost or late,
\* only if the server has accepted nothing of this message: the caller may send it again.
THEOREM EsmtpErrorsAreAlwaysUndelivered == Spec => EsmtpErrorMeansNotDelivered
<1>1. ASSUME IInv, Next, session.esmtp
      PROVE  FailsUndelivered
  <2>0. WireTypes /\ ClientTypes
    BY <1>1 DEF IInv, Types
  <2>1. CASE \E security \in {"ssl", "startTLS"}, oauth2 \in BOOLEAN : beConnect(security, oauth2)
    BY <2>1, SameResult DEF beConnect
  <2>2. ASSUME NEW s \in Send, NEW n \in 0 .. MaxRecipients, NEW big \in BOOLEAN, beSend(s, n, big)
        PROVE  FailsUndelivered
    <3>1. pc = "idle" /\ result[s] = "none" /\ UNCHANGED delivered
      BY <2>2 DEF beSend, serverVars
    <3>2. \A d \in delivered : d.text # s
      BY <1>1, <3>1, NothingBegun
    <3>3. CASE UNCHANGED result
      BY <3>3, SameResult
    <3>4. CASE result' = [result EXCEPT ![s] = IF n = 0 THEN "error" ELSE "tooBig"]
      BY <2>0, <3>1, <3>2, <3>4 DEF FailsUndelivered, ClientTypes
    <3> QED
      BY <2>2, <3>3, <3>4 DEF beSend, SendIssues, actorVars
  <2>3. CASE beClose
    BY <2>3, SameResult DEF beClose
  <2>4. CASE Greeting \/ Ehlo \/ Helo \/ Starttls \/ Sasl \/ Oauth
    BY <2>4, SameResult
       DEF Greeting, Ehlo, Helo, Starttls, Sasl, Oauth, Initialised, Authenticate, ConnectReturns,
           Issue, actorVars
  <2>5. ASSUME Mail \/ Rcpt \/ Data \/ Message
        PROVE  FailsUndelivered
    <3>1. pc \in Sending /\ UNCHANGED <<up, delivered>>
      BY <2>5 DEF Mail, Rcpt, Data, Message, Waits, Sending, serverVars
    <3>2. PICK reply \in Reply :
            /\ Read(reply)
            /\ \/ UNCHANGED result
               \/ SendReturns("error") /\ (pc = "message" => reply.code # 250)
               \/ SendReturns("nil")
      BY <2>5 DEF Mail, Rcpt, Data, Message, Waits, NextRecipient, Issue, actorVars
    <3>3. Received(reply)
      BY <2>0, <3>2, ReadReceives
    <3>4. CASE SendReturns("error") /\ (pc = "message" => reply.code # 250)
      BY <1>1, <3>1, <3>3, <3>4, FailedSendUndelivered
    <3>5. CASE SendReturns("nil")
      BY <1>1, <3>1, <3>3, <3>5, FailedSendUndelivered
    <3> QED
      BY <3>2, <3>4, <3>5, SameResult
  <2>6. CASE Serve \/ Drop
    BY <2>6, SameResult DEF Serve, Drop, actorVars
  <2> QED
    BY <1>1, <2>1, <2>2, <2>3, <2>4, <2>5, <2>6 DEF Next, BehaviourStep
<1>2. IInv /\ [Next]_vars => [session.esmtp => FailsUndelivered]_vars
  BY <1>1
<1> QED
  BY <1>2, Invariance, PTL DEF Spec, EsmtpErrorMeansNotDelivered
=============================================================================
