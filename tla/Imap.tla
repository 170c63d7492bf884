-------------------------------- MODULE Imap --------------------------------
(***************************************************************************)
(* The IMAP actor (Sources/MailPacket/IMAP.swift), its bridge              *)
(* (libetpan/cmailpacket.c) and the session of libetpan it drives          *)
(* (libetpan/low-level/imap), against a server at the other end of a TLS   *)
(* connection.                                                             *)
(*                                                                         *)
(* As in Smtp, a behaviour runs to its end before the next one starts, an  *)
(* action is what happens between two waits, and a wait that times out     *)
(* leaves the connection open.  Here every command carries a tag, and the  *)
(* reply repeats it: a reply that comes late is recognised.  Not tagged    *)
(* are the continuation request of APPEND and AUTHENTICATE, the data that  *)
(* a server sends unasked, and the message itself, which a server takes    *)
(* from whatever bytes come next.                                          *)
(*                                                                         *)
(* The server is not in the repository.  It follows RFC 3501, answers the  *)
(* commands in order, and refuses what it likes.                           *)
(***************************************************************************)
EXTENDS Integers, Sequences, FiniteSetsExt

CONSTANTS
  Folder,          \* the server's folders
  Inbox,           \* the folder that beConnect opens
  MaxCalls,        \* bound: behaviours called
  MaxTimeouts,     \* bound: waits that end before a reply that does come
  CanDrop,         \* may the connection break?
  CanReportNews,   \* may the server send untagged data before it asks for a message?
  CanCutLiteral    \* may the connection be closed, not broken, inside a message?

ASSUME InboxAssumption == Inbox \in Folder
ASSUME ImapBoundsAssumption == {MaxCalls, MaxTimeouts} \subseteq Nat
ASSUME ImapFaultsAssumption == {CanDrop, CanReportNews, CanCutLiteral} \subseteq BOOLEAN

VARIABLES
  session,        \* imap_stream # NULL, imap_state and imap_tag of struct mailimap
  pc,             \* what the running behaviour waits for, or "idle"
  caller,         \* the arguments of the running behaviour
  connectionInfo, \* unsafeConnectionInfo # nil
  selected,       \* the folder of the last SELECT or EXAMINE that the client saw succeed
  returned,       \* what the last behaviour gave to its caller
  calls,          \* behaviours called so far
  commands,       \* sent by the client, not yet taken in by the server
  replies,        \* sent by the server, not yet read by the client
  up,             \* the connection is not broken
  timeouts,       \* how many waits ended too early
  server,         \* the server's side of the session
  served,         \* the tag of the last command the server has carried out
  stored          \* the messages the server has appended to its folders

actorVars == <<caller, connectionInfo, selected, returned>>
serverVars == <<server, served, stored>>
wire == <<commands, replies, up, timeouts>>
vars == <<session, pc, actorVars, calls, wire, serverVars>>

----------------------------------------------------------------------------
(***************************************************************************)
(* Values.                                                                 *)
(***************************************************************************)
State == {"disconnected", "nonauthenticated", "authenticated", "selected"}

\* A reply: one line, or all lines of a response up to the tagged one, with the
\* folder its data come from.
Reply == [kind : {"greeting", "continue", "untagged", "none"}, tag : {0},
          status : {"ok", "preauth", "bye"}, data : {"none"}]
         \cup [kind : {"tagged"}, tag : 1 .. 2 * MaxCalls, status : {"ok", "no", "bad"},
               data : Folder \cup {"none"}]
Line(kind, status) == [kind |-> kind, tag |-> 0, status |-> status, data |-> "none"]
Tagged(tag, status, data) ==
  [kind |-> "tagged", tag |-> tag, status |-> status, data |-> data]
NoReply == Line("none", "ok")

NewServer ==
  [auth |-> FALSE, selected |-> "none", mode |-> "command", tag |-> 0,
   folder |-> "none", junk |-> FALSE, swallowed |-> FALSE, cut |-> FALSE]
NoCaller == [op |-> "none", folder |-> "none", oauth2 |-> FALSE]
NothingReturned ==
  [op |-> "none", folder |-> "none", error |-> "nil", tag |-> 0, data |-> "none"]
Failed == [NothingReturned EXCEPT !.error = "error"]
\* beGetFolders cannot return an error: it returns an empty list.
NoFolders == [NothingReturned EXCEPT !.op = "list"]

Init ==
  /\ session = [stream |-> FALSE, state |-> "disconnected", tag |-> 0]
  /\ pc = "idle" /\ caller = NoCaller
  /\ connectionInfo = FALSE /\ selected = "none"
  /\ returned = NothingReturned
  /\ calls = 0
  /\ commands = <<>> /\ replies = <<>> /\ up = FALSE /\ timeouts = 0
  /\ server = NewServer /\ served = 0 /\ stored = {}

----------------------------------------------------------------------------
(***************************************************************************)
(* The client's end of the connection.                                     *)
(***************************************************************************)

\* A command under a new tag.  What is written to a broken connection is lost.
Issue(verb, folder, state, next) ==
  /\ session' = [session EXCEPT !.tag = @ + 1, !.state = state]
  /\ commands' = IF up THEN Append(commands, [verb |-> verb, tag |-> session.tag + 1,
                                              folder |-> folder])
                 ELSE commands
  /\ pc' = next

\* More of the command that was sent last: a message, or an empty line.
Continue(verb, next) ==
  /\ commands' = IF up THEN Append(commands, [verb |-> verb, tag |-> session.tag,
                                              folder |-> "none"])
                 ELSE commands
  /\ pc' = next
  /\ UNCHANGED session

\* Nothing comes: the connection is broken, the server has nothing left to answer,
\* or, in MaxTimeouts cases, it is only late.  When the connection was closed inside a
\* literal there is no end to the wait: mailimap_literal_parse_progress reads 0 bytes
\* more, again and again.  The mutant waits for ever.
NothingComesNever == FALSE /\ UNCHANGED timeouts
NothingComes ==
  /\ ~server.cut
  /\ IF commands = <<>> THEN UNCHANGED timeouts
     ELSE timeouts < MaxTimeouts /\ timeouts' = timeouts + 1

\* mailimap_read_line: the next line.
ReadLine(reply) ==
  \/ replies # <<>> /\ reply = Head(replies) /\ replies' = Tail(replies) /\ UNCHANGED timeouts
  \/ replies = <<>> /\ reply = NoReply /\ NothingComes /\ UNCHANGED replies

\* mailimap_read_line and mailimap_parse_response: the next tagged reply; the lines
\* before it are read with it.
ReadResponse(reply) ==
  LET tagged == {k \in 1 .. Len(replies) : replies[k].kind = "tagged"} IN
  \/ /\ tagged # {}
     /\ reply = replies[Min(tagged)]
     /\ replies' = SubSeq(replies, Min(tagged) + 1, Len(replies))
     /\ UNCHANGED timeouts
  \/ tagged = {} /\ reply = NoReply /\ NothingComes /\ replies' = <<>>

\* mailimap_parse_response: the tag must be that of the last command sent, and the
\* status not BAD.  The mutant takes any reply.
AnswersAnything(reply) == reply.kind = "tagged" /\ reply.status # "bad"
Answers(reply) == reply.kind = "tagged" /\ reply.tag = session.tag /\ reply.status # "bad"

Waits(state) == pc = state /\ UNCHANGED <<calls, serverVars>>

Returns(data) ==
  /\ pc' = "idle" /\ caller' = NoCaller
  /\ returned' = [op |-> caller.op, folder |-> caller.folder, error |-> "nil",
                  tag |-> session.tag, data |-> data]
  /\ UNCHANGED commands
Fails == pc' = "idle" /\ caller' = NoCaller /\ returned' = Failed /\ UNCHANGED commands

\* A behaviour that starts; its first command may only be sent in some states.
Calls(op, folder, oauth2) ==
  /\ pc = "idle" /\ calls < MaxCalls /\ calls' = calls + 1
  /\ caller' = [op |-> op, folder |-> folder, oauth2 |-> oauth2]
  /\ returned' = NothingReturned
  /\ UNCHANGED <<connectionInfo, selected, serverVars>>

\* A behaviour that returns without a command.
ReturnsAtOnce(result) ==
  /\ pc = "idle" /\ calls < MaxCalls /\ calls' = calls + 1
  /\ returned' = result
  /\ UNCHANGED <<session, pc, caller, connectionInfo, selected, wire, serverVars>>

Begins(op, folder, states, verb, refusal) ==
  IF session.state \in states
  THEN /\ Calls(op, folder, FALSE)
       /\ Issue(verb, folder, session.state, op)
       /\ UNCHANGED <<replies, up, timeouts>>
  ELSE ReturnsAtOnce(refusal)

----------------------------------------------------------------------------
(***************************************************************************)
(* beConnect and beClose.                                                  *)
(***************************************************************************)

\* mailimap_ssl_connect: the server may be out of reach.  A session that is not
\* disconnected keeps its stream, and the new one is lost.
beConnect(oauth2) ==
  \/ ReturnsAtOnce(Failed)
  \/ /\ session.state = "disconnected"
     /\ pc = "idle" /\ calls < MaxCalls /\ calls' = calls + 1
     /\ session' = [session EXCEPT !.stream = TRUE]
     /\ pc' = "greeting"
     /\ caller' = [op |-> "connect", folder |-> Inbox, oauth2 |-> oauth2]
     /\ returned' = NothingReturned
     /\ commands' = <<[verb |-> "CONNECT", tag |-> session.tag, folder |-> "none"]>>
     /\ replies' = <<>> /\ up' = TRUE
     /\ server' = NewServer
     /\ UNCHANGED <<connectionInfo, selected, timeouts, served, stored>>

\* A greeting that does not come, or says BYE, leaves the stream to the session.
\* After PREAUTH there is nothing to log in to: mailimap_login refuses.
Greeting ==
  /\ Waits("greeting") /\ UNCHANGED <<connectionInfo, selected, up>>
  /\ \E reply \in Reply :
       /\ ReadLine(reply)
       /\ \/ /\ reply.kind = "greeting" /\ reply.status = "ok"
             /\ Issue(IF caller.oauth2 THEN "AUTHENTICATE" ELSE "LOGIN", "none",
                      "nonauthenticated", IF caller.oauth2 THEN "oauth" ELSE "login")
             /\ UNCHANGED <<caller, returned>>
          \/ /\ reply.kind = "greeting" /\ reply.status = "preauth"
             /\ session' = [session EXCEPT !.state = "authenticated"]
             /\ Fails
          \/ /\ reply.kind # "greeting" \/ reply.status = "bye"
             /\ Fails
             /\ UNCHANGED session

\* mailimap_oauth2_authenticate: a continuation request carries the error, and an
\* empty line acknowledges it.
Oauth ==
  /\ Waits("oauth") /\ UNCHANGED <<actorVars, up>>
  /\ \E reply \in Reply :
       /\ reply.kind = "continue" /\ ReadLine(reply)
       /\ Continue("EMPTY", "login")

\* The reply to LOGIN or AUTHENTICATE.  After OK the connection info is set and
\* INBOX examined.  The mutant believes any status.
LoginBelieved ==
  /\ (Waits("login") \/ (Waits("oauth") /\ ~(replies # <<>> /\ Head(replies).kind = "continue")))
  /\ UNCHANGED <<selected, up>>
  /\ \E reply \in Reply :
       /\ ReadResponse(reply)
       /\ IF Answers(reply)
          THEN /\ Issue("EXAMINE", Inbox, "authenticated", "examine")
               /\ connectionInfo' = TRUE
               /\ UNCHANGED <<caller, returned>>
          ELSE Fails /\ UNCHANGED <<session, connectionInfo>>
Login ==
  /\ (Waits("login") \/ (Waits("oauth") /\ ~(replies # <<>> /\ Head(replies).kind = "continue")))
  /\ UNCHANGED <<selected, up>>
  /\ \E reply \in Reply :
       /\ ReadResponse(reply)
       /\ IF Answers(reply) /\ reply.status = "ok"
          THEN /\ Issue("EXAMINE", Inbox, "authenticated", "examine")
               /\ connectionInfo' = TRUE
               /\ UNCHANGED <<caller, returned>>
          ELSE Fails /\ UNCHANGED <<session, connectionInfo>>

\* mailimap_logout sends LOGOUT, if there is a stream to send it on.
beClose ==
  /\ Calls("close", "none", FALSE)
  /\ Issue("LOGOUT", "none", session.state, "logout")
  /\ UNCHANGED <<replies, up, timeouts>>

\* Whatever the reply, the stream is closed.
Logout ==
  /\ pc = "logout" /\ UNCHANGED <<connectionInfo, selected, calls, serverVars>>
  /\ \E reply \in Reply : ReadResponse(reply)
  /\ session' = [session EXCEPT !.stream = FALSE, !.state = "disconnected"]
  /\ pc' = "idle" /\ caller' = NoCaller
  /\ returned' = [NothingReturned EXCEPT !.op = "close"]
  /\ up' = FALSE /\ commands' = <<>>

----------------------------------------------------------------------------
(***************************************************************************)
(* Folders and messages.                                                   *)
(***************************************************************************)
LoggedIn == {"authenticated", "selected"}

beGetFolders == Begins("list", "none", LoggedIn, "LIST", NoFolders)
\* beSelect and beExamine: only the access to the folder differs.
beExamine(folder) == Begins("examine", folder, LoggedIn, "EXAMINE", Failed)
beSearch(folder) == Begins("searchExamine", folder, LoggedIn, "EXAMINE", Failed)
beAppend(folder) == Begins("append", folder, LoggedIn, "APPEND", Failed)

\* beHeaders and beDownload.  No messages asked for: nothing to do, whatever the
\* state of the session.
beFetch ==
  \/ ReturnsAtOnce([NothingReturned EXCEPT !.op = "fetchNone"])
  \/ Begins("fetch", selected, {"selected"}, "FETCH", Failed)

\* Whatever goes wrong with LIST makes an empty list.
List ==
  /\ Waits("list") /\ UNCHANGED <<session, connectionInfo, selected, up>>
  /\ \E reply \in Reply :
       /\ ReadResponse(reply)
       /\ \/ Answers(reply) /\ reply.status = "ok" /\ Returns("folders")
          \/ /\ ~(Answers(reply) /\ reply.status = "ok")
             /\ pc' = "idle" /\ caller' = NoCaller /\ returned' = NoFolders
             /\ UNCHANGED commands

\* The reply to SELECT or EXAMINE: OK and NO change the state, anything else leaves
\* it.  beSearch goes on with the search.
Examine ==
  /\ (Waits("examine") \/ Waits("searchExamine"))
  /\ UNCHANGED <<connectionInfo, up>>
  /\ \E reply \in Reply :
       /\ ReadResponse(reply)
       /\ IF Answers(reply) /\ reply.status = "ok"
          THEN /\ selected' = caller.folder
               /\ IF pc = "searchExamine"
                  THEN /\ Issue("SEARCH", "none", "selected", "search")
                       /\ UNCHANGED <<caller, returned>>
                  ELSE /\ Returns("none")
                       /\ session' = [session EXCEPT !.state = "selected"]
          ELSE /\ Fails
               /\ session' = [session EXCEPT !.state =
                                IF Answers(reply) THEN "authenticated" ELSE @]
               /\ UNCHANGED selected

\* The mutant tries a search again until it succeeds.
SearchRetries ==
  /\ Waits("search") /\ UNCHANGED <<connectionInfo, selected, up>>
  /\ \E reply \in Reply :
       /\ ReadResponse(reply)
       /\ IF Answers(reply) /\ reply.status = "ok"
          THEN Returns(reply.data) /\ UNCHANGED session
          ELSE Issue("SEARCH", "none", "selected", "search") /\ UNCHANGED <<caller, returned>>
Search ==
  /\ Waits("search") /\ UNCHANGED <<session, connectionInfo, selected, up>>
  /\ \E reply \in Reply :
       /\ ReadResponse(reply)
       /\ IF Answers(reply) /\ reply.status = "ok" THEN Returns(reply.data)
          ELSE Fails

\* beHeaders and beDownload: messages in the reply make it a success, whatever its
\* status is.
Fetch ==
  /\ Waits("fetch") /\ UNCHANGED <<session, connectionInfo, selected, up>>
  /\ \E reply \in Reply :
       /\ ReadResponse(reply)
       /\ IF Answers(reply) /\ (reply.status = "ok" \/ reply.data # "none")
          THEN Returns(reply.data) ELSE Fails

\* mailimap_append looks at one line for the continuation request.  Any other line
\* starts a response, which must end before the call does.
AppendLine ==
  /\ Waits("append") /\ UNCHANGED <<connectionInfo, selected, up>>
  /\ \E reply \in Reply :
       /\ ReadLine(reply)
       /\ \/ /\ reply.kind = "continue"
             /\ Continue("LITERAL", "appended") /\ UNCHANGED <<caller, returned>>
          \/ /\ reply.kind = "untagged"
             /\ pc' = "appendRefused" /\ UNCHANGED <<session, commands, caller, returned>>
          \/ /\ reply.kind \in {"tagged", "none"}
             /\ Fails /\ UNCHANGED session

AppendRefused ==
  /\ Waits("appendRefused") /\ UNCHANGED <<session, connectionInfo, selected, up>>
  /\ \E reply \in Reply : ReadResponse(reply)
  /\ Fails

\* The reply to the message.  The mutant does not look at its status.
AppendedUnseen ==
  /\ Waits("appended") /\ UNCHANGED <<session, connectionInfo, selected, up>>
  /\ \E reply \in Reply :
       ReadResponse(reply) /\ IF Answers(reply) THEN Returns("none") ELSE Fails
Appended ==
  /\ Waits("appended") /\ UNCHANGED <<session, connectionInfo, selected, up>>
  /\ \E reply \in Reply :
       /\ ReadResponse(reply)
       /\ IF Answers(reply) /\ reply.status = "ok" THEN Returns("none") ELSE Fails

----------------------------------------------------------------------------
(***************************************************************************)
(* The server: it takes in one command and answers it.                     *)
(***************************************************************************)
Answer(tag, status, data) == replies' = Append(replies, Tagged(tag, status, data))

\* OK, when the server carries the command out, or NO.
Simple(cmd) ==
  /\ \/ Answer(cmd.tag, "ok", "none") /\ served' = cmd.tag
     \/ Answer(cmd.tag, "no", "none") /\ UNCHANGED served
  /\ UNCHANGED <<server, stored>>

ServeLogin(cmd) ==
  \/ /\ Answer(cmd.tag, "ok", "none")
     /\ server' = [server EXCEPT !.auth = TRUE, !.mode = "command"]
     /\ served' = cmd.tag /\ UNCHANGED stored
  \/ /\ Answer(cmd.tag, "no", "none")
     /\ server' = [server EXCEPT !.mode = "command"] /\ UNCHANGED <<served, stored>>

\* A refused SELECT leaves no folder selected.
ServeExamine(cmd) ==
  \/ /\ Answer(cmd.tag, "ok", "none")
     /\ server' = [server EXCEPT !.selected = cmd.folder]
     /\ served' = cmd.tag /\ UNCHANGED stored
  \/ /\ Answer(cmd.tag, "no", "none")
     /\ server' = [server EXCEPT !.selected = "none"] /\ UNCHANGED <<served, stored>>

\* SEARCH and FETCH: data from the selected folder, some of it maybe before a NO.
ServeData(cmd) ==
  /\ IF server.selected = "none" THEN Answer(cmd.tag, "bad", "none") /\ UNCHANGED served
     ELSE \/ Answer(cmd.tag, "ok", server.selected) /\ served' = cmd.tag
          \/ Answer(cmd.tag, "no", "none") /\ UNCHANGED served
          \/ /\ cmd.verb = "FETCH"
             /\ Answer(cmd.tag, "no", server.selected) /\ served' = cmd.tag
  /\ UNCHANGED <<server, stored>>

\* APPEND: the server asks for the message, after news of the selected folder if it
\* has any.
ServeAppend(cmd) ==
  \/ /\ \/ replies' = Append(replies, Line("continue", "ok"))
        \/ /\ CanReportNews /\ server.selected # "none"
           /\ replies' = replies \o <<Line("untagged", "ok"), Line("continue", "ok")>>
     /\ server' = [server EXCEPT !.mode = "literal", !.tag = cmd.tag,
                                 !.folder = cmd.folder, !.junk = FALSE]
     /\ UNCHANGED <<served, stored>>
  \/ Answer(cmd.tag, "no", "none") /\ UNCHANGED serverVars

ServeCommand(cmd) ==
  /\ server.mode = "command"
  /\ \/ /\ cmd.verb = "CONNECT"
        /\ \E status \in {"ok", "preauth", "bye"} :
             /\ replies' = Append(replies, Line("greeting", status))
             /\ server' = [server EXCEPT !.auth = status = "preauth"]
        /\ UNCHANGED <<served, stored>>
     \/ cmd.verb \in {"LOGIN", "AUTHENTICATE"} /\ ServeLogin(cmd)
     \/ /\ cmd.verb = "AUTHENTICATE"
        /\ replies' = Append(replies, Line("continue", "ok"))
        /\ server' = [server EXCEPT !.mode = "authenticate"]
        /\ UNCHANGED <<served, stored>>
     \/ cmd.verb = "EXAMINE" /\ ServeExamine(cmd)
     \/ cmd.verb \in {"SEARCH", "FETCH"} /\ ServeData(cmd)
     \/ cmd.verb = "APPEND" /\ ServeAppend(cmd)
     \/ cmd.verb \in {"LIST", "LOGOUT"} /\ Simple(cmd)
     \/ \* a message nobody waits for: its lines are no commands
        /\ cmd.verb \in {"LITERAL", "EMPTY"}
        /\ replies' = Append(replies, Line("untagged", "ok"))
        /\ UNCHANGED serverVars

\* The server takes an empty line for the end of the exchange, which failed.
ServeAuthenticate(cmd) ==
  /\ server.mode = "authenticate"
  /\ Answer(cmd.tag, "no", "none")
  /\ server' = [server EXCEPT !.mode = "command"] /\ UNCHANGED <<served, stored>>

Stores(intact) ==
  stored' = stored \cup {[tag |-> server.tag, folder |-> server.folder, intact |-> intact]}

\* The server waits for the bytes of a message.  The message itself may come; any
\* other command is read as a part of it, and what exceeds it is no command.
ServeLiteral(cmd) ==
  /\ server.mode = "literal"
  /\ LET whole == cmd.verb = "LITERAL" /\ cmd.tag = server.tag /\ ~server.junk IN
     \/ /\ ~whole
        /\ server' = [server EXCEPT !.junk = TRUE, !.swallowed = TRUE]
        /\ UNCHANGED <<replies, served, stored>>
     \/ /\ server' = [server EXCEPT !.mode = "command", !.swallowed = @ \/ ~whole]
        /\ LET rest == IF whole THEN <<>> ELSE <<Line("untagged", "ok")>> IN
           \/ /\ replies' = Append(replies, Tagged(server.tag, "ok", "none")) \o rest
              /\ served' = server.tag /\ Stores(whole)
           \/ /\ replies' = Append(replies, Tagged(server.tag, "no", "none")) \o rest
              /\ UNCHANGED <<served, stored>>

Serve ==
  /\ up /\ commands # <<>>
  /\ commands' = Tail(commands)
  /\ LET cmd == Head(commands) IN
     ServeCommand(cmd) \/ ServeAuthenticate(cmd) \/ ServeLiteral(cmd)
  /\ UNCHANGED <<session, pc, actorVars, calls, up, timeouts>>

\* The last of these replies is the one to the running FETCH, and brings a message.
EndsWithMessage(received) ==
  /\ pc = "fetch" /\ received # <<>>
  /\ LET last == received[Len(received)] IN last.tag = session.tag /\ last.data # "none"

\* The connection breaks, or the server closes it in the middle of a message.
\* Commands on their way are lost, replies may be.
Drop ==
  /\ CanDrop /\ up
  /\ up' = FALSE /\ commands' = <<>>
  /\ \E n \in 0 .. Len(replies), cut \in {FALSE, CanCutLiteral} :
       LET received == SubSeq(replies, 1, n) IN
       /\ cut => EndsWithMessage(received)
       /\ replies' = IF cut THEN SubSeq(received, 1, n - 1) ELSE received
       /\ server' = [server EXCEPT !.cut = cut]
  /\ UNCHANGED <<session, pc, actorVars, calls, timeouts, served, stored>>

----------------------------------------------------------------------------
BehaviourStep ==
  \/ Greeting \/ Oauth \/ Login \/ Logout \/ List \/ Examine
  \/ Search \/ Fetch \/ AppendLine \/ AppendRefused \/ Appended

Next ==
  \/ \E oauth2 \in BOOLEAN : beConnect(oauth2)
  \/ beClose \/ beGetFolders \/ beFetch
  \/ \E folder \in Folder : beExamine(folder) \/ beSearch(folder) \/ beAppend(folder)
  \/ BehaviourStep \/ Serve \/ Drop

Spec == Init /\ [][Next]_vars

\* The server takes in what has arrived, and a wait ends: with a reply, or after
\* the network timeout, which every read of mailstream has.  (Not so inside a literal,
\* when CanCutLiteral.)
FairSpec == Spec /\ WF_vars(BehaviourStep) /\ WF_vars(Serve)

----------------------------------------------------------------------------
(***************************************************************************)
(* Properties.                                                             *)
(***************************************************************************)
TypeOK ==
  /\ session \in [stream : BOOLEAN, state : State, tag : 0 .. 2 * MaxCalls]
  /\ pc \in {"idle", "greeting", "oauth", "login", "logout", "list", "examine",
             "searchExamine", "search", "fetch", "append", "appendRefused", "appended"}
  /\ selected \in Folder \cup {"none"}
  /\ {connectionInfo, up} \subseteq BOOLEAN
  /\ calls \in 0 .. MaxCalls /\ timeouts \in 0 .. MaxTimeouts
  /\ \A i \in 1 .. Len(replies) : replies[i] \in Reply
  /\ served \in 0 .. 2 * MaxCalls

\* A behaviour returns nil only when the server has carried out the very command
\* it was for: no late reply passes for the answer to another command.  Three results
\* say nothing about the server: the end of beClose, messages of which none were
\* asked for, and an empty list of folders, which may be a LIST that failed.
SaysNothing(result) ==
  result.op \in {"none", "close", "fetchNone"} \/ (result.op = "list" /\ result.data = "none")
NilIsThisCommand ==
  returned.error = "nil" /\ ~SaysNothing(returned) => returned.tag = served

\* What a search finds is in the folder that was asked for, and what a fetch brings
\* is in the folder that the client saw selected last.
DataFromFolder ==
  returned.error = "nil" /\ returned.data \notin {"none", "folders"} =>
    returned.data = returned.folder

\* The same as long as the server has not swallowed a command for a message.
DataFromFolderInStep == ~server.swallowed => DataFromFolder

\* beAppend returns nil only when the message is in the folder, whole.
AppendedMeansStored ==
  returned.op = "append" /\ returned.error = "nil" =>
    [tag |-> returned.tag, folder |-> returned.folder, intact |-> TRUE] \in stored

\* The session takes itself for logged in only on a connection where it is.
LoggedInMeansAuthenticated == session.state \in LoggedIn => server.auth

\* Every behaviour returns to its caller, with a result or an error.
EveryBehaviourReturns == pc # "idle" ~> pc = "idle"
=============================================================================
