# A TLA+ model of MailPacket

MailPacket is a small Swift package of Flynn actors for mail: `Gmail` (the REST
API), `IMAP` and `SMTP` (actors over the C library libetpan, which the package
carries as source), and `EML` (building RFC 5322 text).  This directory models
the parts that hold the package's own logic, and the parts of libetpan that
decide whether that logic works, in TLA+.  TLC checks the models on small
instances and TLAPS proves the theorems listed under "What is proved".

## 1. Inventory of the system

| component | source (under `src/Sources/`) | state it keeps | operations |
|---|---|---|---|
| Gmail download pool | `MailPacket/Gmail.swift` 95-247 | request queue, free and active downloaders, each downloader's `lastPerformDate`, access token and its expiry | `scheduleRequest`, `nextRequest`, the 0.01 s timer, `refreshToken`, `_bePerform` |
| Gmail operations | `MailPacket/Gmail.swift` 249-509 | per call: a search's accumulated ids and page token; a batch's `DispatchGroup`, `anyError` and results; `unsafeConnectionInfo` | `_beConnect`, `_beSearch`, `_beHeaders`, `_beDownload`, `_beClose` |
| SMTP actor | `MailPacket/SMTP.swift` 116-237 | the C handle, `unsafeConnectionInfo` | `_beConnect`, `_beSend`, `_beClose` |
| SMTP bridge | `libetpan/cmailpacket.c` 341-447 | none | connect with TLS or STARTTLS, auth, send, quit |
| SMTP session | `libetpan/low-level/smtp/*.c` | stream, `esmtp` and `auth` flags, `smtp_max_msg_size`, last response | greeting, EHLO/HELO, STARTTLS, AUTH, MAIL, RCPT, DATA, message, RSET, QUIT |
| IMAP actor | `MailPacket/IMAP.swift` 104-384 | the C handle, `unsafeConnectionInfo`, `hasGmailExtension` | connect, folders, select, examine, search, headers, download, append, close |
| IMAP bridge | `libetpan/cmailpacket.c` 16-340 | none | the same, one libetpan call after another |
| IMAP session | `libetpan/low-level/imap/*.c` | stream, state, tag, selection, capabilities | connect, login, LIST, SELECT/EXAMINE, SEARCH, FETCH, APPEND, LOGOUT |
| EML builder | `MailPacket/EML.swift` | none (pure) | sanitising, folding, encoded words, body encoding, boundary choice, recipients |
| stream | `libetpan/data-types/mailstream.c`, `mailstream_ssl.c` | write buffer, read buffer | `mailstream_write`, `mailstream_flush`, `mailstream_read`, `mailstream_read_line_append` over a low layer |
| stream helpers | `libetpan/data-types/mailstream_helper.c` | none | cutting a text into lines, line ends, dot stuffing, literal sizes, reading a line |
| error tables | `MailPacket/CError.swift` | none | names of C error codes |
| Flynn, Picaroon, Hitch, Sextant | not in the repository | | actors, HTTP sessions, JSON: external, modelled from their use |

Interaction.  A user calls a *behaviour* (`beSearch(...)`), which becomes a
message in the actor's mailbox; an actor handles one message at a time, so every
handler is atomic with respect to its own actor and interleaves with everything
else.  Gmail's handlers put closures in the request queue; `nextRequest` pairs
one with a free `GmailDownloader` (an actor with a thread of its own), which
obtains an HTTP session and performs the closure; the HTTP reply comes back as a
message to Gmail, whose handler ends with `finishedCallback`, again a message.
IMAP and SMTP behaviours are blocking: one handler runs a whole C call sequence
against the server, and the interleaving is that of the connection's two ends
and of different callers' behaviours.

What is hard.  (1) Gmail: handlers of one call interleave with those of others
while requests wait for tokens, sessions and replies; pool lists and in-flight
work must agree; a date is read from another thread; errors of one request meet
the results of the rest.  (2) SMTP: the client is a strict request/reply
automaton over a session whose server keeps a transaction and an authentication
of its own; a step that fails leaves the server in a state the next behaviour
must cope with.  (3) IMAP: connection state, selection and literal handshakes,
with untagged data at any moment.  (4) The way of a message: line ends, dots, sizes
and lengths at their boundaries, through two buffers and a network that takes what it
likes, fails half-way, and is used again.

`PROJECT.json` lists each hazard at its line and the properties that watch it, or why none does: for some the code
promises nothing that could be checked (how a failed search leaves the folder, how many of the messages asked
for a fetch brings), for others the model leaves out what would show it (which caller meant a folder, the rest of a line cut by a time-out).

What makes each component correct:

- *download pool*: no downloader leaks or is used twice; a request is in one
  place and never dropped; the speed limit holds where the request is made, not
  only where it was checked; a request does not go out on a token known to be
  dead; every request is answered.
- *Gmail operations*: each call returns once, after its last request; a nil
  error means that everything asked for is there.
- *SMTP*: a nil error means delivered, whole, to exactly these recipients; an
  error with nothing lost or late means not delivered; a nil connect means an
  authenticated, encrypted session; credentials never go in clear; no stream is
  used after it is closed; every behaviour returns.
- *IMAP*: a nil error of a behaviour that sends its command is the server's answer to
  this very command (`beGetFolders` has no error to return: its empty list may be a
  failed LIST; a fetch of no messages returns nil and sends nothing); data come
  from the folder the caller thinks of; an appended message is stored whole; a
  session that takes itself for logged in is.
- *stream*: what a write has vouched for reaches the network once and in order, across
  short and failing low-level writes; a line read is a line sent.
- *SMTP and IMAP actors, EML, stream helpers*: what is encoded can be decoded, within the
  line lengths of the RFCs; line ends are those of the wire, and a text has no empty line
  more at its end; the size announced is the number of bytes sent; no text ends before the
  message does.

## 2. Modules

| module | models | proofs |
|---|---|---|
| `GmailPool` | the download pool | `GmailPoolProofs` |
| `RequestService` | what the pool promises to its callers (abstract) | |
| `GmailPoolService` | the refinement mapping from `GmailPool` to `RequestService` | `GmailPoolProofs` |
| `Gmail` | the operations, EXTENDS `GmailPool` (composition) | `GmailProofs` |
| `Smtp` | actor, bridge and session of SMTP, and a server | `SmtpProofs`, `SmtpEnvelopeProofs` |
| `Imap` | actor, bridge and session of IMAP, and a server | `ImapProofs` |
| `Cuts` | a sequence cut in two (`Take`, `Drop`) | `EmlProofs` |
| `MailStream` | the buffered stream: writes, flushes, reads | `DeliveryProofs` |
| `DataText` | the text of a message as it is sent, and as a server reads it (pure) | `EmlProofs` |
| `Eml` | bodies and headers of a composed message (pure), EXTENDS `DataText` | `EmlProofs` |
| `Composer` | a message from its fields: header, parts, boundary, recipients, EXTENDS `Eml` | `ComposerProofs` |
| `Delivery` | a text is composed, its line ends are set right by `_beSend` or `_beAppend`, it is sent through a stream, and answered: EXTENDS `MailStream` and `Eml` (composition) | `DeliveryProofs` |
| `MCGmailPool`, `MCGmail`, `MCSmtp`, `MCImap`, `MCDelivery`, `MCComposer` | values for TLC | |

`Smtp` and `Imap` take for granted that a command and a text arrive as they were sent, or
not at all: `Delivery` is about that.  The order in which the modules were written is by
weight: the pool, where all of MailPacket's own concurrency is; the two protocol sessions;
the way of a message.  No module declares a RECURSIVE operator.

## 3. How the models correspond to the code

### GmailPool

An actor handles one message at a time, so **one message handler is one action**.

| action | code |
|---|---|
| `Connect` | `_beConnect`: token, `tokenExpiry = now`, new downloaders, the profile request scheduled |
| `Schedule` | `scheduleRequest`, called once or several times by one handler |
| `TimerFires` | the `Flynn.Timer` handler that calls `nextRequest` |
| `NextRequests` | `nextRequest` until a guard fails: its calls by one handler, in a row |
| `RefreshReply` | the callback of the token request, good or bad, with what follows in `nextRequest` |
| `SessionGranted` | `_bePerform` on the downloader's thread, once it has a session |
| `HttpReply` | the handler of the reply; the closure may schedule further requests |
| `DownloaderFinished` | `finishedCallback`: from active to free, `nextRequest` |
| `Tick` | time |

`requestQueue`, `freeDownloaders` and `activeDownloaders` are the arrays of the
code; `stage` and `job` are the closures in flight (who holds a downloader that is
in neither list).  Dates are kept relative and saturate where the code cannot
tell two values apart (`timeSpent` at the speed limit, `tokenExpiry` at minus the
window), so time needs no bound.

### Gmail

`call[c]` is what the closures of one behaviour capture: the `DispatchGroup`
(`entered`), `anyError`, the results.  `HandleReply` is the pool's `HttpReply`
together with the closure of the request: the two run in one message.  `Notified`
is the group's `notify`, which comes later.  A reply is any combination of an error
and a body (none, good, without "raw", not decodable); a search page any list of
ids with or without a next page.

### Smtp and Imap

A behaviour of these actors blocks its thread until it returns, so behaviours do
not interleave: **an action is what happens between two waits for the network**,
across Swift, bridge and libetpan.  The name of the action is the command whose
reply it reads.  A wait ends with the next reply, or with none: the connection is
broken, or `mailstream_network_delay` has passed (300 s by default).  A time-out does not
close the stream, so the reply that comes later meets a later command.  This is
the main source of interesting behaviours, and no test of the repository reaches it.

The server is not in the repository: it is the most general one that follows
RFC 5321/4954 or RFC 3501 as far as the client's fate depends on it (it refuses
what it likes, answers in order, keeps a transaction, an authentication, a selected
folder, a literal it waits for).  `ServeHello`, `ServeMail`, ... are marked external
in `PROJECT.json`.

SMTP: reply codes are represented by one member of each class that the code
distinguishes.  `beSend(s, n, big)` is a send to `n` recipients, `big` if it exceeds the
server's limit.  A `crashed` program counter is the null stream dereferenced.
IMAP: tags are numbers; `Answers` is libetpan's comparison of a reply's tag with
`imap_tag`.  `ReadLine` reads one line (greeting, AUTHENTICATE, first line of APPEND),
`ReadResponse` everything up to a tagged line.  `Drop` ends the connection anywhere, with
`CanCutLiteral` also inside the literal that carries a fetched message (`server.cut`).  beSelect and beExamine are one action,
as are beHeaders and beDownload: they differ only in data that no property
distinguishes.  `ReturnsAtOnce` is a behaviour that sends nothing: a command in the wrong state,
which is an error, or a `beFetch` of no messages, which is nil in any state.  `_beGetFolders` can only
return a list: whatever goes wrong with it, `beGetFolders` and `List` return an empty one
(`NoFolders`).  `served` and `stored` are history variables of the server.

### MailStream

A call of `mailstream.c` is a sequence of calls of the low layer, so **an action is one
low-level read or write**, or the start of a call that needs one (`op` is the call that
runs).

| action | code |
|---|---|
| `Write` | `mailstream_write`: into the buffer, or first a flush to make room, or past the buffer |
| `Flush`, `FlushSome`, `FlushLast`, `FlushFails` | `mailstream_flush` and the flush inside a write; `move_buffer` keeps the rest |
| `DirectSome`, `DirectLast`, `DirectFails` | `write_direct`, whose short count is its result |
| `ReadLine`, `Feed`, `LineEnds`, `FeedEnds`, `FeedFails` | `mailstream_read_line_append` and the reads behind it |
| `Arrive`, `PeerCloses` | the other end |

A timeout and a broken connection are both a low-level result of -1; a low-level write of 0
bytes is tried again.  `taken` is a history variable: the bytes that the results of the calls
vouch for.

### DataText, Eml, Composer and Delivery

`DataWrites(text, quoted)` is the sequence of calls of `mailstream_write` that
`send_data_crlf_progress` makes; `DataCrlfSize` is the other loop, that counts for the literal's size.
`Canonical`, `TextEnds` and `TextReceived` are not the code's: they say what the text means
(RFC 5321, 4.5.2), and the properties compare the two.  In the same way `Encode`, `Fold`,
`EncodedWord`, `FormatAddress` translate `EML.swift`, and `ReadHeader`, `Unquoted` undo them as a
reader does by RFC 5322 and RFC 2047.  Characters are numbers; a character has a length in UTF-8,
and base64 keeps only lengths.  Header pieces carry the columns they take up, with "\r\n" one
`Character`, as in Swift, whose `count` the code takes.

`Composer` has the struct `EML` as its state.  `Make` is `EML.init`, with names, subject and bodies cut from a
typed text and no, one or two addresses in a field; `AssignHtml` sets the variable `html`; `CallEml` is one call
of `eml()`, as pure functions: `HeaderLines`, `Single`, `Multipart`.  `Usable` is what its `while` loop may end with: the
struct's boundary, or one drawn that is in neither encoded part.  Its reader (`HeaderRead`, `AddressesRead`, `PartsRead`) takes
header, addresses and parts to pieces by RFC 5322, 2047 and 2046 and knows nothing of how they were made.

`Delivery` types a text and composes it, or takes it for a message itself: that is `eml`, what the caller
gives.  `Converted` is what `_beSend` or `_beAppend` does to it: both make every line end CRLF
(`Normalized`, the same two replacements as in `EML`), and `_beSend` takes all CRLFs off the end (`Stripped`),
since `mailstream_send_data` ends the text with one of its own; that is `message`.  It is sent quoted (SMTP) or as a
literal (IMAP) by the writes of `DataText` through the stream; the sender goes on with other commands on the same
stream when that failed, and reads a reply of one or more lines when it did not.

## 4. Runs

`tlc -config X.cfg M` in this directory; all of `PROJECT.json`'s runs end within minutes.

| run | cfg | question | shows |
|---|---|---|---|
| `gmail_pool` | `GmailPool` | is the pool sound, live and a request service? | accounting, speed limit, no lost request, safe skipping of a refresh, every request answered, refinement of `RequestService` |
| `gmail_calls` | `GmailCalls` | what do interleaved calls return, whatever the replies? do they all return, and use the pool as `GmailPool` assumes? | each returns once; a nil error means complete; searches are exact; groups agree with the pool; liveness; `GmailSpec` implements `GmailPool!Spec` |
| `smtp_sessions` | `SmtpSessions` | what does a result of SMTP promise over a bad network and server, and can late replies mix up sends? | the eight properties of the actor, if the server refuses MAIL inside a transaction |
| `imap_sessions` | `ImapSessions` | does a nil error of IMAP belong to the command that was sent, and does every behaviour return? | yes, also when both ends wait for each other; data come from the folder as long as no command was swallowed |
| `delivery` | `Delivery` | does a message get through composer, actor, helpers and stream as it was written? | the properties below `Delivery`'s and `MailStream`'s rulers but `WordsFit` (the run `delivery_words`), and that `Delivery` uses its stream as `StreamSpec` allows |
| `composer` | `Composer` | does a reader get back the fields, addresses and parts that the caller set? | yes, for every name, subject and body made of a short text; the envelope has whom the header shows, and Bcc is nowhere |
| `gmail_errors`, `smtp_helo`, `smtp_no_stream`, `imap_folder`, `imap_literal`, `delivery_words` | | see "Findings" | a counterexample each |

### Bounds, and why they are enough

- `GmailPool`: 3 requests, 2 downloaders, batches of 2.  Two downloaders are needed
  to have one limited and one not at the head of the list, and to have one in a
  token request while another performs; three requests let a queue of two build up
  behind one in flight.  The speed limit is 1 tick (limited or not is all that the
  code asks), the window 2 and the token's life 3 ticks: before, inside and long
  after the window are all reached.  The replies of a search schedule further
  requests (`MaxBatch`).  Proofs cover all other values.
- `Gmail`: 2 calls of 2 items each, so that the first and a later error meet in both orders, within a call and
  between two; page lists with an id once and twice.  The proofs cover any number of calls, items and messages.
- `Smtp`: 2 recipients separate "one refused" from "all refused" and "first" from
  "last"; 2 connects let a session be used again after an error.  Shifted replies
  cost one time-out each: to get from MAIL to a misread acceptance takes at most
  four (MAIL, RCPT, DATA, text), which is what the run allows.  Two sends meet what a first one has left: an open
  transaction, replies still to come.  What it takes more of them to reach (see the second observation below) is
  left to the proofs, which hold for any number of sends and late replies.
- `Imap`: four calls and two time-outs in `imap_sessions` (connect, two commands that
  are mixed up, and one that meets the result); two time-outs shift the replies by two
  commands.  The one known way back into step takes five calls (`imap_folder`).
- `Delivery`: the widths of the code keep their order and are scaled down: fold 78 to 8, bytes of
  an encoded word 45 to 3, its overhead 12 to 2, line limit 998 to 2, base64 line 76 to 2, buffer 8192 to
  6.  Characters are one of each class that the code tells apart: CR, LF, dot, space, quote,
  backslash, a letter, one of two bytes, one of more bytes than an encoded word is counted to hold.  The limit of 75
  characters for a word becomes `WordLimit` = 7, between a word of 3 bytes (2 + 4 characters; in the code 12 + 60) and
  one of 4 (2 + 8).  All texts of up to four of
  them are composed and all headers of that length folded under a short and a long name; all texts up
  to three, and a line longer than the buffer, are sent with every way of the network to cut or
  fail the writes, and one command after a failure.  Among them are messages that end in none, one, two or three line
  ends of either kind, and messages of nothing else.  The buffer is shorter than a message, so that
  writes meet it empty, full and in between.
- `Composer`: texts of three characters of eight classes (line end, space, comma, quote, backslash, hyphen, a letter, one of two
  bytes), cut in every place, are enough for a name with a comma between quotes, for a body whose line is two
  hyphens and a boundary, and for one that has to be encoded next to one that has not.  Of the three
  boundaries a text can contain one, so that the first draw can fail in either part.

`CHECK_DEADLOCK FALSE` is set where a run ends by its bounds: calls of Gmail are made
once each, IMAP behaviours `MaxCalls` times, and in the pool a request may never be
scheduled, and a delivery ends.  The other runs check deadlock: `beClose` of SMTP, and
`eml()`, are always possible.

### Fairness

- `GmailPool` and `Gmail`: weak fairness of the timer (a repeating `Flynn.Timer`), of
  each downloader's next step (Flynn schedules every actor that has a message), of
  the replies (an HTTP session answers or fails: both are a reply) and of time.  None
  of `Connect` or `Schedule`: callers call when they like.  The limits of this: a
  session pool that never grants a session would break it; Picaroon is external.
- `Smtp` and `Imap`: weak fairness of `BehaviourStep` (the thread that runs a behaviour
  goes on when its wait ends, and it ends at the latest with the time-out of
  `mailstream`) and of `Serve` (what has arrived is taken in).  Breaks of the connection
  are not fair, and time-outs are not needed for progress: when the server has nothing
  left to say, the wait ends with no reply.  There is one exception, inside an IMAP
  literal: see finding 5.
- `MailStream` and `Delivery` have no liveness property: a low layer that takes nothing for ever
  and never times out is for them just another network.

## 5. What is proved

`GmailPoolProofs`, checked by TLAPS, holds for every set of requests, number of
downloaders, batch size, set of speed limits and token times:

| theorem | statement |
|---|---|
| `TypeCorrect` | `Spec => []TypeOK` |
| `DownloadersAlwaysAccounted` | `Spec => []DownloadersAccounted` |
| `RequestsAlwaysAccounted` | `Spec => []RequestsAccounted` |
| `SpeedLimitAlwaysKept` | `Spec => SpeedLimitKept` |
| `NoRequestEverLost` | `Spec => NoRequestLost` |
| `SkippedRefreshAlwaysSafe` | `Spec => SkippedRefreshIsSafe` |

*Assumptions*: the named ASSUMEs of `GmailPool`.  `NoRequest` is no request, the bounds
and limits are naturals, a handler may schedule one request, a token lives longer than the refresh window, and its reply is
on its way for less than the window (5 minutes in the code).  The last one is needed:
the client counts `expires_in` from the arrival of the reply.

*Argument*.  The checked invariants are not inductive one by one: that a downloader
returned by `finishedCallback` is not yet in the free list follows from its stage, and
the stage from its job.  `IInv` is

- `StructureInv`: the queue, the two lists, the stages and the jobs agree (it is the type
  invariant, `DownloadersAccounted` and `RequestsAccounted` together, `StructureIsAccounting`),
- `LimitPassed`: a downloader waiting for a token or a session is not speed limited.  The
  code checks the limit when it takes the downloader off the free list and never again;
  this holds because nothing but its own request sets its date,
- `TokenBelief`: the client overestimates the token's life by at most the reply's delay.

`Structure` is stated of any lists, as a handler builds them up in several steps: each
action first changes the lists (`Append`, `\o`, a new downloader), which keeps `Structure`, and
then calls `nextRequest`, which keeps it by one lemma (`NextRequestsKeepsStructure`) used by
every action.  There is one lemma per action, and `NextKeepsIInv` combines them.  The action
properties follow from `IInv` and facts about `NextRequests` (which only takes the head of the
queue and unlimited downloaders).

The last part of `GmailPoolProofs` proves `PoolImplementsService` (`Spec => ImplementsService`), from the same assumptions and
`IInv`: the refinement that `gmail_pool` checks, for any number of requests and downloaders.  *Argument*: every
handler ends with calls of `nextRequest` (`EndsWithCalls`), and those take a prefix of the queue and give each
request of it a free downloader (`NextRequestsStarts`).  Requests in service are as many as the downloaders
that serve them, and these are among the created ones; with the size of the prefix that is the bound on running requests.

`GmailProofs` holds for every set of calls and messages and every number of items:

| theorem | statement |
|---|---|
| `GmailUsesThePool` | `GmailSpec => Spec`: so all of the above holds of the pool under any program of calls |
| `GmailTypeCorrect` | `GmailSpec => []GmailTypeOK` |
| `GroupAlwaysCountsPool` | `GmailSpec => []GroupCountsPool` |
| `AlwaysReturnsOnce` | `GmailSpec => []ReturnsOnce` |
| `NilErrorIsAlwaysComplete` | `GmailSpec => []NilErrorIsComplete` |
| `SearchIsAlwaysExact` | `GmailSpec => []SearchIsExact` |

*Assumptions*: those of `GmailPool`, and of `Gmail`: a request is a call and an item, the items of a call fit into a
batch, and `beConnect` is given a token life within `TokenLife`.  *Argument*: a handler may only schedule requests that are
not in the pool, and that follows from the groups: `GroupCountsPool` and the pool's `IInv` are therefore
proved together.  The rest of `GmailInv` says how far each call is (`Progress`): a connect or a search has only its last
request open, and none once it has an error; a batch without an error has got all that is not open.
`HandledKeepsProgress` is the lemma about the reply handlers; each pool lemma tells which requests a step lets in (`Gains`).

The first two theorems of `DeliveryProofs` are about the stream, and hold for every set of bytes, size of the buffer and sequence of calls:

| theorem | statement |
|---|---|
| `StreamTypeCorrect` | `StreamSpec => []StreamTypeOK`, with it that neither buffer ever holds more than `BufferSize` bytes |
| `TakenIsAlwaysWritten` | `StreamSpec => []TakenIsWritten`: what has gone out and what is buffered are the bytes vouched for |

*Assumptions*: the buffer has a size, and LF is a byte.  *Argument*: `TakenIsWritten` says nothing while
`write_direct` runs, so the inductive invariant adds `DirectPart`: the buffer is empty then, and what has gone
out is what was taken before and the part of the argument that is not left.  Each action moves bytes
over the seam between two sequences; lemmas on `Take`, `Drop` and `\o` carry that, and there is one lemma
per action.  `Delivery` implements `StreamSpec` (`DeliveryUsesTheStream` below), so both hold of its
senders and readers.

`EmlProofs` (the functions of `DataText` and `Eml`) and `DeliveryProofs` (what a delivery makes of them) hold for every text
and message of any length, every size of the buffer, every network, and any number of later commands:

| theorem | statement |
|---|---|
| `AnnouncedSizeIsSent` | for any text `t`, `FlattenSeq(DataWrites(t, FALSE)) = Canonical(t)` and `DataCrlfSize(t) = Len(Canonical(t))` |
| `DeliveryTypeCorrect` | `Spec => []TypeOK` |
| `DeliveryUsesTheStream` | `Spec => UsesTheStream`, the refinement of `StreamSpec` |
| `RepliesAlwaysInOrder` | `Spec => []RepliesInOrder` |
| `OkAlwaysMeansSent` | `Spec => []OkMeansSent`, assuming `Len(EndOfText) <= BufferSize` |
| `TextNeverEndsEarly` | `Spec => []NeverEndsEarly`, assuming `Len(EndOfText) <= BufferSize` |
| `SameLinesAlwaysArrive` | `Spec => []SameLinesArrive`, assuming `Len(EndOfText) <= BufferSize` and `LineLimit + 2 <= BufferSize` |
| `LinesAlwaysFit` | `Spec => []LinesFit` |
| `ShortCharactersFit` | `Spec => []WordsFit`, assuming `ShortCharacters`; the run `delivery_words` shows that it needs this |

*Assumptions*: those of `MailStream` and `Eml`; `AlphabetAssumption` of `Delivery` (line ends, dots, commands,
characters, messages and replies are made of bytes, and a character takes a number of them) and its `HeaderNamesAssumption`
(a header's name has its colon, so it is not blank), which TLC evaluates.  *Hypotheses*: `Base64Bytes`, in all theorems about behaviours: the characters of base64 are bytes.  The model
gives every position of a base64 text a value of its own, so this is an infinite set of bytes and not
an assumption that TLC could evaluate on the run's; `Byte = Nat` satisfies it.  `OkAlwaysMeansSent`, `TextNeverEndsEarly` and `SameLinesAlwaysArrive` need a buffer
that the five bytes of the end of a text fit into (libetpan's have 8192): one that is written past the
buffer may be cut without an error, like a long line, and the properties exclude only those.  `SameLinesAlwaysArrive` makes no
exception for long lines, so it needs one that the longest line of a composed body, 998 characters and its end, fits into.  `ShortCharacters`: a full encoded word keeps the limit, and no character has
more bytes than a word is counted to hold.

*Argument*.  The functions of `DataText` recur over a text, so each needs an induction, done as one about a set of
indices (`LeastOf`, `UpTo`, `DownFrom`).  `Pieces` says what has to go out for each single character: nothing for the CR or LF
that the other one answers for, CRLF for a line end, two dots for a first dot.  `DataWritesFlat` shows that the lines
`send_data_line` cuts and fixes give just that, and `CrlfSizeIsLength` that the size, which the code
computes by another loop, counts it.  A server reads byte by byte: `TextGoesOn` follows its state (what it has
understood, whether a line starts, whether the text has ended) through the piece of any character, so `QuotedText`: no quoted
text ends by itself, and read back it is the canonical form; `WholeText` adds the end.  `SendInv` then says that what the
stream has taken and the calls still to be made are, in this order, all of the message (`Handed`, `AllTaken`),
and that what it has taken has at most the message's own end (`EndsOnce`), which no part of the text and no later command
can give it earlier.  What went out is a prefix of what was taken, by `TakenIsWritten`.  `ReplyInv` says the same of reading: the lines returned,
the line so far, the buffer and the network's bytes are the reply, unless a read has failed, and then what was returned is a prefix.
That is about `message`, the bytes handed to the stream.  `Converts` says that they are `eml` as the actor has converted it, and
`EveryMessageCloses` what this means for every sequence of bytes (`Closing`): normalising and stripping give the normal form of the message
without the line ends at its end (`Closed`), by an induction that adds a byte at a time: a LF behind a CR or
without one is a line end more to cut off, and a last CR without LF is no line end for the code and stays.  With
`ConvertedFacts`, on the canonical form of what was converted, `OkMeansSent` and `NeverEndsEarly` then speak of the caller's
message.  No write becomes longer by the conversion (`ConvertedIsShort`), so the composed bodies still fit.

`SameLinesAlwaysArrive` puts the composer in front of that.  Its folds over a text (`BytesOf`, `LongestLine`) are functions on
the sets of positions of the text: `FoldExists`, `FoldRuns` and `Gathers` turn one into a step per character, once for all folds.  A text
is a chain of pieces, each without line ends or one of them, and `ShortRuns` says that no line of such a chain exceeds a limit: for a
body that is sent as it is by the fold that measured it, for base64 by where it is cut.  So each write fits into the buffer
(`LineWritesShort`, `DataWritesShort`), `NoLongLine` holds of every composed message and `OkMeansSent` applies: the server has the
canonical form of what was composed.  What is left is about the texts: making line ends canonical undoes `Normalized`
and does nothing the second time, and `Trimmed` and `Unbroken` take away just the ends that `Encode` has added.

`LinesAlwaysFit` is the same limit for a body, and for a header an induction over the tokens of its value.  `Folded` is its
invariant: each line so far that a break has ended (`ClosedLines`) is fine, and so is the last one (`LastLine`), where `FineLine`
says that a line has the columns it may have, encoded words within their count of bytes or of one character, and something to see.  One more token keeps it
(`StepKeepsFolded`): it goes behind a space (`LineTakes`), and a break in front of it or at its end closes a line that
has something on it (`BreakEnds`).  That holds of tokens that are not empty, with at most one break, at their end.  Plain text has such tokens
as long as no two spaces follow each other and none is at an end, which `Sanitized` sees to (`PlainTokens`); an encoded text has them because each chunk
makes a word, and each word but the last one ends in a break (`ChunksFine`, `EncodedTokens`).  `ShortCharactersFit` follows from
`ChunksFine`: where no character is longer than a word is counted to hold, no word exceeds its limit.

`SmtpProofs` holds for every set of sends, number of recipients, connects and time-outs, whatever the
server announces and refuses, and whether or not the connection breaks:

| theorem | statement |
|---|---|
| `SmtpTypeCorrect` | `Spec => []TypeOK` |
| `ConnectedIsAlwaysAuthenticated` | `Spec => []ConnectedMeansAuthenticated` |
| `CredentialsAreAlwaysUnderTLS` | `Spec => []CredentialsUnderTLS` |
| `NeverCrashesForCallersWhoLook` | `Spec => []NeverCrashes`, assuming `CallersAsk = "result"`; `smtp_no_stream` shows that it needs this |
| `EsmtpErrorsAreAlwaysUndelivered` | `Spec => EsmtpErrorMeansNotDelivered` |

*Assumptions*: `CapabilitiesAssumption` and `BoundsAssumption` of `Smtp` (types of the constants).  *Argument*.
What a reply means depends on what else is on the wire, so the inductive invariant describes the wire:

- `Expected`: while beConnect waits there is one command or one reply under way (`One`), with the verbs and codes of
  that wait.  HELO is the exception, as it is sent whatever was wrong with EHLO: from then on replies
  may be late, but none is a 220,
- `Secure` and `Handshake`: on the way to TLS the handshake is the first command in line and no reply is left over,
  so whatever is sent behind it is encrypted when the server reads it,
- `Known`: only an authentication is answered with 235; together with `Secure` that makes a nil result true (codes
  below 400 pass for success, and the other ones cannot come up there),
- `Texts`: the text of a send is sent and delivered in its last step only, so a send that fails before has delivered
  nothing,
- `InStep`: while nothing is lost or late on an ESMTP session, every reply belongs to the command before it.
  A text is then never read as commands, and if this send's text is delivered, the reply to come is its 250.

There is one lemma for each command that a client step issues or reads the reply of, and one for what the server's answer to
each verb does to the wire (`Effect`), from which `ServeKeepsIInv` follows.

`SmtpEnvelopeProofs` adds, for callers who look at the result of their last connect (`CallersAsk = "result"`) and servers
that refuse MAIL inside a transaction (`NestedMailRefused = TRUE`):

| theorem | statement |
|---|---|
| `NilAlwaysMeansDelivered` | `Spec => []NilMeansDelivered` |
| `EnvelopesAreNeverMixed` | `Spec => []EnvelopesUnmixed` |

*Assumptions*: those of `SmtpProofs`, and `SendAssumption` (the name of no send is "none").  Both hypotheses are needed: without
`NestedMailRefused` an observation below mixes envelopes, and for callers who only ask `beGetConnection`, three late replies
after a fallback to HELO let a send return nil on replies to others.  *Argument*: how far the session is out of step
has no bound, so the invariant `EnvelopeInv` describes all that is still to be read, whatever its length.  `Due` is that line,
replies on the way and commands not yet answered alike, each with what it can say: a 250, a 354, or no.  Without an open
transaction at most one 250 is due, that of a text whose send has timed out, as every command but MAIL is refused then
(`NotOpened`).  With one open, nowhere in the line are there two 250s and no refusal after them (`NoneThrough`), and a send that
has read somebody else's 250 does not find the next ones (`MailRanks`, `RcptRanks`, `OwnGo`): a send reads a 354 only
when the session is in step with it, and then the transaction and its recipients are its own (`Alone`).  So the only texts that are sent are
read in their own transaction, or refused (`TextFirst`), and every delivered text has gone to its own
recipients (`AllComposed`).  TLC checked `EnvelopeInv` with the bounds of `smtp_sessions` and one time-out (354,310 states).

`ImapProofs` holds for every number of calls, time-outs and messages, and each combination of the faults:

| theorem | statement |
|---|---|
| `ImapTypeCorrect` | `Spec => []TypeOK`, with it that no behaviour uses more than two tags |
| `NilIsAlwaysThisCommand` | `Spec => []NilIsThisCommand` |
| `AppendedIsAlwaysStored` | `Spec => []AppendedMeansStored` |
| `LoggedInIsAlwaysAuthenticated` | `Spec => []LoggedInMeansAuthenticated` |
| `DataIsAlwaysFromFolderInStep` | `Spec => []DataFromFolderInStep` |

*Assumptions*: `InboxAssumption`, `ImapBoundsAssumption` and `ImapFaultsAssumption` of `Imap`.  *Argument*: tags are what ties a
reply to its command.  The commands on the wire have growing tags, none smaller than the last one that the server has
served; a reply has the tag of a command that was served.  So a good reply to the client's last tag means that
this command was carried out, and later commands cannot have undone it.  `NilIsThisCommand` leaves out just the results that
come without a good reply (`SaysNothing`): the end of `beClose`, a fetch of no messages, and an empty list of folders.  While the client logs in, or appends, only
the login, or the message, can be answered with that tag; a message swallowed as commands has no tag at
all.  For the bound on tags the invariant counts what a behaviour has still to issue.  `FolderInv` is about two ends that
must agree: while nothing is late, the folder that the client takes for selected is the one that the server has
selected, and an OK to the SELECT under way says that the server has selected the folder asked for (`ServerSelects`).  Once a behaviour gives up
on its reply, all later replies belong to another command until the connection is closed (`Late` is stable), so
nothing succeeds and no data are handed to a caller; a message swallowed as commands can undo that
(finding 4), and the property excludes it.  TLC checked it with the bounds of `imap_sessions`
(206,185 states).

`ComposerProofs` is about the message that `eml()` makes of the struct, for texts of any length and with any characters:

| theorem | statement |
|---|---|
| `ComposerInvHolds` | `Spec => []ComposerInv`: the struct has texts and mailboxes of the user's characters, and what `eml()` has returned is its one part, or its two parts with a boundary that is in neither |
| `PartsAreReadAsComposed` | `Spec => []PartsReadAsComposed`: the reader finds in the message the encoding and the body, or both parts, of the struct |

*Assumptions*: `EmlAssumption` of `Eml` and `ComposerAssumption` of `Composer`: a boundary is some text of a line.  `generateBoundary` draws
a prefix and a UUID; the code does not look at one that a caller assigns.  *Argument*.  The reader takes the first empty line for the end of
the header and the last field before it for that of the body.  Nothing that `eml()` folds into the header may therefore
have two line breaks in a row: `Neat` is what a value is (no two breaks, none at its end), `Whole` what a line is (nor one at
its start), and each function of `Eml` is shown to keep to it: characters, encoded words, addresses and their lists, ids, and
`Fold`, whose loop over the tokens keeps `Begun` by induction.  `HeaderEnds` and
`LastFieldRead` follow, the last line having no break at all.  In the body, `DelimitersAreMarks` makes the delimiters the
places where a line starts with the mark (two hyphens and the boundary), `MarksConcat` finds the marks of a text in its two
pieces when the first ends with a line, and `LineMarks` those of one line.  An encoded part has none,
because it does not contain the boundary (`BodyHasNone`): base64 or not, that is where `Collides` is needed.  So there are three
delimiters, of which the last closes, and what the reader cuts out between them is what `eml()` has put there (`TwoPartsRead`).

*Only model-checked*: liveness (`EveryRequestAnswered`, `EveryCallReturns`, `EveryBehaviourReturns`),
which the prover cannot do, and two properties of `Composer`, `HeaderReadsAsComposed` and `EnvelopeMatchesHeader`: they say that a
reader undoes what the functions of `Eml` make of names and lists by folds of its own (quotes, escapes, encoded words, commas),
each of which would need an induction like that of the tokens, over the text as it is after folding.

## 6. Findings

Each is a run that ends in a counterexample; `PROJECT.json` gives the lines.

1. `gmail_errors` (`Gmail.swift:405`): a batch whose failing reply has no body reports
   "empty response without error" and loses the error there was.
2. `smtp_helo` (`mailsmtp_helper.c:78`): without EHLO the text is sent twice, the second
   time as commands, and a delivered message is reported as failed.
3. `smtp_no_stream` (`mailsmtp.c:1197`): `beSend` after `beClose` dereferences the null
   stream, where the code means to return an error; `beGetConnection` still returns the
   closed session's info.
4. `imap_folder` (`mailimap.c:626`): a late SELECT and a misread APPEND bring the tags back
   into step; a fetch then returns messages of the wrong folder without an error.
5. `imap_literal` (`mailimap_parser.c:6134`): the connection is closed, not broken, inside a literal:
   `mailstream_read` returns 0, which the loop takes for progress, and the behaviour never returns.
6. `delivery_words` (`EML.swift:224`): the comment on `encodedWord` says "no single word exceeds 75 characters".  One
   `Character` of more than 45 bytes (a Swift `Character` is a grapheme of any length) makes a word of its own that does;
   if it is the first one, an empty word comes before it.

Observations without a run of their own:

- `smtp_max_msg_size` (`mailsmtp.c:608`) survives reconnects to servers that announce none.
- SMTP's `EnvelopesUnmixed` rests on servers that refuse MAIL inside a transaction (RFC 5321).  With one that
  starts over (RFC 821; `NestedMailRefused = FALSE`, which the theorem excludes), three late replies among four sends put one send's text under
  another's envelope.
- After the misread APPEND of 4 the server stores the next command as a message.
- A caller that fetches after another caller's select fetches from the other's folder, as the
  selection belongs to the actor; an IMAP session whose connect failed after its stream was opened
  must be closed before it connects again.
- A line longer than the stream's 8192 bytes goes past the buffer; `write_direct` returns how much of it
  was written, and `send_data_line` does not compare: the tail can be missing from a message reported
  as sent.  `OkMeansSent` and `NeverEndsEarly` are stated under `NoLongLine`, which every body that
  `EML` composes satisfies (`LinesFit`); a message given whole need not.
- `_beSend` takes CRLFs off the end of a message (line ends that are LF have become CRLF by then), so a message arrives
  by SMTP without an empty line more, and without those it had at its end.  A lone CR at the end is not
  taken for a line end there, but `send_data_line` makes CRLF of it: then there is an empty line more.  `_beAppend`
  keeps the end as it is.
- `beGetFolders` returns an empty list when LIST fails, as it has no error to return: its caller cannot tell
  that from an account without folders.
- When a part contains the boundary (`EML.swift` 153), each call of `eml()` draws another one, so a message that is
  sent and its copy that is appended differ; the comment at line 63 calls `eml()` deterministic.
- `fold` compares the length of any line with that of the header's name: a continuation line that is still
  shorter than the name takes one more token, however long.  Several spaces in a row can leave a line of
  spaces only.
- A reply that is cut by a time-out in the middle of a line loses its beginning, and its tail is the
  first line of the next reply; `RepliesInOrder` is about the lines of calls that did not fail.
- `mailstream_read_multiline` goes on for ever at the end of a connection; only POP and NNTP call it.

## 7. What is not modelled

- *EML*: how dates, message ids and random boundaries are formatted; assignments to the struct's variables other
  than `html` (`init` sanitises its arguments, an assignment to `subject` or `messageID` does not).
- *stream*: `mailstream_read` of a literal by its size, idle, loggers, progress callbacks and
  certificates; the multi-line reads of POP and NNTP.
- *Wording of errors, JSON, the translation of fetched items*: data no property tells apart; an
  IMAP result is the folder its data come from, a Gmail result an id.
- *Data races* on `accessToken` (read by a downloader's thread, written by Gmail's): the model
  reads before or after the write, never a torn string.
- *State without effect*: `beGetConnection` of Gmail and IMAP and Gmail's `beClose` change nothing;
  `hasGmailExtension` only chooses which attributes a fetch asks for.
- *The rest of libetpan*: of the 184,000 lines in `src/`, all but the 2,100 of MailPacket's Swift files and bridge are vendored.  Most are
  protocols, drivers and caches that MailPacket never calls (POP, NNTP, mbox, MH, maildir, feeds, the
  generic storage layer, message parsing), cJSON, and tables of types.  Of what it does call, the IMAP grammar
  (`mailimap_parser.c`, `mailimap_sender.c` and their types) is a parser without state: the model keeps its
  outcomes (a response, or a parse error) and not its productions.  LMTP, DSN, CLIENTID, RSET, NOOP, VRFY and
  EXPN of SMTP are not called.  So the models cover a small share of the lines and most of the control that
  MailPacket depends on.
- *TLS, sockets, HTTP*: a connection is encrypted or not, a request answered or not.
