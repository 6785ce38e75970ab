----------------------------- MODULE MailSession -----------------------------
(***************************************************************************)
(* What EMailCheck says to mail servers: the IMAP, POP3 and SMTP sessions  *)
(* of one request (test a login, list messages, mark them read, reply),    *)
(* against a server that may refuse, answer late, say what it was not      *)
(* asked, fall silent or hang up.                                          *)
(*                                                                         *)
(* A request is served by one session after another (legs), each on a      *)
(* connection of its own.  A session sends a command and reads lines until *)
(* it takes one for the answer: in IMAP the line with the command's tag,   *)
(* in POP3 and SMTP whatever line comes first.  Some errors are ignored;   *)
(* the answer given up on may then still be on its way.                    *)
(*                                                                         *)
(* Messages are numbered from the oldest; message n has the id Box[n], its *)
(* IMAP UID or its POP3 UIDL.  A reply line stands for all lines of its    *)
(* kind: a listing, a message.                                             *)
(***************************************************************************)
EXTENDS Naturals, Sequences, FiniteSets

CONSTANTS
    Box,        \* the mailbox: the ids of its messages
    Rcpts,      \* how many recipients a reply has
    Requests,   \* the requests that are considered
    MaxNoise    \* bound on unsolicited lines

Numbers == DOMAIN Box
Ids     == {Box[n] : n \in Numbers}

\* A reference to a message; n = 0: not in the mailbox, id = 0: no UIDL known.
Refs  == [n : Nat, id : Nat]
NoRef == [n |-> 0, id |-> 0]

\* model.EmailListRequest and what decides which sessions a request takes.
Request ==
    [op        : {"login", "list", "mark", "reply"},
     protocol  : {"imap", "pop3"},
     startTLS  : BOOLEAN,
     smtp      : BOOLEAN,          \* account.SMTP.Host is set
     uids      : Seq(Nat \ {0}),
     markSeen  : BOOLEAN,
     body      : BOOLEAN,
     limit     : Nat,              \* 0: none
     old       : SUBSET Numbers]   \* messages dated before the cutoff

ASSUME BoxAssumption ==
    /\ Box \in Seq(Nat \ {0})
    /\ \A m, n \in DOMAIN Box : Box[m] = Box[n] => m = n
\* What marks messages names them and says so, and a reply does not mark what it answers.
ASSUME RequestsAssumption ==
    /\ Requests \subseteq Request
    /\ \A r \in Requests : (r.op = "mark" => r.markSeen /\ r.uids # <<>>) /\ (r.op = "reply" => ~r.markSeen)
ASSUME BoundsAssumption == Rcpts \in Nat \ {0} /\ MaxNoise \in Nat

VARIABLES
    req,        \* the request
    legs,       \* its sessions, from the current one on
    conn,       \* "none", "open", "broken" (the server has hung up), "closed"
    step,       \* the command the session is at
    wait,       \* "no": not sent; "line": no answer yet; "body": within one
    tag,        \* number of the last tagged command
    got,        \* what the lines of the current answer have said so far
    caps,       \* the AUTH capabilities seen
    todo,       \* messages to be read or marked, recipients to be named
    shown,      \* the messages listed so far: label and what it labels
    result,     \* "none", "ok" or "error"
    queue,      \* commands the server has received and not answered
    wire,       \* lines on their way to the client
    accepted,   \* protocols whose server has accepted the credentials
    seen,       \* messages the server has marked \Seen
    envelope,   \* recipients the SMTP server has taken
    mailed,     \* recipients it has taken the reply for
    noise,      \* unsolicited lines so far
    gaveUp,     \* an answer was given up on and the session went on (history)
    unlisted,   \* UIDL has failed (history)
    worded,     \* a refusal had the word OK in its text (history)
    intruded    \* an unsolicited line named a message (history)

progressVars == <<caps, todo, shown>>
outcomeVars  == <<legs, conn, result>>
clientVars   == <<step, wait, tag, got, progressVars, outcomeVars>>
channelVars  == <<queue, wire>>
serverVars   == <<accepted, seen, envelope, mailed>>
histVars     == <<noise, gaveUp, unlisted, worded, intruded>>
vars == <<req, clientVars, channelVars, serverVars, histVars>>

-----------------------------------------------------------------------------
(* Requests and sessions *)

Incoming(r, task) == <<[protocol |-> r.protocol, task |-> task]>>
Outgoing(task)    == <<[protocol |-> "smtp", task |-> task]>>

\* A login tests the incoming server, then SMTP if it is configured.
LoginLegs(r) == Incoming(r, "login") \o (IF r.smtp THEN Outgoing("login") ELSE <<>>)

\* A reply first reads the message it answers, if one is named.
ReplyLegs(r) == (IF r.uids = <<>> THEN <<>> ELSE Incoming(r, "list")) \o Outgoing("send")

\* POP3 has nothing to mark: the request succeeds at once.
MarkLegs(r) == IF r.protocol = "pop3" THEN <<>> ELSE Incoming(r, "mark")

Legs(r) ==
    CASE r.op = "login" -> LoginLegs(r)
      [] r.op = "reply" -> ReplyLegs(r)
      [] r.op = "mark"  -> MarkLegs(r)
      [] r.op = "list"  -> Incoming(r, "list")

Protocol == legs[1].protocol
Task     == legs[1].task

Wanted == {req.uids[i] : i \in DOMAIN req.uids}
Asked  == [i \in DOMAIN req.uids |->
              [n  |-> IF req.uids[i] \in Ids THEN CHOOSE n \in Numbers : Box[n] = req.uids[i] ELSE 0,
               id |-> req.uids[i]]]

\* The i-th smallest of a set of numbers; what s holds at the positions in S, in order.
Nth(S, i)    == CHOOSE n \in S : Cardinality({m \in S : m <= n}) = i
Picked(s, S) == [i \in 1 .. Cardinality(S) |-> s[Nth(S, i)]]

\* References to the messages of a set, the oldest first.
Oldest(S) == Picked([n \in Numbers |-> [n |-> n, id |-> Box[n]]], S)
Newest(s, k) == IF k = 0 \/ Len(s) <= k THEN s ELSE SubSeq(s, Len(s) - k + 1, Len(s))
Reversed(s)  == [i \in DOMAIN s |-> s[Len(s) + 1 - i]]

\* What UID SEARCH finds; the server leaves out what is before the cutoff.
Found == Oldest(Numbers \ req.old)

\* selectPOP3Refs: by id or by number, or else the newest first.
Selected(refs) ==
    IF req.uids # <<>>
    THEN Picked(refs, {i \in DOMAIN refs : {refs[i].id, refs[i].n} \intersect Wanted # {}})
    ELSE Reversed(Newest(refs, req.limit))

-----------------------------------------------------------------------------
(* Commands, lines and what the client makes of them *)

\* A mutant: TOP reads its status line only.
MultiButTop == {"list", "uidl", "retr"}

Continued == {"plain", "authlogin", "user64"}     \* IMAP: answered by a "+"
Multi     == {"list", "uidl", "top", "retr"}      \* POP3: answered up to a "."
Farewell  == IF Protocol = "imap" THEN "logout" ELSE "quit"

\* A mutant: a refused recipient is passed over.
IgnoredRcpt == {"caps", "uidl", "top", "logout", "quit", "ehlo", "rcpt"} \union
               (IF Task = "list" THEN {"store"} ELSE {})

\* Commands whose failure the session survives.
Ignored == {"caps", "uidl", "top", "logout", "quit", "ehlo"} \union
           (IF Task = "list" THEN {"store"} ELSE {})

Line(kind, k) == [kind |-> kind, tag |-> k, ok |-> TRUE, says |-> FALSE,
                  ref |-> NoRef, full |-> FALSE, auth |-> {}]
Nothing == [ref |-> NoRef, full |-> FALSE, auth |-> {}]

\* A status counts as success by its first word in POP3 and SMTP, in IMAP by
\* the letters " OK" anywhere in the line.
Good(line) == line.kind = "done" /\ (line.ok \/ line.says)

Judged(line) == IF Good(line) THEN "ok" ELSE "failed"

\* A mutant: any tagged line completes the command.
TaggedVerdictAnyTag(line) ==
    CASE step = "greeting"   -> Judged(line)
      [] step \in Continued  -> IF line.kind = "plus" THEN "ok" ELSE "failed"
      [] OTHER -> IF line.kind = "done" THEN Judged(line) ELSE "line"

\* What the line just read makes of the answer: complete, or to be continued.
TaggedVerdict(line) ==
    CASE step = "greeting"   -> Judged(line)
      [] step \in Continued  -> IF line.kind = "plus" THEN "ok" ELSE "failed"
      [] OTHER -> IF line.kind = "done" /\ line.tag = tag THEN Judged(line) ELSE "line"
Verdict(line) ==
    IF Protocol = "imap" THEN TaggedVerdict(line)
    ELSE IF wait = "body" THEN (IF line.kind = "end" THEN "ok" ELSE "body")
    ELSE IF Good(line) /\ step \in Multi THEN "body" ELSE Judged(line)

\* What a session keeps of a line: the last of its kind counts.
Collected(line) ==
    CASE line.kind = "data"  -> [got EXCEPT !.ref = line.ref, !.full = line.full]
      [] line.kind = "fetch" -> [got EXCEPT !.ref.id = IF line.ref.id = 0 THEN @ ELSE line.ref.id]
      [] line.kind = "caps"  -> [got EXCEPT !.auth = line.auth]
      [] OTHER -> got

-----------------------------------------------------------------------------
(* How a session goes on when its command has been answered, or has failed: *)
(* each action is the rest of a function, from that command to the next.   *)

\* A mutant: the old command still counts as awaiting its answer.
GotoAwaiting(s) == step' = s /\ UNCHANGED wait
Goto(s) == step' = s /\ wait' = "no"
To(s)   == Goto(s) /\ UNCHANGED <<progressVars, outcomeVars>>

\* The session ends and its connection is closed; the next one starts, or the
\* request is answered.
Close(outcome) ==
    /\ IF outcome = "ok" /\ Len(legs) > 1
       THEN legs' = Tail(legs) /\ conn' = "none" /\ Goto("dial") /\ UNCHANGED result
       ELSE conn' = "closed" /\ result' = outcome /\ Goto("over") /\ UNCHANGED legs
    /\ UNCHANGED <<caps, todo>>
Fail == Close("error") /\ UNCHANGED shown

\* The next message of the loop; POP3 listings and marking end with the context.
NextOf(refs) ==
    \/ /\ todo' = refs
       /\ Goto(IF refs = <<>> THEN Farewell
               ELSE IF Task = "mark" THEN "store"
               ELSE IF Protocol = "imap" THEN "fetch" ELSE "top")
       /\ UNCHANGED <<caps, outcomeVars>>
    \/ /\ refs # <<>> /\ (Task = "mark" \/ Protocol = "pop3")
       /\ Close("error")

\* The server may lack an extension, and a TLS handshake may fail.
OrFail(s) == To(s) \/ Fail

DialIMAP ==
    /\ Protocol = "imap"
    /\ \/ step = "greeting" /\ To(IF req.startTLS THEN "starttls" ELSE "caps")
       \/ step = "starttls" /\ OrFail("caps")

DialPOP3 ==
    /\ Protocol = "pop3"
    /\ \/ step = "greeting" /\ To(IF req.startTLS THEN "starttls" ELSE "user")
       \/ step = "starttls" /\ OrFail("user")

\* net/smtp falls back on HELO, which advertises neither STARTTLS nor AUTH.
DialSMTP(ok) ==
    /\ Protocol = "smtp"
    /\ \/ step = "greeting" /\ To("ehlo")
       \/ step = "ehlo" /\ ok  /\ OrFail(IF req.startTLS THEN "starttls" ELSE "auth")
       \/ step = "ehlo" /\ ~ok /\ To("helo")
       \/ step = "helo" /\ Fail
       \/ step = "starttls" /\ OrFail("auth")

\* Login: the first way to authenticate that the server offers.
FirstOffered(mechs) ==
    IF "PLAIN" \in mechs THEN "plain" ELSE IF "LOGIN" \in mechs THEN "authlogin" ELSE "login"

RefreshCapabilities(ok, g) ==
    /\ step = "caps"
    /\ caps' = IF ok THEN g.auth ELSE {}
    /\ Goto(FirstOffered(caps'))
    /\ UNCHANGED <<todo, shown, outcomeVars>>

AuthenticatePlain == step = "plain" /\ To("token")
AuthenticateLogin ==
    \/ step = "authlogin" /\ To("user64")
    \/ step = "user64"    /\ To("token")
LoginPOP3 == step = "user" /\ To("pass")

TestIMAPLogin == Task = "login" /\ step \in {"token", "login"} /\ To("logout")
TestPOP3Login == Task = "login" /\ step = "pass" /\ To("quit")
TestSMTPLogin ==
    /\ Task = "login"
    /\ \/ step = "auth" /\ To("noop")
       \/ step = "noop" /\ To("quit")

\* Listed under a label.
Shown(label, g) == shown' = Append(shown, [label |-> label, n |-> g.ref.n, full |-> g.full])

\* A message was fetched; an empty one, or one that does not parse, ends it all.
Fetched(g) ==
    \/ Fail
    \/ /\ g.ref.n # 0
       /\ Shown(g.ref.id, g)
       /\ IF req.markSeen THEN Goto("store") /\ UNCHANGED <<caps, todo, outcomeVars>>
          ELSE NextOf(Tail(todo))

ListIMAP(g) ==
    /\ Task = "list"
    /\ \/ step \in {"token", "login"} /\ To("select")
       \/ step = "select" /\ req.uids = <<>> /\ To("search")
       \/ step = "select" /\ req.uids # <<>> /\ NextOf(Asked) /\ UNCHANGED shown
       \/ step = "search" /\ NextOf(Newest(Found, req.limit)) /\ UNCHANGED shown
       \/ step = "fetch"  /\ Fetched(g)
       \/ step = "store"  /\ NextOf(Tail(todo)) /\ UNCHANGED shown

MarkIMAP ==
    /\ Task = "mark"
    /\ \/ step \in {"token", "login"} /\ To("select")
       \/ step = "select" /\ NextOf(Asked) /\ UNCHANGED shown
       \/ step = "store"  /\ NextOf(Tail(todo)) /\ UNCHANGED shown

\* LIST gives the numbers, UIDL the ids; a failure of UIDL is ignored.
MessageRefs(ok) ==
    \/ /\ step = "list"
       /\ todo' = [n \in Numbers |-> [n |-> n, id |-> 0]]
       /\ Goto("uidl")
       /\ UNCHANGED <<caps, shown, outcomeVars>>
    \/ /\ step = "uidl"
       /\ NextOf(Selected(IF ok THEN Oldest(Numbers) ELSE todo))
       /\ UNCHANGED shown

\* A mutant: an old message ends the listing also when messages were named.
TooOldEnds == To("quit")

\* A message dated before the cutoff is skipped, or ends the listing.
TooOld == IF req.uids # <<>> THEN NextOf(Tail(todo)) /\ UNCHANGED shown ELSE To("quit")

\* A message was read; it has to parse.
Kept(g) ==
    LET ref == Head(todo) IN
    \/ Fail
    \/ g.ref.n \in req.old /\ TooOld
    \/ /\ g.ref.n \notin req.old
       /\ Shown(IF ref.id = 0 THEN ref.n ELSE ref.id, g)
       /\ IF req.limit > 0 /\ Len(shown') >= req.limit
          THEN Goto("quit") /\ UNCHANGED <<caps, todo, outcomeVars>>
          ELSE NextOf(Tail(todo))

\* The header will do for a listing; TOP may also fail.
ListPOP3(ok, g) ==
    LET headerOnly == ok /\ ~req.body /\ req.uids = <<>> IN
    /\ Task = "list"
    /\ \/ step = "pass" /\ To("list")
       \/ MessageRefs(ok)
       \/ step = "top"  /\ headerOnly  /\ Kept(g)
       \/ step = "top"  /\ ~headerOnly /\ To("retr")
       \/ step = "retr" /\ Kept(g)

\* RCPT for each recipient; an address that does not parse ends the session.
Address(rcpts) ==
    \/ rcpts # <<>> /\ Fail
    \/ /\ todo' = rcpts
       /\ Goto(IF rcpts = <<>> THEN "data" ELSE "rcpt")
       /\ UNCHANGED <<caps, shown, outcomeVars>>

SendSMTPReply ==
    \/ step = "auth" /\ Task = "send" /\ To("mail")
    \/ step = "mail" /\ Address([i \in 1 .. Rcpts |-> [n |-> i, id |-> 0]])
    \/ step = "rcpt" /\ Address(Tail(todo))
    \/ step = "data" /\ To("text")
    \/ step = "text" /\ To("quit")

Goodbye == step = Farewell /\ Close("ok") /\ UNCHANGED shown

\* The command has succeeded (ok) or failed; g is what its answer said.
Completed(ok, g) ==
    /\ got' = Nothing
    /\ unlisted' = (unlisted \/ (step = "uidl" /\ ~ok))
    /\ IF ~ok /\ step \notin Ignored THEN Fail
       ELSE \/ DialIMAP \/ DialPOP3 \/ DialSMTP(ok)
            \/ RefreshCapabilities(ok, g) \/ AuthenticatePlain \/ AuthenticateLogin \/ LoginPOP3
            \/ TestIMAPLogin \/ TestPOP3Login \/ TestSMTPLogin
            \/ ListIMAP(g) \/ MarkIMAP \/ ListPOP3(ok, g) \/ SendSMTPReply
            \/ Goodbye

-----------------------------------------------------------------------------
(* The client *)

Greeting == [name |-> "greeting", tag |-> 0, ref |-> NoRef, peek |-> TRUE]

\* Dialling takes 20 seconds at most; the server speaks first.
Dial ==
    /\ step = "dial"
    /\ tag' = 0
    /\ caps' = {}
    /\ todo' = <<>>
    /\ \/ /\ conn' = "open" /\ step' = "greeting" /\ wait' = "line"
          /\ queue' = <<Greeting>> /\ wire' = <<>>
          /\ UNCHANGED <<legs, result>>
       \/ /\ conn' = "closed" /\ result' = "error" /\ Goto("over")
          /\ UNCHANGED <<legs, channelVars>>
    /\ UNCHANGED <<req, got, shown, serverVars, histVars>>

\* A command is written; a line within AUTHENTICATE has its command's tag.
Send ==
    /\ step \notin {"dial", "over"}
    /\ wait = "no"
    /\ wait' = "line"
    /\ tag' = IF Protocol # "imap" \/ step \in {"token", "user64"} THEN tag ELSE tag + 1
    /\ got' = [Nothing EXCEPT !.ref.id = IF step = "fetch" THEN Head(todo).id ELSE 0]
    /\ queue' = IF conn # "open" THEN queue
                ELSE Append(queue, [name |-> step, tag |-> tag',
                                    ref  |-> IF todo = <<>> THEN NoRef ELSE Head(todo),
                                    peek |-> ~req.markSeen])
    /\ UNCHANGED <<req, step, progressVars, outcomeVars, wire, serverVars, histVars>>

\* A line is read.
Read ==
    /\ wait # "no"
    /\ wire # <<>>
    /\ wire' = Tail(wire)
    /\ LET line == Head(wire) IN
       IF Verdict(line) \in {"line", "body"}
       THEN /\ wait' = Verdict(line)
            /\ got' = Collected(line)
            /\ UNCHANGED <<step, progressVars, outcomeVars, unlisted>>
       ELSE Completed(Verdict(line) = "ok", Collected(line))
    /\ UNCHANGED <<req, tag, queue, serverVars, noise, gaveUp, worded, intruded>>

\* A mutant: no deadline is set for the greeting.
DeadlineOfCommands ==
    /\ wait # "no"
    /\ Protocol # "smtp" /\ step # "greeting"
    /\ Completed(FALSE, Nothing)
    /\ gaveUp' = (gaveUp \/ step' \notin {"over", "dial"})
    /\ UNCHANGED <<req, tag, channelVars, serverVars, noise, worded, intruded>>

\* 60 seconds for the greeting, 75 for a command; SMTP sets no deadline.
Deadline ==
    /\ wait # "no"
    /\ Protocol # "smtp"
    /\ Completed(FALSE, Nothing)
    /\ gaveUp' = (gaveUp \/ step' \notin {"over", "dial"})
    /\ UNCHANGED <<req, tag, channelVars, serverVars, noise, worded, intruded>>

\* The server has hung up and nothing is left to read.
EndOfFile ==
    /\ wait # "no"
    /\ conn = "broken"
    /\ wire = <<>>
    /\ Completed(FALSE, Nothing)
    /\ UNCHANGED <<req, tag, channelVars, serverVars, noise, gaveUp, worded, intruded>>

-----------------------------------------------------------------------------
(* The server: it serves commands in order, and needs a login for most. *)

Public == {"greeting", "starttls", "caps", "plain", "authlogin", "user64", "token", "login",
           "user", "pass", "ehlo", "helo", "auth", "noop", "logout", "quit"}
Logins == {"token", "login", "pass", "auth"}

\* The lines of an answer.
Answer(c, ok, says, auth) ==
    LET done == [Line("done", c.tag) EXCEPT !.ok = ok, !.says = says]
        body == [Line(IF c.name \in {"top", "retr", "fetch"} THEN "data" ELSE "listing", 0)
                    EXCEPT !.ref = c.ref, !.full = c.name # "top"]
    IN IF ~ok THEN <<done>>
       ELSE CASE c.name \in Continued -> <<Line("plus", 0)>>
              [] c.name \in Multi -> <<done, body, Line("end", 0)>>
              [] c.name = "caps"  -> <<[Line("caps", 0) EXCEPT !.auth = auth], done>>
              [] c.name = "fetch" /\ c.ref.n # 0 -> <<body, done>>
              [] OTHER -> <<done>>

\* What a command does at the server.
Served(c) ==
    /\ accepted' = accepted \union (IF c.name \in Logins THEN {Protocol} ELSE {})
    /\ seen' = seen \union (IF c.name = "store" \/ (c.name = "fetch" /\ ~c.peek)
                            THEN {c.ref.n} \ {0} ELSE {})
    /\ envelope' = IF c.name = "rcpt" THEN envelope \union {c.ref.n} ELSE envelope
    /\ mailed' = IF c.name = "text" THEN envelope ELSE mailed

Serve ==
    /\ queue # <<>>
    /\ queue' = Tail(queue)
    /\ LET c == Head(queue) IN
       \E ok, says \in BOOLEAN, auth \in SUBSET {"PLAIN", "LOGIN"} :
          /\ ok => c.name \in Public \/ Protocol \in accepted
          /\ says => ~ok /\ Protocol = "imap"
          /\ auth = {} \/ (ok /\ c.name = "caps")
          /\ worded' = (worded \/ says)
          /\ wire' = IF conn = "open" THEN wire \o Answer(c, ok, says, auth) ELSE wire
          /\ IF ok THEN Served(c) ELSE UNCHANGED serverVars
    /\ UNCHANGED <<req, clientVars, noise, gaveUp, unlisted, intruded>>

\* IMAP: another client's change is reported, with or without the message's UID.
Unsolicited ==
    /\ conn = "open" /\ Protocol = "imap" /\ step \notin {"greeting", "starttls"}
    /\ noise < MaxNoise
    /\ noise' = noise + 1
    /\ \E id \in Ids \union {0} :
          /\ wire' = Append(wire, [Line("fetch", 0) EXCEPT !.ref.id = id])
          /\ intruded' = (intruded \/ id # 0)
    /\ UNCHANGED <<req, clientVars, queue, serverVars, gaveUp, unlisted, worded>>

\* The connection is lost, with what was on its way.
HangUp ==
    /\ conn = "open"
    /\ conn' = "broken"
    /\ queue' = <<>>
    /\ \E k \in 0 .. Len(wire) : wire' = SubSeq(wire, 1, k)
    /\ UNCHANGED <<req, step, wait, tag, got, progressVars, legs, result, serverVars, histVars>>

-----------------------------------------------------------------------------

Init ==
    /\ req \in Requests
    /\ legs = Legs(req)
    /\ conn = "none"
    /\ step = (IF legs = <<>> THEN "over" ELSE "dial")
    /\ wait = "no" /\ tag = 0
    /\ got = Nothing /\ caps = {} /\ todo = <<>> /\ shown = <<>>
    /\ result = (IF legs = <<>> THEN "ok" ELSE "none")
    /\ queue = <<>> /\ wire = <<>>
    /\ accepted = {} /\ seen = {} /\ envelope = {} /\ mailed = {}
    /\ noise = 0
    /\ gaveUp = FALSE /\ unlisted = FALSE /\ worded = FALSE /\ intruded = FALSE

ClientNext == Dial \/ Send \/ Read \/ Deadline \/ EndOfFile
ServerNext == Serve \/ Unsolicited \/ HangUp
Next == ClientNext \/ ServerNext

\* The client runs and its deadlines fire; nothing obliges the server.
Spec     == Init /\ [][Next]_vars
FairSpec == Spec /\ WF_vars(ClientNext)

-----------------------------------------------------------------------------
(* Properties *)

Steps == {"dial", "over", "greeting", "starttls", "caps", "plain", "authlogin", "user64", "token",
          "login", "select", "search", "fetch", "store", "logout", "user", "pass", "list", "uidl",
          "top", "retr", "quit", "ehlo", "helo", "auth", "noop", "mail", "rcpt", "data", "text"}
Mechs == {"PLAIN", "LOGIN"}
Lines == [kind : {"done", "plus", "caps", "data", "listing", "end", "fetch"}, tag : Nat,
          ok : BOOLEAN, says : BOOLEAN, ref : Refs, full : BOOLEAN, auth : SUBSET Mechs]
Commands == [name : Steps, tag : Nat, ref : Refs, peek : BOOLEAN]
Sessions == [protocol : {"imap", "pop3", "smtp"}, task : {"login", "list", "mark", "send"}]

\* An answer is awaited on a connection only, and an outcome ends everything.
TypeOK ==
    /\ req \in Requests
    /\ legs \in Seq(Sessions) /\ Len(legs) <= 2
    /\ conn \in {"none", "open", "broken", "closed"}
    /\ step \in Steps
    /\ wait \in {"no", "line", "body"}
    /\ wait # "no" => conn \in {"open", "broken"}
    /\ tag \in Nat
    /\ got \in [ref : Refs, full : BOOLEAN, auth : SUBSET Mechs]
    /\ caps \in SUBSET Mechs
    /\ todo \in Seq(Refs)
    /\ shown \in Seq([label : Nat, n : Nat, full : BOOLEAN])
    /\ result \in {"none", "ok", "error"}
    /\ (result = "none") <=> (step # "over")
    /\ queue \in Seq(Commands) /\ wire \in Seq(Lines)
    /\ accepted \subseteq {"imap", "pop3", "smtp"}
    /\ seen \subseteq Numbers
    /\ mailed \subseteq envelope /\ envelope \subseteq 1 .. Rcpts
    /\ noise \in 0 .. MaxNoise
    /\ {gaveUp, unlisted, worded, intruded} \subseteq BOOLEAN

\* What succeeds was allowed: every server of the request has accepted the
\* account's credentials.  Login must not take for its answer a late one (of
\* CAPABILITY, whose error is ignored), a prompt or an unsolicited line; a
\* refusal that contains " OK" does pass for success.
LoginMeansAccepted ==
    result = "ok" /\ ~worded => {Legs(req)[i].protocol : i \in DOMAIN Legs(req)} \subseteq accepted

\* A message is listed under its own id: its UID, its UIDL, or its number if
\* UIDL has failed.  In IMAP tags keep late answers away, and only an
\* unsolicited line with another message's UID can relabel; in POP3 it holds
\* until listPOP3Messages goes on after an answer it gave up on.
ContentUnderItsId ==
    (IF req.protocol = "imap" THEN ~intruded ELSE ~gaveUp) =>
        \A i \in DOMAIN shown :
            /\ shown[i].n \in Numbers
            /\ shown[i].label = IF unlisted THEN shown[i].n ELSE Box[shown[i].n]

\* The messages a listing is about: those asked for (POP3: by id or by number,
\* and not before the cutoff), or the newest after the cutoff.
ToShow ==
    IF req.uids = <<>> THEN {Newest(Found, req.limit)[i].n : i \in DOMAIN Newest(Found, req.limit)}
    ELSE IF req.protocol = "imap" THEN {n \in Numbers : Box[n] \in Wanted}
    ELSE {n \in Numbers \ req.old : {n, Box[n]} \intersect Wanted # {}}
Dated == \A n \in req.old : 1 .. n \subseteq req.old

\* A POP3 listing of named messages stops at the limit as well.
Fits == req.protocol = "pop3" /\ req.limit > 0 => Cardinality(ToShow) <= req.limit

\* A request that succeeds has done all of it: a listing shows every message it
\* is about (a POP3 listing stops at the first old message, so dates must follow
\* numbers), marking has marked all, a reply was taken for every recipient.
SuccessIsComplete ==
    result = "ok" /\ ~worded =>
        /\ req.op = "list" /\ ~gaveUp /\ ~unlisted /\ (IF req.uids = <<>> THEN Dated ELSE Fits) =>
              ToShow = {shown[i].n : i \in DOMAIN shown}
        /\ req.op = "mark" /\ req.protocol = "imap" =>
              {n \in Numbers : Box[n] \in Wanted} \subseteq seen
        /\ req.op = "reply" => mailed = 1 .. Rcpts

\* What a request leaves behind, also when it fails: only messages it was asked
\* to mark are marked (listing reads with BODY.PEEK), and a reply goes to all
\* its recipients or to none, however many RCPTs were taken before the failure.
TracesOnlyWhereAsked ==
    /\ seen \subseteq IF ~req.markSeen \/ req.op \notin {"list", "mark"} THEN {}
                      ELSE IF req.op = "mark" THEN {n \in Numbers : Box[n] \in Wanted} ELSE ToShow
    /\ mailed \in {{}, 1 .. Rcpts}

\* An SMTP session waits for a server that says nothing, without a deadline.
SilentSMTP == step # "over" /\ Protocol = "smtp" /\ wait # "no" /\ wire = <<>> /\ conn = "open"

\* Whatever the server does, a request is answered and its connections are
\* closed: every failure path closes, and the deadlines end what hangs.  Only
\* an SMTP server that falls silent keeps a request waiting for ever.
SessionEnds == <>[]((result # "none" /\ conn # "open") \/ SilentSMTP)

=============================================================================
