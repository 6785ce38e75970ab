------------------------- MODULE MailSessionProofs -------------------------
(***************************************************************************)
(* Proofs about MailSession, for any mailbox, any requests the plugin      *)
(* makes, any number of recipients and of unsolicited lines.               *)
(***************************************************************************)
EXTENDS MailSession, FiniteSetTheorems, SequenceTheorems, TLAPS

-----------------------------------------------------------------------------
(* Counting through a set of numbers *)

\* The least-number principle.
LEMMA Least ==
    ASSUME NEW S \in SUBSET Nat, S # {}
    PROVE  \E n \in S : \A m \in S : n <= m
<1>1. PICK n \in S : \A m \in S : <<m, n>> \notin OpToRel(<, Nat)
  BY NatLessThanWellFounded, WFMin
<1>2. \A m \in S : ~(m < n)
  BY <1>1 DEF OpToRel
<1>. QED  BY <1>2

\* Numbers from 1 to b.
Within(S, b) == \A m \in S : m \in Nat /\ 1 <= m /\ m <= b

\* The elements of a set up to a number, and how many they are.
UpTo(S, n) == {m \in S : m <= n}

LEMMA UpToFinite ==
    ASSUME NEW b \in Nat, NEW S, Within(S, b), NEW n
    PROVE  /\ IsFiniteSet(S) /\ IsFiniteSet(UpTo(S, n))
           /\ Cardinality(S) \in Nat /\ Cardinality(UpTo(S, n)) \in Nat
           /\ Cardinality(UpTo(S, n)) <= Cardinality(S)
<1>1. IsFiniteSet(S)
  <2>1. S \in SUBSET Nat /\ \A m \in S : m <= b
    BY DEF Within
  <2>. QED  BY <2>1, FS_BoundedSetOfNaturals
<1>2. UpTo(S, n) \in SUBSET S
  BY DEF UpTo, Within
<1>. QED  BY <1>1, <1>2, FS_Subset, FS_CardinalityType

\* Each position in a set is somebody's.
LEMMA NthExists ==
    ASSUME NEW b \in Nat, NEW S, Within(S, b), NEW i \in 1 .. Cardinality(S)
    PROVE  \E n \in S : Cardinality(UpTo(S, n)) = i
<1>. DEFINE Late == {k \in Nat : i <= Cardinality(UpTo(S, k))}
<1>1. Late \in SUBSET Nat /\ b \in Late
  <2>1. UpTo(S, b) = S
    BY DEF UpTo, Within
  <2>. QED  BY <2>1, UpToFinite
<1>2. PICK k \in Late : \A m \in Late : k <= m
  BY <1>1, Least
<1>3. k # 0
  <2>1. UpTo(S, 0) = {}
    BY DEF UpTo, Within
  <2>. QED  BY <2>1, FS_EmptySet
<1>4. k - 1 \in Nat /\ Cardinality(UpTo(S, k - 1)) < i
  <2>1. k - 1 \in Nat /\ k - 1 \notin Late
    BY <1>2, <1>3
  <2>. QED  BY <2>1, UpToFinite
<1>5. k \in S /\ UpTo(S, k) = UpTo(S, k - 1) \union {k} /\ k \notin UpTo(S, k - 1)
  <2>1. ASSUME k \notin S PROVE FALSE
    <3>1. UpTo(S, k) = UpTo(S, k - 1)
      BY <1>3, <2>1 DEF UpTo, Within
    <3>. QED  BY <1>4, <3>1, UpToFinite
  <2>. QED  BY <1>3, <2>1 DEF UpTo, Within
<1>6. Cardinality(UpTo(S, k)) = Cardinality(UpTo(S, k - 1)) + 1
  BY <1>5, UpToFinite, FS_AddElement
<1>7. Cardinality(UpTo(S, k)) = i
  <2>1. Cardinality(UpTo(S, k)) \in Nat /\ Cardinality(UpTo(S, k - 1)) \in Nat /\ i \in Nat
    BY UpToFinite
  <2>2. i <= Cardinality(UpTo(S, k))
    BY <1>2
  <2>. QED  BY <1>4, <1>6, <2>1, <2>2
<1>. QED  BY <1>5, <1>7

LEMMA NthIn ==
    ASSUME NEW b \in Nat, NEW S, Within(S, b), NEW i \in 1 .. Cardinality(S)
    PROVE  Nth(S, i) \in S /\ Cardinality(UpTo(S, Nth(S, i))) = i
<1>1. \E n \in S : Cardinality({m \in S : m <= n}) = i
  BY NthExists DEF UpTo
<1>2. Nth(S, i) \in S /\ Cardinality({m \in S : m <= Nth(S, i)}) = i
  BY <1>1 DEF Nth
<1>. QED  BY <1>2 DEF UpTo

\* Two elements of a set have different positions.
LEMMA PositionsDiffer ==
    ASSUME NEW b \in Nat, NEW S, Within(S, b), NEW m \in S, NEW n \in S, m < n
    PROVE  Cardinality(UpTo(S, m)) < Cardinality(UpTo(S, n))
<1>1. UpTo(S, m) \in SUBSET UpTo(S, n) /\ n \in UpTo(S, n) /\ n \notin UpTo(S, m)
  BY DEF UpTo, Within
<1>. QED  BY <1>1, UpToFinite, FS_Subset

\* Whoever has a position is found there.
LEMMA NthIs ==
    ASSUME NEW b \in Nat, NEW S, Within(S, b), NEW n \in S
    PROVE  /\ Cardinality(UpTo(S, n)) \in 1 .. Cardinality(S)
           /\ Nth(S, Cardinality(UpTo(S, n))) = n
<1>1. UpTo(S, n) # {} /\ n \in UpTo(S, n)
  BY DEF UpTo, Within
<1>2. Cardinality(UpTo(S, n)) \in 1 .. Cardinality(S)
  BY <1>1, UpToFinite, FS_EmptySet
<1>3. PICK k \in S : k = Nth(S, Cardinality(UpTo(S, n))) /\ Cardinality(UpTo(S, k)) = Cardinality(UpTo(S, n))
  BY <1>2, NthIn
<1>4. k = n
  <2>1. k \in Nat /\ n \in Nat
    BY <1>3 DEF Within
  <2>2. ~(k < n) /\ ~(n < k)
    BY <1>3, PositionsDiffer, UpToFinite
  <2>. QED  BY <2>1, <2>2
<1>. QED  BY <1>2, <1>3, <1>4

LEMMA NthDiffer ==
    ASSUME NEW b \in Nat, NEW S, Within(S, b),
           NEW i \in 1 .. Cardinality(S), NEW j \in 1 .. Cardinality(S), i # j
    PROVE  Nth(S, i) # Nth(S, j)
BY NthIn

\* In an interval the positions are the numbers.
LEMMA NthOfInterval ==
    ASSUME NEW b \in Nat, NEW a \in 0 .. b
    PROVE  /\ Cardinality(a + 1 .. b) = b - a
           /\ \A i \in 1 .. b - a : Nth(a + 1 .. b, i) = a + i
<1>1. Cardinality(a + 1 .. b) = b - a
  <2>1. a + 1 \in Int /\ b \in Int /\ a \in Nat /\ a <= b
    OBVIOUS
  <2>2. Cardinality(a + 1 .. b) = IF a + 1 > b THEN 0 ELSE b - (a + 1) + 1
    BY <2>1, FS_Interval
  <2>. QED  BY <2>1, <2>2
<1>2. ASSUME NEW i \in 1 .. b - a PROVE Nth(a + 1 .. b, i) = a + i
  <2>1. a + i \in a + 1 .. b /\ Within(a + 1 .. b, b)
    BY DEF Within
  <2>2. UpTo(a + 1 .. b, a + i) = a + 1 .. a + i
    BY DEF UpTo, Within
  <2>3. Cardinality(a + 1 .. a + i) = i
    BY FS_Interval
  <2>. QED  BY <2>1, <2>2, <2>3, NthIs
<1>. QED  BY <1>1, <1>2

-----------------------------------------------------------------------------
(* The inductive invariant *)

Active == step \notin {"dial", "over"}

\* The commands of a session.
LoginSteps == {"greeting", "starttls", "caps", "plain", "authlogin", "user64", "token", "login",
               "user", "pass", "ehlo", "helo", "auth"}
Path(s) ==
    CASE s.protocol = "imap" /\ s.task = "login" ->
            {"greeting", "starttls", "caps", "plain", "authlogin", "user64", "token", "login", "logout"}
      [] s.protocol = "imap" /\ s.task = "list" ->
            {"greeting", "starttls", "caps", "plain", "authlogin", "user64", "token", "login", "logout",
             "select", "search", "fetch", "store"}
      [] s.protocol = "imap" /\ s.task = "mark" ->
            {"greeting", "starttls", "caps", "plain", "authlogin", "user64", "token", "login", "logout",
             "select", "store"}
      [] s.protocol = "pop3" /\ s.task = "login" -> {"greeting", "starttls", "user", "pass", "quit"}
      [] s.protocol = "pop3" /\ s.task = "list" ->
            {"greeting", "starttls", "user", "pass", "quit", "list", "uidl", "top", "retr"}
      [] s.protocol = "smtp" /\ s.task = "login" ->
            {"greeting", "starttls", "ehlo", "helo", "auth", "quit", "noop"}
      [] s.protocol = "smtp" /\ s.task = "send" ->
            {"greeting", "starttls", "ehlo", "helo", "auth", "quit", "mail", "rcpt", "data", "text"}
      [] OTHER -> {}
InLoop == {"fetch", "store", "top", "retr", "rcpt"}

\* Where a request is: which session, at which of its commands, on which connection.
Placed ==
    /\ legs = Legs(req) \/ (Len(Legs(req)) = 2 /\ legs = Tail(Legs(req)))
    /\ legs = <<>> => step = "over" /\ queue = <<>> /\ conn = "none"
    /\ result = "ok" => Len(legs) <= 1
    /\ Active => step \in Path(legs[1])
    /\ Active <=> conn \in {"open", "broken"}
    /\ conn = "broken" => queue = <<>>
    /\ step = "greeting" => wait # "no"
    /\ step \in InLoop => todo # <<>>
    /\ ~Active => wait = "no"
    /\ step = "store" /\ Task = "list" => req.markSeen
    /\ step = "search" => req.uids = <<>>

\* Nothing is listed, and in POP3 nothing given up on, before the messages are gone through.
Unshown ==
    step \in LoginSteps \union {"dial", "select", "search", "list", "uidl"} /\ Protocol # "smtp"
        => shown = <<>> /\ ~unlisted /\ (Protocol = "pop3" => ~gaveUp)

\* What has been taken for the acceptance of a login was it.
Past == {"select", "search", "fetch", "store", "logout", "list", "uidl", "top", "retr", "noop",
         "mail", "rcpt", "data", "text", "quit"}
LoggedIn ==
    ~worded =>
        /\ step \in Past => Protocol \in accepted
        /\ legs # Legs(req) => Legs(req)[1].protocol \in accepted
        /\ result = "ok" => \A i \in 1 .. Len(Legs(req)) : Legs(req)[i].protocol \in accepted

\* The messages named, and those that may be marked.
Named == {n \in Numbers : Box[n] \in Wanted}
MayMark ==
    IF ~req.markSeen \/ req.op \notin {"list", "mark"} THEN {}
    ELSE IF req.op = "mark" THEN Named ELSE ToShow

\* What a command on its way will do when it is served, whenever that is.
Harmless(c) ==
    /\ c.name = "store" \/ (c.name = "fetch" /\ ~c.peek) => c.ref.n \in MayMark \union {0}
    /\ c.name = "rcpt" => c.ref.n \in 1 .. Rcpts
    /\ c.name = "text" => envelope = 1 .. Rcpts
QueueHarmless == \A i \in 1 .. Len(queue) : Harmless(queue[i])

\* References name messages of the mailbox by number and id.
IsRef(ref) == ref.n = 0 \/ (ref.n \in Numbers /\ ref.id = Box[ref.n])
Ns(s) == {s[i].n : i \in 1 .. Len(s)}

\* An IMAP session: what is done and what is still to be done make up the whole.
Goal == IF Task = "mark" THEN Named ELSE ToShow
IMAPWork ==
    Active /\ Protocol = "imap" =>
        /\ step \in {"fetch", "store"} =>
              /\ \A i \in 1 .. Len(todo) : IsRef(todo[i])
              /\ Ns(todo) \subseteq Goal \union {0}
        /\ step = "fetch" => Ns(shown) \union (Ns(todo) \ {0}) = ToShow
        /\ Task = "list" /\ step = "store" => Ns(shown) \union (Ns(Tail(todo)) \ {0}) = ToShow
        /\ Task = "list" /\ step = "logout" => Ns(shown) = ToShow
        /\ Task = "mark" /\ step = "store" /\ ~worded => Named \subseteq seen \union Ns(todo)
        /\ Task = "mark" /\ step = "logout" /\ ~worded => Named \subseteq seen

\* The commands that a tag may belong to: a dialogue to authenticate has one.
Own ==
    IF step = "token" THEN {"plain", "authlogin", "user64", "token"}
    ELSE IF step = "user64" THEN {"authlogin", "user64"}
    ELSE {step}
Tagged == wait # "no" \/ step \in {"user64", "token"}

\* Tags tell the answer to the current command from late ones.
CommandFits(c) ==
    /\ c.name \in Path(legs[1])
    /\ c.tag <= tag
    /\ c.tag = tag /\ Tagged => c.name \in Own
    /\ c.tag = tag /\ Tagged /\ step \in {"fetch", "store"} => c.ref = Head(todo)
    /\ c.name = "fetch" => step = "fetch" /\ wait # "no" /\ c.tag = tag
Meant ==
    /\ step \notin Continued
    /\ step \in {"token", "login"} => "imap" \in accepted
    /\ step = "store" => Head(todo).n \in seen \union {0}
LineFits(l) ==
    /\ l.tag <= tag
    /\ l.says => worded
    /\ l.kind = "done" /\ l.ok /\ l.tag = tag /\ Tagged => Meant
    /\ l.kind = "done" /\ l.tag = tag /\ step = "fetch" /\ wait # "no" => queue = <<>>
    /\ l.kind = "data" =>
          step = "fetch" /\ wait # "no" /\ l.ref = Head(todo) /\ l.ref.n # 0 /\ queue = <<>>
    /\ l.kind = "fetch" => l.ref.n = 0 /\ (~intruded => l.ref.id = 0)
IMAPChannel ==
    Active /\ Protocol = "imap" =>
        /\ \A i \in 1 .. Len(queue) : CommandFits(queue[i])
        /\ \A i \in 1 .. Len(queue) : queue[i].name = "fetch" => i = Len(queue)
        /\ \A i \in 1 .. Len(wire) : LineFits(wire[i])
        /\ \A i \in 1 .. Len(wire) : \A j \in 1 .. i :
              wire[i].kind = "data" /\ wire[j].kind = "done" => wire[j].tag < tag
IMAPGot ==
    Active /\ Protocol = "imap" /\ step = "fetch" /\ wait # "no" =>
        got.ref.n = 0 \/ (got.ref.n = Head(todo).n /\ (~intruded => got.ref = Head(todo)))

\* Without tags the answers have to come in step with the commands.
InStep == Active /\ (Protocol = "smtp" \/ (Protocol = "pop3" /\ ~gaveUp))
Effect ==
    /\ step \in Logins => Protocol \in accepted
    /\ step = "rcpt" => Head(todo).n \in envelope
    /\ step = "text" => mailed = 1 .. Rcpts
Ref == IF todo = <<>> THEN NoRef ELSE Head(todo)
IsBody(l) == l.kind \in {"data", "listing"} /\ (step \in {"top", "retr"} => l.kind = "data" /\ l.ref = Ref)
Asking ==
    /\ Len(queue) <= 1
    /\ queue # <<>> => wire = <<>> /\ wait = "line" /\ queue[1].name = step /\ queue[1].ref = Ref
    /\ wait # "no" /\ wire = <<>> /\ conn = "open" => queue # <<>>
    /\ wait = "no" => queue = <<>> /\ wire = <<>>
Answering ==
    wait = "line" /\ wire # <<>> =>
        /\ wire[1].kind = "done" /\ ~wire[1].says
        /\ wire[1].ok => Effect
        /\ Len(wire) = 1 => conn = "broken" \/ ~wire[1].ok \/ step \notin Multi
        /\ Len(wire) > 1 => wire[1].ok /\ step \in Multi /\ IsBody(wire[2])
        /\ Len(wire) = 2 => conn = "broken"
        /\ Len(wire) > 2 => Len(wire) = 3 /\ wire[3].kind = "end"
Continuing ==
    wait = "body" =>
        /\ step \in Multi
        /\ wire # <<>> /\ wire[1].kind = "end" =>
              Len(wire) = 1 /\ (step \in {"top", "retr"} => got.ref = Ref)
        /\ wire # <<>> /\ wire[1].kind # "end" =>
              /\ IsBody(wire[1])
              /\ Len(wire) = 1 => conn = "broken"
              /\ Len(wire) > 1 => Len(wire) = 2 /\ wire[2].kind = "end"
StepChannel == InStep => Asking /\ Answering /\ Continuing

\* An SMTP session that sends: whom the server has taken, and who is left.
SMTPWork ==
    Active /\ Protocol = "smtp" /\ Task = "send" =>
        /\ step = "rcpt" =>
              /\ Len(todo) <= Rcpts
              /\ \A i \in 1 .. Len(todo) : todo[i].n = Rcpts - Len(todo) + i
              /\ 1 .. Rcpts - Len(todo) \subseteq envelope
        /\ step \in {"data", "text"} => envelope = 1 .. Rcpts
        /\ step = "quit" => mailed = 1 .. Rcpts

\* A POP3 listing: how a message is known; what is listed when all is.
Known(n) == [n |-> n, id |-> IF unlisted THEN 0 ELSE Box[n]]
POPWhole == (IF req.uids = <<>> THEN Dated ELSE Fits) => Ns(shown) = ToShow

\* Named messages, each once: s are listed, t still to be read.
Distinct(s) == \A i, j \in 1 .. Len(s) : i # j => s[i].n # s[j].n
ByName(s, t) ==
    /\ Distinct(s) /\ Distinct(t)
    /\ Ns(s) \cap Ns(t) = {}
    /\ Ns(s) \union (Ns(t) \ req.old) = ToShow

\* The newest down to the limit: those above a number are listed.
Lowest == IF req.limit = 0 \/ Len(Box) <= req.limit THEN 0 ELSE Len(Box) - req.limit
Down(s, t) ==
    /\ Ns(s) = Len(Box) - Len(s) + 1 .. Len(Box)
    /\ Len(t) = Len(Box) - Len(s) - Lowest
    /\ \A i \in 1 .. Len(t) : t[i].n = Len(Box) - Len(s) + 1 - i
POPWork ==
    Active /\ Protocol = "pop3" =>
        /\ step = "uidl" => todo = [n \in Numbers |-> [n |-> n, id |-> 0]]
        /\ step \in {"top", "retr"} =>
              \A i \in 1 .. Len(todo) : todo[i].n \in Numbers /\ todo[i] = Known(todo[i].n)
        /\ step \in {"top", "retr"} /\ ~gaveUp =>
              /\ req.limit = 0 \/ Len(shown) < req.limit
              /\ Ns(shown) \cap req.old = {}
              /\ IF req.uids = <<>> THEN Down(shown, todo) ELSE ~unlisted => ByName(shown, todo)
        /\ Task = "list" /\ step = "quit" /\ ~gaveUp /\ ~unlisted => POPWhole

\* IMAP has no list of ids that could fail.
NotUnlisted == req.protocol = "imap" => ~unlisted
Labelled ==
    (IF req.protocol = "imap" THEN ~intruded ELSE ~gaveUp) =>
        \A i \in 1 .. Len(shown) :
            /\ shown[i].n \in Numbers
            /\ shown[i].label = IF unlisted THEN shown[i].n ELSE Box[shown[i].n]

\* What a request that was answered has done.
Finished ==
    result = "ok" =>
        /\ req.op = "list" /\ req.protocol = "imap" => Ns(shown) = ToShow
        /\ req.op = "list" /\ req.protocol = "pop3" /\ ~gaveUp /\ ~unlisted => POPWhole
        /\ req.op = "mark" /\ req.protocol = "imap" /\ ~worded => Named \subseteq seen
        /\ req.op = "reply" => mailed = 1 .. Rcpts
Traces == seen \subseteq MayMark /\ mailed \in {{}, 1 .. Rcpts}

IInv ==
    /\ TypeOK /\ Placed /\ Unshown /\ LoggedIn /\ QueueHarmless
    /\ IMAPWork /\ IMAPChannel /\ IMAPGot
    /\ StepChannel /\ SMTPWork /\ POPWork
    /\ NotUnlisted /\ Labelled /\ Finished /\ Traces

-----------------------------------------------------------------------------
(* Sessions *)

LEMMA Pair ==
    ASSUME NEW a, NEW b
    PROVE  /\ <<a>> \o <<b>> = <<a, b>>
           /\ Tail(<<a, b>>) = <<b>> /\ Len(<<a, b>>) = 2 /\ Len(<<a>>) = 1 /\ Len(<<b>>) = 1
           /\ Tail(<<a>>) = <<>> /\ <<>> \o <<b>> = <<b>>
<1>. DEFINE S == {a, b}
<1>1. <<a>> \in Seq(S) /\ <<b>> \in Seq(S) /\ <<a, b>> \in Seq(S)
  OBVIOUS
<1>2. /\ <<a>> \o <<b>> \in Seq(S) /\ Len(<<a>> \o <<b>>) = 2
      /\ (<<a>> \o <<b>>)[1] = a /\ (<<a>> \o <<b>>)[2] = b
  BY <1>1, ConcatProperties
<1>3. <<a>> \o <<b>> = <<a, b>>
  <2>1. \A i \in 1 .. Len(<<a>> \o <<b>>) : (<<a>> \o <<b>>)[i] = <<a, b>>[i]
    <3>1. ASSUME NEW i \in 1 .. 2 PROVE i = 1 \/ i = 2
      OBVIOUS
    <3>. QED  BY <1>2, <3>1
  <2>2. Len(<<a, b>>) = 2
    OBVIOUS
  <2>. HIDE DEF S
  <2>. QED  BY <1>1, <1>2, <2>1, <2>2, SeqEqual
<1>. QED  BY <1>3

\* The sessions of each kind of request.
LEMMA LegsOf ==
    ASSUME NEW r \in Request
    PROVE  /\ r.op = "login" => \/ Legs(r) = <<[protocol |-> r.protocol, task |-> "login"]>>
                                \/ Legs(r) = <<[protocol |-> r.protocol, task |-> "login"],
                                               [protocol |-> "smtp", task |-> "login"]>>
           /\ r.op = "list" => Legs(r) = <<[protocol |-> r.protocol, task |-> "list"]>>
           /\ r.op = "mark" => \/ r.protocol = "pop3" /\ Legs(r) = <<>>
                               \/ /\ r.protocol = "imap"
                                  /\ Legs(r) = <<[protocol |-> "imap", task |-> "mark"]>>
           /\ r.op = "reply" => \/ Legs(r) = <<[protocol |-> "smtp", task |-> "send"]>>
                                \/ /\ r.uids # <<>>
                                   /\ Legs(r) = <<[protocol |-> r.protocol, task |-> "list"],
                                                  [protocol |-> "smtp", task |-> "send"]>>
<1>. r.op \in {"login", "list", "mark", "reply"} /\ r.protocol \in {"imap", "pop3"} /\ r.smtp \in BOOLEAN
  BY DEF Request
<1>1. CASE r.op = "login"
  <2>1. Legs(r) = LoginLegs(r)
    BY <1>1 DEF Legs
  <2>2. CASE r.smtp
    BY <1>1, <2>1, <2>2, Pair DEF LoginLegs, Incoming, Outgoing
  <2>3. CASE ~r.smtp
    <3>1. <<[protocol |-> r.protocol, task |-> "login"]>> \o <<>> = <<[protocol |-> r.protocol, task |-> "login"]>>
      OBVIOUS
    <3>. QED  BY <1>1, <2>1, <2>3, <3>1 DEF LoginLegs, Incoming
  <2>. QED  BY <1>1, <2>2, <2>3
<1>2. CASE r.op = "list"
  BY <1>2 DEF Legs, Incoming
<1>3. CASE r.op = "mark"
  BY <1>3 DEF Legs, MarkLegs, Incoming
<1>4. CASE r.op = "reply"
  <2>1. Legs(r) = ReplyLegs(r)
    BY <1>4 DEF Legs
  <2>. QED  BY <1>4, <2>1, Pair DEF ReplyLegs, Incoming, Outgoing
<1>. QED  BY <1>1, <1>2, <1>3, <1>4

\* What a session says of its request.
Fitting ==
    /\ Protocol \in {"imap", "pop3", "smtp"} /\ Task \in {"login", "list", "mark", "send"}
    /\ Protocol # "smtp" => Protocol = req.protocol /\ legs = Legs(req) /\ Task \in {"login", "list", "mark"}
    /\ Protocol = "smtp" => Len(legs) = 1 /\ Task \in {"login", "send"}
    /\ Task = "list" => req.op \in {"list", "reply"} /\ (req.op = "reply" => req.uids # <<>>)
    /\ Task = "mark" => req.op = "mark" /\ Protocol = "imap"
    /\ Task = "send" => req.op = "reply"
    /\ req.op = "list" => Task = "list" /\ Protocol = req.protocol
    /\ req.op = "mark" => Task = "mark"
    /\ req.op = "reply" => (Task = "list" /\ Len(legs) = 2) \/ Task = "send"
    /\ Len(legs) \in {1, 2} /\ Len(Legs(req)) \in {1, 2}
    /\ legs # Legs(req) => Len(legs) = 1 /\ Protocol = "smtp"
    /\ Len(legs) = 1 => legs = <<[protocol |-> Protocol, task |-> Task]>>
    /\ Len(legs) > 1 =>
          /\ legs = Legs(req) /\ Protocol # "smtp"
          /\ legs = <<[protocol |-> Protocol, task |-> Task], Legs(req)[2]>>
          /\ Legs(req)[2] = [protocol |-> "smtp", task |-> IF req.op = "reply" THEN "send" ELSE "login"]
    /\ Len(Legs(req)) = 2 => Legs(req)[2].protocol = "smtp"

LEMMA SessionFits ==
    ASSUME TypeOK, Placed, legs # <<>>
    PROVE  Fitting
<1>. DEFINE in(task)  == [protocol |-> req.protocol, task |-> task]
            out(task) == [protocol |-> "smtp", task |-> task]
<1>1. req \in Request /\ req.op \in {"login", "list", "mark", "reply"} /\ req.protocol \in {"imap", "pop3"}
  BY RequestsAssumption DEF TypeOK, Request
<1>2. \/ req.op = "login" /\ \/ Legs(req) = <<in("login")>>
                             \/ Legs(req) = <<in("login"), out("login")>>
      \/ req.op = "list" /\ Legs(req) = <<in("list")>>
      \/ req.op = "mark" /\ (Legs(req) = <<>> \/ (req.protocol = "imap" /\ Legs(req) = <<in("mark")>>))
      \/ req.op = "reply" /\ \/ Legs(req) = <<out("send")>>
                             \/ req.uids # <<>> /\ Legs(req) = <<in("list"), out("send")>>
  BY <1>1, LegsOf
<1>6. legs = Legs(req) \/ (Len(Legs(req)) = 2 /\ legs = Tail(Legs(req)))
  BY DEF Placed
<1>. USE <1>1, <1>6 DEF Fitting, Protocol, Task
<1>3. CASE \E s : Legs(req) = <<s>>
  <2>1. legs = Legs(req) /\ Len(legs) = 1
    BY <1>3, Pair
  <2>. QED  BY <1>2, <1>3, <2>1
<1>4. CASE Len(Legs(req)) = 2 /\ legs = Legs(req)
  <2>1. \/ req.op = "login" /\ legs = <<in("login"), out("login")>>
        \/ req.op = "reply" /\ req.uids # <<>> /\ legs = <<in("list"), out("send")>>
    <3>1. ASSUME NEW s, Legs(req) = <<s>> PROVE FALSE
      BY <1>4, <3>1, Pair
    <3>2. Legs(req) # <<>>
      BY <1>4
    <3>. QED  BY <1>2, <1>4, <3>1, <3>2
  <2>2. CASE req.op = "login"
    BY <1>4, <2>1, <2>2
  <2>3. CASE req.op = "reply"
    BY <1>4, <2>1, <2>3
  <2>. QED  BY <2>1, <2>2, <2>3
<1>5. CASE Len(Legs(req)) = 2 /\ legs = Tail(Legs(req))
  <2>1. ASSUME NEW x, NEW y, Legs(req) = <<x, y>> PROVE legs = <<y>> /\ Len(legs) = 1
    BY <1>5, <2>1, Pair
  <2>2. CASE req.op = "login"
    <3>1. Legs(req) = <<in("login"), out("login")>>
      BY <1>2, <1>5, <2>2, Pair
    <3>2. legs = <<out("login")>> /\ Len(legs) = 1
      BY <2>1, <3>1
    <3>. QED  BY <1>5, <2>2, <3>1, <3>2
  <2>3. CASE req.op = "reply"
    <3>1. req.uids # <<>> /\ Legs(req) = <<in("list"), out("send")>>
      BY <1>2, <1>5, <2>3, Pair
    <3>2. legs = <<out("send")>> /\ Len(legs) = 1
      BY <2>1, <3>1
    <3>. QED  BY <1>5, <2>3, <3>1, <3>2
  <2>4. req.op \in {"login", "reply"}
    <3>1. ASSUME NEW s, Legs(req) = <<s>> PROVE FALSE
      BY <1>5, <3>1, Pair
    <3>2. Legs(req) # <<>>
      BY <1>5
    <3>. QED  BY <1>2, <3>1, <3>2
  <2>. QED  BY <2>2, <2>3, <2>4
<1>. QED  BY <1>2, <1>3, <1>4, <1>5

-----------------------------------------------------------------------------
(* What may come of a command *)

Goes == wait' = "no" /\ UNCHANGED outcomeVars
Looping(refs) ==
    /\ Goes
    /\ todo' = refs
    /\ step' = IF refs = <<>> THEN Farewell
               ELSE IF Task = "mark" THEN "store"
               ELSE IF Protocol = "imap" THEN "fetch" ELSE "top"

\* From one command to another, with nothing else to it.
MovesIMAP == {<<"greeting", "starttls">>, <<"greeting", "caps">>, <<"starttls", "caps">>,
              <<"caps", "plain">>, <<"caps", "authlogin">>, <<"caps", "login">>,
              <<"plain", "token">>, <<"authlogin", "user64">>, <<"user64", "token">>}
MovesPOP3 == {<<"greeting", "starttls">>, <<"greeting", "user">>, <<"starttls", "user">>,
              <<"user", "pass">>}
MovesSMTP == {<<"greeting", "ehlo">>, <<"ehlo", "starttls">>, <<"ehlo", "auth">>, <<"ehlo", "helo">>,
              <<"starttls", "auth">>}
Moves ==
    \/ Protocol = "imap" /\ \/ <<step, step'>> \in MovesIMAP
                            \/ Task = "login" /\ step \in {"token", "login"} /\ step' = "logout"
                            \/ Task \in {"list", "mark"} /\ step \in {"token", "login"} /\ step' = "select"
                            \/ Task = "list" /\ step = "select" /\ step' = "search" /\ req.uids = <<>>
    \/ Protocol = "pop3" /\ \/ <<step, step'>> \in MovesPOP3
                            \/ Task = "login" /\ step = "pass" /\ step' = "quit"
                            \/ Task = "list" /\ step = "pass" /\ step' = "list"
                            \/ Task = "list" /\ step = "top" /\ step' = "retr"
    \/ Protocol = "smtp" /\ \/ <<step, step'>> \in MovesSMTP
                            \/ Task = "login" /\ step = "auth" /\ step' = "noop"
                            \/ Task = "login" /\ step = "noop" /\ step' = "quit"
                            \/ Task = "send" /\ step = "auth" /\ step' = "mail"
                            \/ Task = "send" /\ step = "data" /\ step' = "text"
                            \/ Task = "send" /\ step = "text" /\ step' = "quit"

\* The ways for a session to go on.
Ended == Close("error") /\ UNCHANGED shown
Left == step = Farewell /\ Close("ok") /\ UNCHANGED shown
Moved(ok) ==
    /\ ok \/ step \in {"caps", "ehlo", "top"}
    /\ Moves /\ Goes
    /\ caps' \in SUBSET Mechs
    /\ UNCHANGED <<todo, shown>>
Numbered(ok) ==
    /\ ok /\ Protocol = "pop3" /\ Task = "list" /\ step = "list" /\ step' = "uidl" /\ Goes
    /\ todo' = [n \in Numbers |-> [n |-> n, id |-> 0]]
    /\ UNCHANGED <<caps, shown>>
Chosen(ok) ==
    /\ Protocol = "pop3" /\ Task = "list" /\ step = "uidl"
    /\ Looping(Selected(IF ok THEN Oldest(Numbers) ELSE todo))
    /\ UNCHANGED <<caps, shown>>
AskedFor(ok) ==
    /\ ok /\ Protocol = "imap" /\ Task \in {"list", "mark"} /\ step = "select"
    /\ Task = "list" => req.uids # <<>>
    /\ Looping(Asked)
    /\ UNCHANGED <<caps, shown>>
Searched(ok) ==
    /\ ok /\ Protocol = "imap" /\ Task = "list" /\ step = "search" /\ Looping(Newest(Found, req.limit))
    /\ UNCHANGED <<caps, shown>>
FetchedOne(ok, g) ==
    /\ ok /\ Protocol = "imap" /\ Task = "list" /\ step = "fetch" /\ g.ref.n # 0
    /\ Shown(g.ref.id, g)
    /\ IF req.markSeen THEN step' = "store" /\ Goes /\ UNCHANGED todo ELSE Looping(Tail(todo))
    /\ UNCHANGED caps
StoredOne(ok) ==
    /\ Protocol = "imap" /\ step = "store" /\ (Task = "list" \/ (ok /\ Task = "mark"))
    /\ Looping(Tail(todo))
    /\ UNCHANGED <<caps, shown>>
Skipped(ok, g) ==
    /\ ok /\ Protocol = "pop3" /\ Task = "list" /\ step \in {"top", "retr"} /\ g.ref.n \in req.old
    /\ IF req.uids # <<>> THEN Looping(Tail(todo)) ELSE step' = "quit" /\ Goes /\ UNCHANGED todo
    /\ UNCHANGED <<caps, shown>>
KeptOne(ok, g) ==
    /\ ok /\ Protocol = "pop3" /\ Task = "list" /\ step \in {"top", "retr"} /\ g.ref.n \notin req.old
    /\ Shown(IF Head(todo).id = 0 THEN Head(todo).n ELSE Head(todo).id, g)
    /\ \/ Close("error")
       \/ /\ req.limit > 0 /\ Len(shown') >= req.limit
          /\ step' = "quit" /\ Goes /\ UNCHANGED <<caps, todo>>
       \/ /\ ~(req.limit > 0 /\ Len(shown') >= req.limit)
          /\ Looping(Tail(todo)) /\ UNCHANGED caps
Addressed(ok) ==
    /\ ok /\ Protocol = "smtp" /\ Task = "send" /\ step \in {"mail", "rcpt"} /\ Goes
    /\ todo' = IF step = "mail" THEN [i \in 1 .. Rcpts |-> [n |-> i, id |-> 0]] ELSE Tail(todo)
    /\ step' = IF todo' = <<>> THEN "data" ELSE "rcpt"
    /\ UNCHANGED <<caps, shown>>
Outcome(ok, g) ==
    \/ Ended \/ Left \/ Moved(ok) \/ Numbered(ok) \/ Chosen(ok) \/ AskedFor(ok) \/ Searched(ok)
    \/ FetchedOne(ok, g) \/ StoredOne(ok) \/ Skipped(ok, g) \/ KeptOne(ok, g) \/ Addressed(ok)

\* Moving through a list of messages: on to the next, or the context has ended.
LEMMA NextOfIs ==
    ASSUME NEW refs, NextOf(refs)
    PROVE  \/ Looping(refs) /\ UNCHANGED caps
           \/ (Task = "mark" \/ Protocol = "pop3") /\ Close("error")
BY DEF NextOf, Looping, Goes, Goto

LEMMA Authenticated ==
    ASSUME TypeOK, Placed, Active, Fitting, NEW ok \in BOOLEAN, NEW g, g.auth \in SUBSET Mechs,
           ok \/ step \in Ignored,
           \/ RefreshCapabilities(ok, g) \/ AuthenticatePlain \/ AuthenticateLogin \/ LoginPOP3
           \/ TestIMAPLogin \/ TestPOP3Login \/ TestSMTPLogin
    PROVE  Outcome(ok, g)
<1>1. step \in Path(legs[1])
  BY DEF Placed
<1>2. CASE RefreshCapabilities(ok, g)
  <2>1. Protocol = "imap"
    BY <1>1, <1>2 DEF RefreshCapabilities, Path, Protocol
  <2>2. caps' \in SUBSET Mechs /\ Goes /\ UNCHANGED <<todo, shown>> /\ step' \in {"plain", "authlogin", "login"}
    BY <1>2 DEF RefreshCapabilities, FirstOffered, Goto, Goes
  <2>3. Moves
    BY <1>2, <2>1, <2>2 DEF Moves, MovesIMAP, RefreshCapabilities
  <2>. QED  BY <1>2, <2>2, <2>3 DEF Moved, Outcome, RefreshCapabilities
<1>3. CASE ~RefreshCapabilities(ok, g)
  <2>1. caps \in SUBSET Mechs
    BY DEF TypeOK
  <2>2. Goes /\ caps' = caps /\ UNCHANGED <<todo, shown>> /\ ok
    BY <1>3 DEF AuthenticatePlain, AuthenticateLogin, LoginPOP3, TestIMAPLogin, TestPOP3Login, TestSMTPLogin,
                To, Goto, Goes, progressVars, outcomeVars, Ignored
  <2>3. Moves
    BY <1>1, <1>3 DEF AuthenticatePlain, AuthenticateLogin, LoginPOP3, TestIMAPLogin, TestPOP3Login,
                TestSMTPLogin, To, Goto, Moves, MovesIMAP, MovesPOP3, MovesSMTP, Path, Protocol, Task
  <2>. QED  BY <2>1, <2>2, <2>3 DEF Moved, Outcome
<1>. QED  BY <1>2, <1>3

LEMMA ListedIMAP ==
    ASSUME TypeOK, Placed, Active, Fitting, NEW ok \in BOOLEAN, NEW g, ok \/ step \in Ignored,
           ListIMAP(g) \/ MarkIMAP
    PROVE  Outcome(ok, g)
<1>1. step \in Path(legs[1]) /\ Protocol \in {"imap", "pop3", "smtp"} /\ caps \in SUBSET Mechs
  BY DEF Placed, Fitting, TypeOK
<1>2. Protocol = "imap" /\ Task \in {"list", "mark"}
  <2>1. Task \in {"list", "mark"} /\ step \in {"token", "login", "select", "search", "fetch", "store"}
    BY DEF ListIMAP, MarkIMAP
  <2>. QED  BY <1>1, <2>1 DEF Path, Protocol, Task
<1>3. ok \/ (step = "store" /\ Task = "list")
  BY <1>2 DEF Ignored, ListIMAP, MarkIMAP
<1>4. CASE Fail
  BY <1>4 DEF Fail, Ended, Outcome
<1>5. CASE To("select") /\ step \in {"token", "login"}
  BY <1>1, <1>2, <1>3, <1>5 DEF To, Goto, Goes, progressVars, outcomeVars, Moves, Moved, Outcome
<1>6. CASE To("search") /\ step = "select" /\ Task = "list" /\ req.uids = <<>>
  BY <1>1, <1>2, <1>3, <1>6 DEF To, Goto, Goes, progressVars, outcomeVars, Moves, Moved, Outcome
<1>7. CASE step = "select" /\ (Task = "list" => req.uids # <<>>) /\ NextOf(Asked) /\ UNCHANGED shown
  BY <1>2, <1>3, <1>7, NextOfIs DEF Outcome, Ended, AskedFor
<1>8. CASE Task = "list" /\ step = "search" /\ NextOf(Newest(Found, req.limit)) /\ UNCHANGED shown
  BY <1>2, <1>3, <1>8, NextOfIs DEF Outcome, Ended, Searched
<1>9. CASE Task = "list" /\ step = "fetch" /\ Fetched(g) /\ ~Fail
  <2>1. g.ref.n # 0 /\ Shown(g.ref.id, g)
    BY <1>9 DEF Fetched
  <2>2. CASE req.markSeen
    BY <1>2, <1>3, <1>9, <2>1, <2>2 DEF Fetched, Goto, Goes, Outcome, FetchedOne
  <2>3. CASE ~req.markSeen
    <3>1. NextOf(Tail(todo))
      BY <1>9, <2>3 DEF Fetched
    <3>2. Looping(Tail(todo)) /\ UNCHANGED caps
      BY <1>2, <1>9, <3>1, NextOfIs
    <3>. QED  BY <1>2, <1>3, <1>9, <2>1, <2>3, <3>2 DEF Outcome, FetchedOne
  <2>. QED  BY <2>2, <2>3
<1>10. CASE step = "store" /\ NextOf(Tail(todo)) /\ UNCHANGED shown
  BY <1>2, <1>3, <1>10, NextOfIs DEF Outcome, Ended, StoredOne
<1>. QED  BY <1>4, <1>5, <1>6, <1>7, <1>8, <1>9, <1>10 DEF ListIMAP, MarkIMAP

LEMMA ListedPOP3 ==
    ASSUME TypeOK, Placed, Active, Fitting, NEW ok \in BOOLEAN, NEW g, ok \/ step \in Ignored,
           ListPOP3(ok, g)
    PROVE  Outcome(ok, g)
<1>1. step \in Path(legs[1]) /\ Protocol \in {"imap", "pop3", "smtp"} /\ caps \in SUBSET Mechs
      /\ Task = "list"
  BY DEF Placed, Fitting, TypeOK, ListPOP3
<1>2. step \in {"pass", "list", "uidl", "top", "retr"} /\ Protocol = "pop3"
  <2>1. step \in {"pass", "list", "uidl", "top", "retr"}
    BY DEF ListPOP3, MessageRefs
  <2>. QED  BY <1>1, <2>1 DEF Path, Protocol, Task
<1>3. ok \/ step \in {"uidl", "top"}
  BY <1>2 DEF Ignored
<1>4. CASE step = "pass" /\ To("list")
  BY <1>1, <1>2, <1>3, <1>4 DEF To, Goto, Goes, progressVars, outcomeVars, Moves, Moved, Outcome
<1>5. CASE step = "top" /\ To("retr")
  BY <1>1, <1>2, <1>3, <1>5 DEF To, Goto, Goes, progressVars, outcomeVars, Moves, Moved, Outcome
<1>6. CASE MessageRefs(ok)
  <2>1. CASE step = "list"
    BY <1>1, <1>2, <1>3, <1>6, <2>1 DEF MessageRefs, Goto, Goes, Numbered, Outcome
  <2>2. CASE step # "list"
    <3>1. step = "uidl" /\ NextOf(Selected(IF ok THEN Oldest(Numbers) ELSE todo)) /\ UNCHANGED shown
      BY <1>6, <2>2 DEF MessageRefs
    <3>. QED  BY <1>1, <1>2, <3>1, NextOfIs DEF Outcome, Ended, Chosen
  <2>. QED  BY <2>1, <2>2
<1>7. CASE Kept(g) /\ step \in {"top", "retr"} /\ ok
  <2>1. CASE Fail
    BY <2>1 DEF Fail, Ended, Outcome
  <2>2. CASE g.ref.n \in req.old /\ TooOld
    <3>1. CASE req.uids # <<>>
      BY <1>1, <1>2, <1>7, <2>2, <3>1, NextOfIs DEF TooOld, Outcome, Ended, Skipped
    <3>2. CASE req.uids = <<>>
      BY <1>1, <1>2, <1>7, <2>2, <3>2 DEF TooOld, To, Goto, Goes, progressVars, outcomeVars, Outcome, Skipped
    <3>. QED  BY <3>1, <3>2
  <2>3. CASE /\ g.ref.n \notin req.old
             /\ Shown(IF Head(todo).id = 0 THEN Head(todo).n ELSE Head(todo).id, g)
             /\ IF req.limit > 0 /\ Len(shown') >= req.limit
                THEN Goto("quit") /\ UNCHANGED <<caps, todo, outcomeVars>>
                ELSE NextOf(Tail(todo))
    <3>1. CASE req.limit > 0 /\ Len(shown') >= req.limit
      BY <1>1, <1>2, <1>7, <2>3, <3>1 DEF Goto, Goes, outcomeVars, Outcome, KeptOne
    <3>2. CASE ~(req.limit > 0 /\ Len(shown') >= req.limit)
      <4>1. NextOf(Tail(todo))
        BY <2>3, <3>2
      <4>2. Close("error") \/ (Looping(Tail(todo)) /\ UNCHANGED caps)
        BY <4>1, NextOfIs
      <4>. QED  BY <1>1, <1>2, <1>7, <2>3, <3>2, <4>2 DEF Outcome, KeptOne
    <3>. QED  BY <3>1, <3>2
  <2>. QED  BY <1>7, <2>1, <2>2, <2>3 DEF Kept
<1>. QED  BY <1>2, <1>3, <1>4, <1>5, <1>6, <1>7 DEF ListPOP3

LEMMA Sent ==
    ASSUME TypeOK, Placed, Active, Fitting, NEW ok \in BOOLEAN, NEW g, ok \/ step \in Ignored,
           SendSMTPReply
    PROVE  Outcome(ok, g)
<1>1. step \in Path(legs[1]) /\ Protocol \in {"imap", "pop3", "smtp"} /\ caps \in SUBSET Mechs
  BY DEF Placed, Fitting, TypeOK
<1>2. Protocol = "smtp" /\ Task = "send"
  <2>1. (step = "auth" /\ Task = "send") \/ step \in {"mail", "rcpt", "data", "text"}
    BY DEF SendSMTPReply
  <2>. QED  BY <1>1, <2>1 DEF Path, Protocol, Task
<1>3. ok
  BY <1>2 DEF Ignored, SendSMTPReply
<1>4. CASE Fail
  BY <1>4 DEF Fail, Ended, Outcome
<1>5. CASE ~Fail /\ step \in {"mail", "rcpt"}
  <2>1. Goes /\ UNCHANGED <<caps, shown>>
        /\ todo' = (IF step = "mail" THEN [i \in 1 .. Rcpts |-> [n |-> i, id |-> 0]] ELSE Tail(todo))
        /\ step' = (IF todo' = <<>> THEN "data" ELSE "rcpt")
    BY <1>5 DEF SendSMTPReply, Address, Goto, Goes
  <2>. QED  BY <1>2, <1>3, <1>5, <2>1 DEF Addressed, Outcome
<1>6. CASE step \notin {"mail", "rcpt"}
  BY <1>1, <1>2, <1>3, <1>6 DEF SendSMTPReply, To, Goto, Goes, progressVars, outcomeVars, Moves, Moved, Outcome
<1>. QED  BY <1>4, <1>5, <1>6

\* Whatever a session makes of an answer is one of these.
LEMMA Outcomes ==
    ASSUME TypeOK, Placed, Active, Fitting, NEW ok \in BOOLEAN, NEW g, g.auth \in SUBSET Mechs,
           Completed(ok, g)
    PROVE  /\ Outcome(ok, g)
           /\ got' = Nothing
           /\ unlisted' = (unlisted \/ (step = "uidl" /\ ~ok))
<1>0. got' = Nothing /\ unlisted' = (unlisted \/ (step = "uidl" /\ ~ok))
  BY DEF Completed
<1>. SUFFICES Outcome(ok, g)
  BY <1>0
<1>1. CASE ~ok /\ step \notin Ignored
  BY <1>1 DEF Completed, Fail, Ended, Outcome
<1>2. CASE ok \/ step \in Ignored
  <2>1. CASE DialIMAP \/ DialPOP3 \/ DialSMTP(ok)
    <3>1. CASE Fail
      BY <3>1 DEF Fail, Ended, Outcome
    <3>2. CASE ~Fail
      <4>1. caps \in SUBSET Mechs
        BY DEF TypeOK
      <4>2. Goes /\ caps' = caps /\ UNCHANGED <<todo, shown>> /\ Moves /\ (ok \/ step \in {"caps", "ehlo", "top"})
        BY <1>2, <2>1, <3>2 DEF DialIMAP, DialPOP3, DialSMTP, OrFail, To, Goto, Goes, progressVars, outcomeVars,
                    Moves, MovesIMAP, MovesPOP3, MovesSMTP, Ignored
      <4>. QED  BY <4>1, <4>2 DEF Moved, Outcome
    <3>. QED  BY <3>1, <3>2
  <2>2. CASE \/ RefreshCapabilities(ok, g) \/ AuthenticatePlain \/ AuthenticateLogin \/ LoginPOP3
             \/ TestIMAPLogin \/ TestPOP3Login \/ TestSMTPLogin
    BY <1>2, <2>2, Authenticated
  <2>3. CASE ListIMAP(g) \/ MarkIMAP
    BY <1>2, <2>3, ListedIMAP
  <2>4. CASE ListPOP3(ok, g)
    BY <1>2, <2>4, ListedPOP3
  <2>5. CASE SendSMTPReply
    BY <1>2, <2>5, Sent
  <2>6. CASE Goodbye
    BY <2>6 DEF Goodbye, Left, Outcome
  <2>. QED  BY <1>2, <2>1, <2>2, <2>3, <2>4, <2>5, <2>6 DEF Completed
<1>. QED  BY <1>1, <1>2

-----------------------------------------------------------------------------
(* What the client may take an answer to have said *)

Gotten == [ref : Refs, full : BOOLEAN, auth : SUBSET Mechs]

\* A command is over: it has succeeded or failed, and what holds if it has.
Heard(ok, g) ==
    /\ Active /\ wait # "no"
    /\ ok /\ ~worded /\ step \in Logins => Protocol \in accepted
    /\ ok /\ ~worded /\ Protocol = "imap" /\ step = "store" => Head(todo).n \in seen \union {0}
    /\ ok /\ Protocol = "imap" /\ step = "fetch" =>
          /\ g.ref.n # 0 => g.ref.n = Head(todo).n /\ (~intruded => g.ref = Head(todo))
          /\ queue = <<>>
          /\ \A i \in 1 .. Len(wire') : wire'[i].kind # "data"
    /\ ok /\ Protocol = "smtp" /\ step = "rcpt" => Head(todo).n \in envelope
    /\ ok /\ Protocol = "smtp" /\ step = "text" => mailed = 1 .. Rcpts
    /\ ok /\ Protocol = "pop3" /\ ~gaveUp /\ step \in {"top", "retr"} => g.ref = Head(todo)

\* Frames of a step that ends a command.
Completing(ok, g) ==
    /\ Heard(ok, g) /\ Outcome(ok, g)
    /\ got' = Nothing
    /\ unlisted' = (unlisted \/ (step = "uidl" /\ ~ok))
    /\ UNCHANGED <<req, tag, queue, accepted, seen, envelope, mailed, noise, worded, intruded>>
    /\ wire' = wire \/ (wire # <<>> /\ wire' = Tail(wire))
    /\ gaveUp' \in BOOLEAN /\ (gaveUp => gaveUp')
    /\ gaveUp' # gaveUp => ~ok
    /\ InStep /\ step' \notin {"dial", "over"} /\ (Protocol = "smtp" \/ ~gaveUp') => queue = <<>> /\ wire' = <<>>

\* An answer is read on.
ReadingOn ==
    /\ wait # "no" /\ wire # <<>> /\ wire' = Tail(wire)
    /\ Verdict(Head(wire)) \in {"line", "body"}
    /\ wait' = Verdict(Head(wire)) /\ got' = Collected(Head(wire))
    /\ UNCHANGED <<step, caps, todo, shown, legs, conn, result, unlisted, req, tag, queue>>
    /\ UNCHANGED <<accepted, seen, envelope, mailed, noise, gaveUp, worded, intruded>>

LEMMA CollectedIs ==
    ASSUME TypeOK, NEW l \in Lines
    PROVE  /\ Collected(l) \in Gotten
           /\ l.kind \notin {"data", "fetch", "caps"} => Collected(l) = got
           /\ l.kind = "data" => Collected(l).ref = l.ref
           /\ l.kind = "caps" => Collected(l).ref = got.ref
           /\ l.kind = "fetch" =>
                 /\ Collected(l).ref.n = got.ref.n
                 /\ l.ref.id = 0 => Collected(l).ref = got.ref
<1>0. got \in [ref : Refs, full : BOOLEAN, auth : SUBSET Mechs] /\ l.ref \in Refs /\ l.full \in BOOLEAN
      /\ l.auth \in SUBSET Mechs /\ l.ref.id \in Nat /\ l.ref.n \in Nat
  BY DEF TypeOK, Lines, Refs
<1>1. CASE l.kind = "data"
  BY <1>0, <1>1 DEF Collected, Gotten
<1>2. CASE l.kind = "caps"
  BY <1>0, <1>2 DEF Collected, Gotten
<1>3. CASE l.kind = "fetch"
  <2>1. got.ref \in [n : Nat, id : Nat] /\ got.ref = [n |-> got.ref.n, id |-> got.ref.id]
    BY <1>0 DEF Refs
  <2>2. Collected(l) = [got EXCEPT !.ref.id = IF l.ref.id = 0 THEN @ ELSE l.ref.id]
    BY <1>3 DEF Collected
  <2>3. Collected(l) = [ref  |-> [n |-> got.ref.n, id |-> IF l.ref.id = 0 THEN got.ref.id ELSE l.ref.id],
                        full |-> got.full, auth |-> got.auth]
    BY <1>0, <2>1, <2>2
  <2>. QED  BY <1>0, <1>3, <2>1, <2>3 DEF Gotten, Refs
<1>4. CASE l.kind \notin {"data", "fetch", "caps"}
  BY <1>0, <1>4 DEF Collected, Gotten
<1>. QED  BY <1>1, <1>2, <1>3, <1>4

\* Where an answer is awaited there is a session.
LEMMA Waiting ==
    ASSUME IInv, wait # "no" \/ Active
    PROVE  /\ Active /\ legs # <<>> /\ Fitting /\ conn \in {"open", "broken"}
           /\ step \in Path(legs[1])
<1>1. Active /\ legs # <<>>
  BY DEF IInv, Placed, Active
<1>. QED  BY <1>1, SessionFits DEF IInv, Placed, Active

LEMMA HeadOf ==
    ASSUME NEW S, NEW s \in Seq(S), s # <<>>
    PROVE  /\ Head(s) = s[1] /\ Head(s) \in S /\ Len(s) >= 1 /\ Len(s) \in Nat
           /\ Tail(s) \in Seq(S) /\ Len(Tail(s)) = Len(s) - 1
           /\ \A i \in 1 .. Len(s) : s[i] \in S
           /\ \A i \in 1 .. Len(s) - 1 : Tail(s)[i] = s[i + 1] /\ i + 1 \in 1 .. Len(s)
<1>1. Len(s) \in Nat /\ Len(s) # 0
  BY EmptySeq
<1>. QED  BY <1>1, HeadTailProperties, ElementOfSeq

\* IMAP: the line with the command's tag is its answer.
LEMMA ReadIMAP ==
    ASSUME IInv, wait # "no", wire # <<>>, wire' = Tail(wire), Protocol = "imap",
           Verdict(Head(wire)) \notin {"line", "body"}, NEW ok, ok <=> Verdict(Head(wire)) = "ok"
    PROVE  Heard(ok, Collected(Head(wire)))
<1>. DEFINE l == Head(wire)
<1>0. TypeOK /\ Active /\ IMAPChannel /\ IMAPGot /\ wire \in Seq(Lines) /\ tag \in Nat
  BY Waiting DEF IInv, TypeOK
<1>1. l = wire[1] /\ l \in Lines /\ Len(wire) \in Nat /\ Len(wire) >= 1
  BY <1>0, HeadOf
<1>2. LineFits(l)
  BY <1>0, <1>1 DEF IMAPChannel
<1>3. TaggedVerdict(l) \notin {"line", "body"} /\ (ok <=> TaggedVerdict(l) = "ok")
  BY DEF Verdict
<1>4. CASE step \in {"token", "login", "store", "fetch"} /\ ok
  <2>1. l.kind = "done" /\ l.tag = tag /\ (l.ok \/ l.says)
    BY <1>3, <1>4 DEF TaggedVerdict, Judged, Good, Continued
  <2>2. ~worded => Meant
    BY <1>2, <2>1 DEF LineFits, Tagged
  <2>3. CASE step = "fetch"
    <3>1. Collected(l) = got
      BY <1>0, <1>1, <2>1, CollectedIs
    <3>2. queue = <<>>
      BY <1>2, <2>1, <2>3 DEF LineFits
    <3>3. ASSUME NEW i \in 1 .. Len(wire') PROVE wire'[i].kind # "data"
      <4>1. i + 1 \in 1 .. Len(wire) /\ wire'[i] = wire[i + 1] /\ 1 \in 1 .. i + 1
        BY <1>0, <3>3, HeadOf
      <4>2. wire[i + 1].kind = "data" => wire[1].tag < tag
        BY <1>0, <1>1, <2>1, <4>1 DEF IMAPChannel
      <4>. QED  BY <1>0, <1>1, <2>1, <4>1, <4>2
    <3>. QED  BY <1>0, <2>3, <3>1, <3>2, <3>3 DEF Heard, IMAPGot, Logins
  <2>. QED  BY <1>0, <1>4, <2>2, <2>3 DEF Heard, Meant, Logins
<1>5. CASE ~(step \in {"token", "login", "store", "fetch"} /\ ok)
  <2>1. step \in Path(legs[1])
    BY Waiting
  <2>2. step \notin {"pass", "auth"}
    BY <2>1 DEF Path, Protocol
  <2>. QED  BY <1>0, <1>5, <2>2 DEF Heard, Logins
<1>. QED  BY <1>4, <1>5

LEMMA OnlyOne ==
    ASSUME NEW n \in Nat, n >= 1, ~(n > 1)
    PROVE  n = 1
OBVIOUS

\* POP3 and SMTP: as long as answers come in step, the next one is the command's.
LEMMA ReadOther ==
    ASSUME IInv, wait # "no", wire # <<>>, wire' = Tail(wire), Protocol # "imap",
           Verdict(Head(wire)) \notin {"line", "body"}, NEW ok, ok <=> Verdict(Head(wire)) = "ok"
    PROVE  /\ Heard(ok, Collected(Head(wire)))
           /\ InStep => queue = <<>> /\ wire' = <<>>
<1>. DEFINE l == Head(wire)
<1>0. TypeOK /\ Active /\ wire \in Seq(Lines) /\ wait \in {"no", "line", "body"} /\ Fitting
      /\ step \in Path(legs[1]) /\ Protocol \in {"pop3", "smtp"} /\ queue \in Seq(Commands)
  BY Waiting DEF IInv, TypeOK, Fitting
<1>1. l = wire[1] /\ l \in Lines /\ Len(wire) \in Nat /\ Len(wire) >= 1
  BY <1>0, HeadOf
<1>2. CASE InStep
  <2>0. Asking /\ Answering /\ Continuing
    BY <1>2 DEF IInv, StepChannel
  <2>1. CASE wait = "line"
    <3>1. l.kind = "done" /\ ~l.says /\ (l.ok => Effect)
      BY <1>1, <2>0, <2>1 DEF Answering
    <3>2. ~(Good(l) /\ step \in Multi) /\ (ok <=> Good(l))
      BY <2>1 DEF Verdict, Judged
    <3>3. (ok <=> l.ok) /\ ~(ok /\ step \in Multi)
      BY <3>1, <3>2 DEF Good
    <3>4. Len(wire) = 1
      <4>1. Len(wire) > 1 => wire[1].ok /\ step \in Multi
        BY <2>0, <2>1 DEF Answering
      <4>2. ~(wire[1].ok /\ step \in Multi)
        BY <1>1, <3>3
      <4>3. ~(Len(wire) > 1)
        BY <4>1, <4>2
      <4>. QED  BY <1>1, <4>3, OnlyOne
    <3>5. wire' = <<>>
      BY <1>0, <3>4, HeadOf, EmptySeq
    <3>6. queue = <<>>
      BY <2>0 DEF Asking
    <3>. QED  BY <1>0, <3>1, <3>3, <3>5, <3>6 DEF Heard, Effect, Multi
  <2>2. CASE wait = "body"
    <3>1. l.kind = "end" /\ ok
      BY <1>0, <2>2 DEF Verdict
    <3>2. Len(wire) = 1 /\ step \in Multi /\ (step \in {"top", "retr"} => got.ref = Ref)
      BY <1>1, <2>0, <2>2, <3>1 DEF Continuing
    <3>3. wire' = <<>>
      BY <1>0, <3>2, HeadOf, EmptySeq
    <3>4. queue = <<>>
      BY <2>0 DEF Asking
    <3>5. Collected(l) = got
      BY <1>0, <1>1, <3>1, CollectedIs
    <3>6. step \in {"top", "retr"} => Ref = Head(todo)
      BY DEF Ref, IInv, Placed, InLoop
    <3>. QED  BY <1>0, <3>2, <3>3, <3>4, <3>5, <3>6 DEF Heard, Logins, Multi
  <2>. QED  BY <1>0, <2>1, <2>2
<1>3. CASE ~InStep
  <2>1. Protocol = "pop3" /\ gaveUp
    BY <1>0, <1>3 DEF InStep
  <2>2. step = "pass" => ~gaveUp
    BY <2>1 DEF IInv, Unshown, LoginSteps
  <2>3. step \notin {"token", "login", "auth"}
    BY <1>0, <2>1 DEF Path, Protocol
  <2>. QED  BY <1>0, <1>3, <2>1, <2>2, <2>3 DEF Heard, Logins
<1>. QED  BY <1>2, <1>3

\* How a command ends: with an answer, at its deadline, or with the connection.
LEMMA Reads ==
    ASSUME IInv, Read
    PROVE  ReadingOn \/ \E ok \in BOOLEAN, g \in Gotten : Completing(ok, g)
<1>. DEFINE l == Head(wire)
            ok == Verdict(l) = "ok"
<1>0. TypeOK /\ Active /\ Fitting /\ wire \in Seq(Lines) /\ gaveUp \in BOOLEAN /\ wait # "no" /\ wire # <<>>
      /\ wire' = Tail(wire)
  BY Waiting DEF IInv, TypeOK, Read
<1>1. CASE Verdict(l) \in {"line", "body"}
  BY <1>0, <1>1 DEF Read, ReadingOn, progressVars, outcomeVars, serverVars
<1>2. CASE Verdict(l) \notin {"line", "body"}
  <2>1. Completed(ok, Collected(l)) /\ UNCHANGED <<req, tag, queue, serverVars, noise, gaveUp, worded, intruded>>
    BY <1>2 DEF Read
  <2>2. l \in Lines
    BY <1>0, HeadOf
  <2>3. Collected(l) \in Gotten /\ ok \in BOOLEAN /\ Collected(l).auth \in SUBSET Mechs
    BY <1>0, <2>2, CollectedIs DEF Gotten
  <2>4. Placed
    BY DEF IInv
  <2>5. /\ Outcome(ok, Collected(l)) /\ got' = Nothing
        /\ unlisted' = (unlisted \/ (step = "uidl" /\ ~ok))
    BY <1>0, <2>1, <2>3, <2>4, Outcomes
  <2>6. Heard(ok, Collected(l)) /\ (InStep => queue = <<>> /\ wire' = <<>>)
    <3>1. CASE Protocol = "imap"
      BY <1>0, <1>2, <3>1, ReadIMAP DEF InStep
    <3>2. CASE Protocol # "imap"
      BY <1>0, <1>2, <3>2, ReadOther
    <3>. QED  BY <3>1, <3>2
  <2>7. Completing(ok, Collected(l))
    BY <1>0, <2>1, <2>5, <2>6 DEF Completing, serverVars
  <2>. QED  BY <2>3, <2>7
<1>. QED  BY <1>1, <1>2

LEMMA NotHeard ==
    ASSUME IInv, wait # "no", Completed(FALSE, Nothing)
    PROVE  /\ Heard(FALSE, Nothing) /\ Outcome(FALSE, Nothing) /\ got' = Nothing
           /\ unlisted' = (unlisted \/ (step = "uidl" /\ ~FALSE))
           /\ Nothing \in Gotten
<1>1. Nothing \in Gotten /\ Nothing.auth \in SUBSET Mechs
  BY DEF Nothing, NoRef, Gotten, Refs, Mechs
<1>2. TypeOK /\ Placed /\ Active /\ Fitting
  BY Waiting DEF IInv
<1>3. /\ Outcome(FALSE, Nothing) /\ got' = Nothing
      /\ unlisted' = (unlisted \/ (step = "uidl" /\ ~FALSE))
  BY <1>1, <1>2, Outcomes
<1>. QED  BY <1>1, <1>2, <1>3 DEF Heard

LEMMA DeadlinePasses ==
    ASSUME IInv, Deadline
    PROVE  Completing(FALSE, Nothing) /\ Nothing \in Gotten
<1>1. wait # "no" /\ Completed(FALSE, Nothing) /\ Protocol # "smtp" /\ gaveUp' = (gaveUp \/ step' \notin {"over", "dial"})
      /\ UNCHANGED <<req, tag, queue, wire, accepted, seen, envelope, mailed, noise, worded, intruded>>
  BY DEF Deadline, channelVars, serverVars
<1>2. gaveUp \in BOOLEAN
  BY DEF IInv, TypeOK
<1>. QED  BY <1>1, <1>2, NotHeard DEF Completing

LEMMA FileEnds ==
    ASSUME IInv, EndOfFile
    PROVE  Completing(FALSE, Nothing) /\ Nothing \in Gotten
<1>1. wait # "no" /\ Completed(FALSE, Nothing) /\ wire = <<>> /\ conn = "broken"
      /\ UNCHANGED <<req, tag, queue, wire, accepted, seen, envelope, mailed, noise, gaveUp, worded, intruded>>
  BY DEF EndOfFile, channelVars, serverVars
<1>2. gaveUp \in BOOLEAN /\ queue = <<>>
  BY <1>1 DEF IInv, TypeOK, Placed
<1>. QED  BY <1>1, <1>2, NotHeard DEF Completing

-----------------------------------------------------------------------------
(* Lists of messages *)

LEMMA TheBox ==
    /\ Box \in Seq(Nat \ {0}) /\ Len(Box) \in Nat /\ Numbers = 1 .. Len(Box)
    /\ \A n \in Numbers : Box[n] \in Nat \ {0}
    /\ \A m, n \in Numbers : Box[m] = Box[n] => m = n
BY BoxAssumption, LenProperties, ElementOfSeq DEF Numbers

LEMMA TheRequest ==
    ASSUME TypeOK
    PROVE  /\ req \in Request /\ req.uids \in Seq(Nat \ {0}) /\ req.limit \in Nat /\ req.old \in SUBSET Numbers
           /\ req.op \in {"login", "list", "mark", "reply"} /\ req.protocol \in {"imap", "pop3"}
           /\ req.markSeen \in BOOLEAN
           /\ req.op = "mark" => req.markSeen /\ req.uids # <<>>
           /\ req.op = "reply" => ~req.markSeen
           /\ Wanted \in SUBSET (Nat \ {0})
<1>1. req \in Requests /\ req \in Request
  BY RequestsAssumption DEF TypeOK
<1>2. req.uids \in Seq(Nat \ {0}) /\ req.limit \in Nat /\ req.old \in SUBSET Numbers
      /\ req.op \in {"login", "list", "mark", "reply"} /\ req.protocol \in {"imap", "pop3"}
      /\ req.markSeen \in BOOLEAN
  BY <1>1 DEF Request
<1>3. Wanted \in SUBSET (Nat \ {0})
  BY <1>2, LenProperties, ElementOfSeq DEF Wanted
<1>. QED  BY <1>1, <1>2, <1>3, RequestsAssumption

\* A set of messages.
LEMMA SetOfNumbers ==
    ASSUME NEW S, NEW b \in Nat, S \subseteq 1 .. b
    PROVE  Within(S, b) /\ Cardinality(S) \in Nat
<1>1. Within(S, b)
  BY DEF Within
<1>. QED  BY <1>1, UpToFinite

LEMMA NthAll ==
    ASSUME NEW b \in Nat, NEW S, S \subseteq 1 .. b
    PROVE  /\ \A i \in 1 .. Cardinality(S) : Nth(S, i) \in S
           /\ \A n \in S : \E i \in 1 .. Cardinality(S) : Nth(S, i) = n
           /\ \A i, j \in 1 .. Cardinality(S) : i # j => Nth(S, i) # Nth(S, j)
<1>1. Within(S, b) /\ Cardinality(S) \in Nat
  BY SetOfNumbers
<1>. QED  BY <1>1, NthIn, NthIs, NthDiffer

LEMMA PickedIs ==
    ASSUME NEW X, NEW s \in Seq(X), NEW S, S \subseteq 1 .. Len(s)
    PROVE  /\ Picked(s, S) \in Seq(X) /\ Len(Picked(s, S)) = Cardinality(S) /\ Cardinality(S) \in Nat
           /\ Len(s) \in Nat
<1>1. Len(s) \in Nat /\ \A i \in 1 .. Len(s) : s[i] \in X
  BY LenProperties, ElementOfSeq
<1>2. Cardinality(S) \in Nat
  BY <1>1, SetOfNumbers
<1>3. \A i \in 1 .. Cardinality(S) : Nth(S, i) \in S
  BY <1>1, NthAll
<1>4. \A i \in 1 .. Cardinality(S) : s[Nth(S, i)] \in X
  BY <1>1, <1>3
<1>. QED  BY <1>1, <1>2, <1>4 DEF Picked

LEMMA OldestIs ==
    ASSUME NEW S, S \subseteq Numbers
    PROVE  /\ Oldest(S) \in Seq(Refs) /\ Len(Oldest(S)) = Cardinality(S) /\ Cardinality(S) \in Nat
           /\ \A i \in 1 .. Cardinality(S) : Nth(S, i) \in S /\ Oldest(S)[i] = [n |-> Nth(S, i), id |-> Box[Nth(S, i)]]
           /\ Ns(Oldest(S)) = S
<1>. DEFINE all == [n \in Numbers |-> [n |-> n, id |-> Box[n]]]
<1>1. all \in Seq(Refs) /\ Len(all) = Len(Box)
  BY TheBox DEF Refs
<1>2. S \subseteq 1 .. Len(all) /\ Oldest(S) = Picked(all, S)
  BY <1>1, TheBox DEF Oldest
<1>. HIDE DEF all
<1>3. /\ Oldest(S) \in Seq(Refs) /\ Len(Oldest(S)) = Cardinality(S) /\ Cardinality(S) \in Nat
      /\ \A i \in 1 .. Cardinality(S) : Nth(S, i) \in S /\ Oldest(S)[i] = all[Nth(S, i)]
      /\ \A n \in S : \E i \in 1 .. Cardinality(S) : Nth(S, i) = n
  <2>1. /\ Picked(all, S) \in Seq(Refs) /\ Len(Picked(all, S)) = Cardinality(S) /\ Cardinality(S) \in Nat
        /\ Len(all) \in Nat
    BY <1>1, <1>2, PickedIs
  <2>2. \A i \in 1 .. Cardinality(S) : Picked(all, S)[i] = all[Nth(S, i)]
    BY DEF Picked
  <2>3. /\ \A i \in 1 .. Cardinality(S) : Nth(S, i) \in S
        /\ \A n \in S : \E i \in 1 .. Cardinality(S) : Nth(S, i) = n
    BY <1>2, <2>1, NthAll
  <2>. QED  BY <1>2, <2>1, <2>2, <2>3
<1>4. \A i \in 1 .. Cardinality(S) : Oldest(S)[i] = [n |-> Nth(S, i), id |-> Box[Nth(S, i)]]
  BY <1>3 DEF all
<1>5. Ns(Oldest(S)) = S
  <2>1. ASSUME NEW i \in 1 .. Cardinality(S) PROVE Oldest(S)[i].n = Nth(S, i)
    <3>1. Oldest(S)[i] = [n |-> Nth(S, i), id |-> Box[Nth(S, i)]]
      BY <1>4
    <3>. QED  BY <3>1
  <2>. QED  BY <1>3, <2>1 DEF Ns
<1>. QED  BY <1>3, <1>4, <1>5

\* How many the newest leave out.
Cut(s, k) == IF k = 0 \/ Len(s) <= k THEN 0 ELSE Len(s) - k

LEMMA NewestIs ==
    ASSUME NEW X, NEW s \in Seq(X), NEW k \in Nat
    PROVE  /\ Newest(s, k) \in Seq(X) /\ Cut(s, k) \in 0 .. Len(s)
           /\ Len(Newest(s, k)) = Len(s) - Cut(s, k)
           /\ \A i \in 1 .. Len(s) - Cut(s, k) : Newest(s, k)[i] = s[Cut(s, k) + i] /\ Cut(s, k) + i \in 1 .. Len(s)
<1>0. Len(s) \in Nat
  BY LenProperties
<1>1. CASE k = 0 \/ Len(s) <= k
  BY <1>0, <1>1 DEF Newest, Cut
<1>2. CASE ~(k = 0 \/ Len(s) <= k)
  <2>1. Newest(s, k) = SubSeq(s, Len(s) - k + 1, Len(s)) /\ Cut(s, k) = Len(s) - k
    BY <1>2 DEF Newest, Cut
  <2>2. Len(s) - k + 1 \in 1 .. Len(s) + 1 /\ Len(s) \in Len(s) - k .. Len(s)
    BY <1>0, <1>2
  <2>3. /\ Newest(s, k) \in Seq(X)
        /\ Len(Newest(s, k)) = Len(s) - (Len(s) - k + 1) + 1
        /\ \A i \in 1 .. Len(s) - (Len(s) - k + 1) + 1 : Newest(s, k)[i] = s[Len(s) - k + 1 + i - 1]
    BY <1>0, <1>2, <2>1, <2>2, SubSeqProperties
  <2>. QED  BY <1>0, <1>2, <2>1, <2>3
<1>. QED  BY <1>1, <1>2

LEMMA ReversedIs ==
    ASSUME NEW X, NEW s \in Seq(X)
    PROVE  /\ Reversed(s) \in Seq(X) /\ Len(Reversed(s)) = Len(s)
           /\ \A i \in 1 .. Len(s) : Reversed(s)[i] = s[Len(s) + 1 - i] /\ Len(s) + 1 - i \in 1 .. Len(s)
<1>0. Len(s) \in Nat /\ DOMAIN s = 1 .. Len(s) /\ \A i \in 1 .. Len(s) : s[i] \in X
  BY LenProperties, ElementOfSeq
<1>1. \A i \in 1 .. Len(s) : Len(s) + 1 - i \in 1 .. Len(s)
  BY <1>0
<1>2. Reversed(s) = [i \in 1 .. Len(s) |-> s[Len(s) + 1 - i]]
  BY <1>0 DEF Reversed
<1>. QED  BY <1>0, <1>1, <1>2

LEMMA AskedIs ==
    ASSUME TypeOK
    PROVE  /\ Asked \in Seq(Refs) /\ Len(Asked) = Len(req.uids)
           /\ \A i \in 1 .. Len(Asked) : IsRef(Asked[i])
           /\ Ns(Asked) \ {0} = Named
<1>0. req.uids \in Seq(Nat \ {0}) /\ Len(req.uids) \in Nat /\ DOMAIN req.uids = 1 .. Len(req.uids)
      /\ \A i \in 1 .. Len(req.uids) : req.uids[i] \in Nat \ {0}
  BY TheRequest, LenProperties, ElementOfSeq
<1>. DEFINE ref(i) == [n  |-> IF req.uids[i] \in Ids THEN CHOOSE n \in Numbers : Box[n] = req.uids[i] ELSE 0,
                       id |-> req.uids[i]]
<1>1. Asked = [i \in 1 .. Len(req.uids) |-> ref(i)]
  BY <1>0 DEF Asked
<1>2. ASSUME NEW i \in 1 .. Len(req.uids)
      PROVE  /\ ref(i) \in Refs /\ IsRef(ref(i))
             /\ ref(i).n # 0 => ref(i).n \in Numbers /\ Box[ref(i).n] = req.uids[i]
             /\ req.uids[i] \in Ids => ref(i).n # 0
  <2>1. CASE req.uids[i] \in Ids
    <3>1. \E n \in Numbers : Box[n] = req.uids[i]
      BY <2>1 DEF Ids
    <3>2. PICK n \in Numbers : n = ref(i).n /\ Box[n] = req.uids[i]
      BY <2>1, <3>1
    <3>. QED  BY <1>0, <3>2, TheBox DEF Refs, IsRef
  <2>2. CASE req.uids[i] \notin Ids
    BY <1>0, <2>2 DEF Refs, IsRef
  <2>. QED  BY <2>1, <2>2
<1>. HIDE DEF ref
<1>3. Asked \in Seq(Refs) /\ Len(Asked) = Len(req.uids) /\ \A i \in 1 .. Len(req.uids) : Asked[i] = ref(i)
  BY <1>0, <1>1, <1>2
<1>4. \A n : n \in Ns(Asked) \ {0} <=> n \in Named
  <2>1. ASSUME NEW n, n \in Ns(Asked) \ {0} PROVE n \in Named
    <3>1. PICK i \in 1 .. Len(req.uids) : n = ref(i).n
      BY <1>3, <2>1 DEF Ns
    <3>. QED  BY <1>0, <1>2, <2>1, <3>1 DEF Named, Wanted
  <2>2. ASSUME NEW n \in Named PROVE n \in Ns(Asked) /\ n # 0
    <3>1. PICK i \in 1 .. Len(req.uids) : Box[n] = req.uids[i]
      BY <1>0 DEF Named, Wanted
    <3>2. n \in Numbers /\ req.uids[i] \in Ids
      BY <3>1 DEF Named, Ids
    <3>3. ref(i).n = n
      BY <1>2, <3>1, <3>2, TheBox
    <3>. QED  BY <1>2, <1>3, <3>2, <3>3 DEF Ns
  <2>. QED  BY <2>1, <2>2
<1>. QED  BY <1>2, <1>3, <1>4

LEMMA SelectedIs ==
    ASSUME TypeOK, NEW refs \in Seq(Refs)
    PROVE  /\ Selected(refs) \in Seq(Refs)
           /\ \A i \in 1 .. Len(Selected(refs)) : \E j \in 1 .. Len(refs) : Selected(refs)[i] = refs[j]
<1>0. req.limit \in Nat /\ Len(refs) \in Nat /\ DOMAIN refs = 1 .. Len(refs)
  BY TheRequest, LenProperties
<1>1. CASE req.uids # <<>>
  <2>. DEFINE S == {i \in DOMAIN refs : {refs[i].id, refs[i].n} \intersect Wanted # {}}
  <2>1. Selected(refs) = Picked(refs, S) /\ S \subseteq 1 .. Len(refs)
    BY <1>0, <1>1 DEF Selected
  <2>. HIDE DEF S
  <2>2. Picked(refs, S) \in Seq(Refs) /\ Len(Picked(refs, S)) = Cardinality(S)
    BY <2>1, PickedIs
  <2>3. \A i \in 1 .. Cardinality(S) : Picked(refs, S)[i] = refs[Nth(S, i)]
    BY DEF Picked
  <2>4. \A i \in 1 .. Cardinality(S) : Nth(S, i) \in S
    BY <1>0, <2>1, NthAll
  <2>. QED  BY <2>1, <2>2, <2>3, <2>4
<1>2. CASE req.uids = <<>>
  <2>1. Selected(refs) = Reversed(Newest(refs, req.limit))
    BY <1>2 DEF Selected
  <2>2. /\ Newest(refs, req.limit) \in Seq(Refs)
        /\ \A i \in 1 .. Len(Newest(refs, req.limit)) : \E j \in 1 .. Len(refs) : Newest(refs, req.limit)[i] = refs[j]
    <3>1. /\ Newest(refs, req.limit) \in Seq(Refs)
          /\ Len(Newest(refs, req.limit)) = Len(refs) - Cut(refs, req.limit)
          /\ \A i \in 1 .. Len(refs) - Cut(refs, req.limit) :
                /\ Newest(refs, req.limit)[i] = refs[Cut(refs, req.limit) + i]
                /\ Cut(refs, req.limit) + i \in 1 .. Len(refs)
      BY <1>0, NewestIs
    <3>. QED  BY <3>1
  <2>3. /\ Reversed(Newest(refs, req.limit)) \in Seq(Refs)
        /\ Len(Reversed(Newest(refs, req.limit))) = Len(Newest(refs, req.limit))
        /\ \A i \in 1 .. Len(Newest(refs, req.limit)) :
              \E j \in 1 .. Len(Newest(refs, req.limit)) : Reversed(Newest(refs, req.limit))[i] = Newest(refs, req.limit)[j]
    BY <2>2, ReversedIs
  <2>4. ASSUME NEW i \in 1 .. Len(Selected(refs)) PROVE \E j \in 1 .. Len(refs) : Selected(refs)[i] = refs[j]
    <3>1. PICK k \in 1 .. Len(Newest(refs, req.limit)) : Selected(refs)[i] = Newest(refs, req.limit)[k]
      BY <2>1, <2>3
    <3>2. PICK j \in 1 .. Len(refs) : Newest(refs, req.limit)[k] = refs[j]
      BY <2>2
    <3>. QED  BY <3>1, <3>2
  <2>. QED  BY <2>1, <2>3, <2>4
<1>. QED  BY <1>1, <1>2

\* The numbered references of LIST.
LEMMA PlainIs ==
    /\ [n \in Numbers |-> [n |-> n, id |-> 0]] \in Seq(Refs)
    /\ Len([n \in Numbers |-> [n |-> n, id |-> 0]]) = Len(Box)
BY TheBox DEF Refs

LEMMA FoundIs ==
    ASSUME TypeOK
    PROVE  Found \in Seq(Refs) /\ \A i \in 1 .. Len(Found) : IsRef(Found[i])
<1>1. Numbers \ req.old \subseteq Numbers
  OBVIOUS
<1>2. /\ Found \in Seq(Refs) /\ Len(Found) = Cardinality(Numbers \ req.old)
      /\ \A i \in 1 .. Len(Found) : Nth(Numbers \ req.old, i) \in Numbers
            /\ Found[i] = [n |-> Nth(Numbers \ req.old, i), id |-> Box[Nth(Numbers \ req.old, i)]]
  BY <1>1, OldestIs DEF Found
<1>3. ASSUME NEW i \in 1 .. Len(Found) PROVE IsRef(Found[i])
  <2>1. Nth(Numbers \ req.old, i) \in Numbers
        /\ Found[i] = [n |-> Nth(Numbers \ req.old, i), id |-> Box[Nth(Numbers \ req.old, i)]]
    BY <1>2
  <2>. QED  BY <2>1 DEF IsRef
<1>. QED  BY <1>2, <1>3

-----------------------------------------------------------------------------
(* The steps of a session, and their types *)

Shows == [label : Nat, n : Nat, full : BOOLEAN]

\* A session that has not ended goes to another of its commands.
Going ==
    /\ Goes /\ step' \in Path(legs[1]) /\ step' \notin {"dial", "over", "greeting"}
    /\ step' \in InLoop => todo' # <<>>
    /\ step' = "store" /\ Task = "list" => req.markSeen
    /\ step' = "search" => req.uids = <<>>

LEMMA PathSteps ==
    ASSUME NEW s, NEW x \in Path(s)
    PROVE  x \in Steps \ {"dial", "over"}
BY DEF Path, Steps

LEMMA LoopingGoes ==
    ASSUME IInv, Active, NEW refs, Looping(refs), Protocol \in {"imap", "pop3"}, Task \in {"list", "mark"}
    PROVE  Going
<1>1. Fitting /\ (Task = "mark" => Protocol = "imap")
  BY Waiting DEF Fitting
<1>2. step' \in {"logout", "quit", "store", "fetch", "top"}
  BY DEF Looping, Farewell
<1>3. step' \in Path(legs[1])
  BY <1>1 DEF Looping, Farewell, Path, Protocol, Task
<1>4. step' = "store" => Task = "mark"
  BY DEF Looping, Farewell
<1>5. step' \in InLoop => todo' # <<>>
  BY DEF Looping, Farewell, InLoop
<1>. QED  BY <1>2, <1>3, <1>4, <1>5 DEF Going, Looping

LEMMA MovesGo ==
    ASSUME IInv, Active, Moves, Goes, UNCHANGED todo
    PROVE  Going
<1>1. Fitting /\ step \in Path(legs[1])
  BY Waiting
<1>2. step' \in Path(legs[1])
  BY <1>1 DEF Fitting, Moves, MovesIMAP, MovesPOP3, MovesSMTP, Path, Protocol, Task
<1>3. step' \notin {"dial", "over", "greeting", "fetch", "store", "top", "rcpt"} /\ (step' = "retr" => step = "top")
      /\ (step' = "search" => req.uids = <<>>)
  BY DEF Moves, MovesIMAP, MovesPOP3, MovesSMTP
<1>4. step = "top" => todo # <<>>
  BY DEF IInv, Placed, InLoop
<1>. QED  BY <1>2, <1>3, <1>4 DEF Going, InLoop

LEMMA OutcomeGoes ==
    ASSUME IInv, Active, NEW ok, NEW g, Outcome(ok, g)
    PROVE  Close("error") \/ Left \/ Going
<1>1. CASE Moved(ok)
  BY <1>1, MovesGo DEF Moved
<1>2. CASE Numbered(ok)
  <2>1. step' \in Path(legs[1])
    BY <1>2 DEF Numbered, Path, Protocol, Task
  <2>. QED  BY <1>2, <2>1 DEF Numbered, Going, InLoop
<1>3. CASE Chosen(ok) \/ AskedFor(ok) \/ Searched(ok) \/ StoredOne(ok)
  BY <1>3, LoopingGoes, Waiting DEF Chosen, AskedFor, Searched, StoredOne, Fitting
<1>4. CASE FetchedOne(ok, g)
  <2>1. CASE req.markSeen
    <3>1. step' \in Path(legs[1])
      BY <1>4, <2>1 DEF FetchedOne, Path, Protocol, Task
    <3>2. todo # <<>>
      BY <1>4 DEF FetchedOne, IInv, Placed, InLoop
    <3>. QED  BY <1>4, <2>1, <3>1, <3>2 DEF FetchedOne, Going
  <2>2. CASE ~req.markSeen
    BY <1>4, <2>2, LoopingGoes DEF FetchedOne
  <2>. QED  BY <2>1, <2>2
<1>5. CASE Skipped(ok, g)
  <2>1. CASE req.uids # <<>>
    BY <1>5, <2>1, LoopingGoes DEF Skipped
  <2>2. CASE req.uids = <<>>
    <3>1. step' \in Path(legs[1])
      BY <1>5, <2>2 DEF Skipped, Path, Protocol, Task
    <3>. QED  BY <1>5, <2>2, <3>1 DEF Skipped, Going, InLoop
  <2>. QED  BY <2>1, <2>2
<1>6. CASE KeptOne(ok, g)
  <2>1. CASE step' = "quit" /\ Goes
    <3>1. step' \in Path(legs[1])
      BY <1>6, <2>1 DEF KeptOne, Path, Protocol, Task
    <3>. QED  BY <2>1, <3>1 DEF Going, InLoop
  <2>2. CASE Looping(Tail(todo))
    BY <1>6, <2>2, LoopingGoes DEF KeptOne
  <2>. QED  BY <1>6, <2>1, <2>2 DEF KeptOne
<1>7. CASE Addressed(ok)
  <2>1. step' \in Path(legs[1])
    BY <1>7 DEF Addressed, Path, Protocol, Task
  <2>. QED  BY <1>7, <2>1 DEF Addressed, Going, InLoop
<1>. QED  BY <1>1, <1>2, <1>3, <1>4, <1>5, <1>6, <1>7 DEF Outcome, Ended

LEMMA OutcomeTypes ==
    ASSUME IInv, Active, NEW ok \in BOOLEAN, NEW g \in Gotten, Outcome(ok, g)
    PROVE  caps' \in SUBSET Mechs /\ todo' \in Seq(Refs) /\ shown' \in Seq(Shows)
<1>0. TypeOK /\ caps \in SUBSET Mechs /\ todo \in Seq(Refs) /\ shown \in Seq(Shows) /\ g.ref \in Refs
      /\ g.ref.n \in Nat /\ g.ref.id \in Nat /\ g.full \in BOOLEAN
  BY DEF IInv, TypeOK, Shows, Gotten, Refs
<1>1. step \in InLoop => todo # <<>>
  BY DEF IInv, Placed
<1>2. step \in InLoop => Tail(todo) \in Seq(Refs) /\ Head(todo).n \in Nat /\ Head(todo).id \in Nat
  <2>1. step \in InLoop => Tail(todo) \in Seq(Refs) /\ Head(todo) \in Refs
    BY <1>0, <1>1, HeadOf
  <2>. QED  BY <2>1 DEF Refs
<1>3. CASE Ended \/ Left \/ Moved(ok)
  BY <1>0, <1>3 DEF Ended, Left, Close, Moved
<1>4. CASE Numbered(ok)
  BY <1>0, <1>4, PlainIs DEF Numbered
<1>5. CASE Chosen(ok)
  <2>1. Oldest(Numbers) \in Seq(Refs)
    BY OldestIs
  <2>2. (IF ok THEN Oldest(Numbers) ELSE todo) \in Seq(Refs)
    BY <1>0, <2>1
  <2>3. Selected(IF ok THEN Oldest(Numbers) ELSE todo) \in Seq(Refs)
    BY <1>0, <2>2, SelectedIs
  <2>. QED  BY <1>0, <1>5, <2>3 DEF Chosen, Looping
<1>6. CASE AskedFor(ok)
  BY <1>0, <1>6, AskedIs DEF AskedFor, Looping
<1>7. CASE Searched(ok)
  <2>1. Newest(Found, req.limit) \in Seq(Refs)
    BY <1>0, FoundIs, NewestIs, TheRequest
  <2>. QED  BY <1>0, <1>7, <2>1 DEF Searched, Looping
<1>8. CASE FetchedOne(ok, g)
  <2>1. [label |-> g.ref.id, n |-> g.ref.n, full |-> g.full] \in Shows
    BY <1>0 DEF Shows
  <2>2. shown' \in Seq(Shows)
    BY <1>0, <1>8, <2>1 DEF FetchedOne, Shown
  <2>3. todo' \in Seq(Refs)
    BY <1>0, <1>2, <1>8 DEF FetchedOne, Looping, InLoop
  <2>. QED  BY <1>0, <1>8, <2>2, <2>3 DEF FetchedOne
<1>9. CASE StoredOne(ok)
  BY <1>0, <1>2, <1>9 DEF StoredOne, Looping, InLoop
<1>10. CASE Skipped(ok, g)
  BY <1>0, <1>2, <1>10 DEF Skipped, Looping, InLoop
<1>11. CASE KeptOne(ok, g)
  <2>1. step \in InLoop
    BY <1>11 DEF KeptOne, InLoop
  <2>2. [label |-> IF Head(todo).id = 0 THEN Head(todo).n ELSE Head(todo).id, n |-> g.ref.n, full |-> g.full] \in Shows
    BY <1>0, <1>2, <2>1 DEF Shows
  <2>3. shown' \in Seq(Shows)
    BY <1>0, <1>11, <2>2 DEF KeptOne, Shown
  <2>4. todo' \in Seq(Refs) /\ caps' \in SUBSET Mechs
    BY <1>0, <1>2, <1>11, <2>1 DEF KeptOne, Looping, Close
  <2>. QED  BY <2>3, <2>4
<1>12. CASE Addressed(ok)
  <2>1. [i \in 1 .. Rcpts |-> [n |-> i, id |-> 0]] \in Seq(Refs)
    BY BoundsAssumption DEF Refs
  <2>. QED  BY <1>0, <1>2, <1>12, <2>1 DEF Addressed, InLoop
<1>. QED  BY <1>3, <1>4, <1>5, <1>6, <1>7, <1>8, <1>9, <1>10, <1>11, <1>12 DEF Outcome

\* The steps there are.
LEMMA Kinds ==
    ASSUME IInv, [Next]_vars
    PROVE  \/ Dial \/ Send \/ ReadingOn \/ (\E ok \in BOOLEAN, g \in Gotten : Completing(ok, g))
           \/ Serve \/ Unsolicited \/ HangUp \/ UNCHANGED vars
BY Reads, DeadlinePasses, FileEnds DEF Next, ClientNext, ServerNext

-----------------------------------------------------------------------------
(* What the server answers *)

Done(c, ok, says) == [kind |-> "done", tag |-> c.tag, ok |-> ok, says |-> says,
                      ref |-> NoRef, full |-> FALSE, auth |-> {}]
Body(c) == [kind |-> IF c.name \in {"top", "retr", "fetch"} THEN "data" ELSE "listing", tag |-> 0,
            ok |-> TRUE, says |-> FALSE, ref |-> c.ref, full |-> c.name # "top", auth |-> {}]
Mark(kind, auth) == [kind |-> kind, tag |-> 0, ok |-> TRUE, says |-> FALSE,
                     ref |-> NoRef, full |-> FALSE, auth |-> auth]

\* A line with some of its fields changed.
LEMMA OtherStatus ==
    ASSUME NEW x \in Lines, NEW ok \in BOOLEAN, NEW says \in BOOLEAN
    PROVE  [x EXCEPT !.ok = ok, !.says = says]
              = [kind |-> x.kind, tag |-> x.tag, ok |-> ok, says |-> says, ref |-> x.ref, full |-> x.full, auth |-> x.auth]
<1>. DEFINE y == [x EXCEPT !.ok = ok]
<1>1. y \in Lines /\ y = [kind |-> x.kind, tag |-> x.tag, ok |-> ok, says |-> x.says, ref |-> x.ref, full |-> x.full, auth |-> x.auth]
  BY DEF Lines
<1>2. [x EXCEPT !.ok = ok, !.says = says] = [y EXCEPT !.says = says]
  OBVIOUS
<1>. HIDE DEF y
<1>3. [y EXCEPT !.says = says] = [kind |-> y.kind, tag |-> y.tag, ok |-> y.ok, says |-> says, ref |-> y.ref, full |-> y.full, auth |-> y.auth]
  BY <1>1 DEF Lines
<1>. QED  BY <1>1, <1>2, <1>3

LEMMA OtherContent ==
    ASSUME NEW x \in Lines, NEW ref \in Refs, NEW full \in BOOLEAN
    PROVE  [x EXCEPT !.ref = ref, !.full = full]
              = [kind |-> x.kind, tag |-> x.tag, ok |-> x.ok, says |-> x.says, ref |-> ref, full |-> full, auth |-> x.auth]
<1>. DEFINE y == [x EXCEPT !.ref = ref]
<1>1. y \in Lines /\ y = [kind |-> x.kind, tag |-> x.tag, ok |-> x.ok, says |-> x.says, ref |-> ref, full |-> x.full, auth |-> x.auth]
  BY DEF Lines
<1>2. [x EXCEPT !.ref = ref, !.full = full] = [y EXCEPT !.full = full]
  OBVIOUS
<1>. HIDE DEF y
<1>3. [y EXCEPT !.full = full] = [kind |-> y.kind, tag |-> y.tag, ok |-> y.ok, says |-> y.says, ref |-> y.ref, full |-> full, auth |-> y.auth]
  BY <1>1 DEF Lines
<1>. QED  BY <1>1, <1>2, <1>3

LEMMA AnswerIs ==
    ASSUME NEW c \in Commands, NEW ok \in BOOLEAN, NEW says \in BOOLEAN, NEW auth \in SUBSET Mechs
    PROVE  /\ ~ok => Answer(c, ok, says, auth) = <<Done(c, ok, says)>>
           /\ ok /\ c.name \in Continued => Answer(c, ok, says, auth) = <<Mark("plus", {})>>
           /\ ok /\ c.name \in Multi => Answer(c, ok, says, auth) = <<Done(c, ok, says), Body(c), Mark("end", {})>>
           /\ ok /\ c.name = "caps" => Answer(c, ok, says, auth) = <<Mark("caps", auth), Done(c, ok, says)>>
           /\ ok /\ c.name = "fetch" /\ c.ref.n # 0 => Answer(c, ok, says, auth) = <<Body(c), Done(c, ok, says)>>
           /\ ok /\ ~(c.name \in Continued \/ c.name \in Multi \/ c.name = "caps" \/ (c.name = "fetch" /\ c.ref.n # 0))
                 => Answer(c, ok, says, auth) = <<Done(c, ok, says)>>
           /\ Done(c, ok, says) \in Lines /\ Body(c) \in Lines
           /\ Mark("plus", {}) \in Lines /\ Mark("end", {}) \in Lines /\ Mark("caps", auth) \in Lines
<1>1. c.tag \in Nat /\ c.ref \in Refs /\ c.name \in Steps
  BY DEF Commands
<1>2. /\ Done(c, ok, says) \in Lines /\ Body(c) \in Lines
      /\ Mark("plus", {}) \in Lines /\ Mark("end", {}) \in Lines /\ Mark("caps", auth) \in Lines
  BY <1>1 DEF Done, Body, Mark, Lines, NoRef, Refs
<1>3. /\ [Line("done", c.tag) EXCEPT !.ok = ok, !.says = says] = Done(c, ok, says)
      /\ [Line(IF c.name \in {"top", "retr", "fetch"} THEN "data" ELSE "listing", 0)
            EXCEPT !.ref = c.ref, !.full = c.name # "top"] = Body(c)
      /\ Line("plus", 0) = Mark("plus", {}) /\ Line("end", 0) = Mark("end", {})
      /\ [Line("caps", 0) EXCEPT !.auth = auth] = Mark("caps", auth)
  <2>. DEFINE kind == IF c.name \in {"top", "retr", "fetch"} THEN "data" ELSE "listing"
              d == Line("done", c.tag)
              b == Line(kind, 0)
              m == Line("caps", 0)
  <2>1. d \in Lines /\ b \in Lines /\ m \in Lines
    BY <1>1 DEF Line, Lines, NoRef, Refs
  <2>. HIDE DEF d, b, m
  <2>2. /\ [d EXCEPT !.ok = ok, !.says = says] =
              [kind |-> d.kind, tag |-> d.tag, ok |-> ok, says |-> says, ref |-> d.ref, full |-> d.full, auth |-> d.auth]
    BY <2>1, OtherStatus
  <2>3. [m EXCEPT !.auth = auth] =
           [kind |-> m.kind, tag |-> m.tag, ok |-> m.ok, says |-> m.says, ref |-> m.ref, full |-> m.full, auth |-> auth]
    BY <2>1 DEF Lines
  <2>4. ASSUME NEW full \in BOOLEAN
        PROVE  [b EXCEPT !.ref = c.ref, !.full = full] =
                  [kind |-> b.kind, tag |-> b.tag, ok |-> b.ok, says |-> b.says, ref |-> c.ref, full |-> full,
                   auth |-> b.auth]
    BY <1>1, <2>1, OtherContent
  <2>5. Line("plus", 0) = Mark("plus", {}) /\ Line("end", 0) = Mark("end", {})
    BY DEF Line, Mark
  <2>6. [b EXCEPT !.ref = c.ref, !.full = c.name # "top"] =
           [kind |-> b.kind, tag |-> b.tag, ok |-> b.ok, says |-> b.says, ref |-> c.ref, full |-> c.name # "top",
            auth |-> b.auth]
    BY <2>4
  <2>. QED  BY <2>2, <2>3, <2>5, <2>6 DEF d, b, m, Line, Mark, Body, Done
<1>4. /\ c.name \in Continued => c.name \notin Multi /\ c.name \notin {"caps", "fetch"}
      /\ c.name \in Multi => c.name \notin {"caps", "fetch"}
  BY DEF Continued, Multi
<1>. HIDE DEF Done, Body, Mark
<1>5. /\ ~ok => Answer(c, ok, says, auth) = <<Done(c, ok, says)>>
      /\ ok /\ c.name \in Continued => Answer(c, ok, says, auth) = <<Mark("plus", {})>>
      /\ ok /\ c.name \in Multi => Answer(c, ok, says, auth) = <<Done(c, ok, says), Body(c), Mark("end", {})>>
      /\ ok /\ c.name = "caps" => Answer(c, ok, says, auth) = <<Mark("caps", auth), Done(c, ok, says)>>
      /\ ok /\ c.name = "fetch" /\ c.ref.n # 0 => Answer(c, ok, says, auth) = <<Body(c), Done(c, ok, says)>>
      /\ ok /\ ~(c.name \in Continued \/ c.name \in Multi \/ c.name = "caps" \/ (c.name = "fetch" /\ c.ref.n # 0))
            => Answer(c, ok, says, auth) = <<Done(c, ok, says)>>
  BY <1>3, <1>4 DEF Answer
<1>. QED  BY <1>2, <1>5

\* One command is served.
Serving(c, ok, says, auth) ==
    /\ queue # <<>> /\ c = Head(queue) /\ queue' = Tail(queue)
    /\ ok => c.name \in Public \/ Protocol \in accepted
    /\ says => ~ok /\ Protocol = "imap"
    /\ worded' = (worded \/ says)
    /\ wire' = IF conn = "open" THEN wire \o Answer(c, ok, says, auth) ELSE wire
    /\ IF ok THEN Served(c) ELSE UNCHANGED <<accepted, seen, envelope, mailed>>
    /\ UNCHANGED <<req, step, wait, tag, got, caps, todo, shown, legs, conn, result>>
    /\ UNCHANGED <<noise, gaveUp, unlisted, intruded>>

LEMMA Serves ==
    ASSUME IInv, Serve
    PROVE  \E c \in Commands, ok \in BOOLEAN, says \in BOOLEAN, auth \in SUBSET Mechs :
              Serving(c, ok, says, auth) /\ Harmless(c)
<1>1. queue # <<>> /\ queue \in Seq(Commands)
  BY DEF Serve, IInv, TypeOK
<1>2. Head(queue) \in Commands /\ Head(queue) = queue[1] /\ Len(queue) >= 1 /\ Len(queue) \in Nat
  BY <1>1, HeadOf
<1>3. Harmless(Head(queue))
  BY <1>2 DEF IInv, QueueHarmless
<1>4. PICK ok \in BOOLEAN, says \in BOOLEAN, auth \in SUBSET Mechs : Serving(Head(queue), ok, says, auth)
  BY DEF Serve, Serving, Mechs, serverVars, clientVars, progressVars, outcomeVars
<1>. QED  BY <1>2, <1>3, <1>4

LEMMA Showable ==
    ASSUME TypeOK
    PROVE  ToShow \subseteq Numbers /\ Named \subseteq Numbers /\ MayMark \subseteq Numbers /\ 0 \notin Numbers
           /\ Goal \subseteq Numbers
<1>1. ASSUME req.uids = <<>>, NEW i \in DOMAIN Newest(Found, req.limit)
      PROVE  Newest(Found, req.limit)[i].n \in Numbers
  <2>1. Found \in Seq(Refs) /\ Ns(Found) = Numbers \ req.old /\ req.limit \in Nat
    BY TheRequest, OldestIs DEF Found
  <2>2. Newest(Found, req.limit) \in Seq(Refs)
        /\ \A j \in 1 .. Len(Newest(Found, req.limit)) :
              \E k \in 1 .. Len(Found) : Newest(Found, req.limit)[j] = Found[k]
    <3>1. /\ Newest(Found, req.limit) \in Seq(Refs)
          /\ Len(Newest(Found, req.limit)) = Len(Found) - Cut(Found, req.limit)
          /\ \A j \in 1 .. Len(Found) - Cut(Found, req.limit) :
                /\ Newest(Found, req.limit)[j] = Found[Cut(Found, req.limit) + j]
                /\ Cut(Found, req.limit) + j \in 1 .. Len(Found)
      BY <2>1, NewestIs
    <3>. QED  BY <3>1
  <2>3. PICK k \in 1 .. Len(Found) : Newest(Found, req.limit)[i] = Found[k]
    BY <1>1, <2>2, LenProperties
  <2>4. Found[k].n \in Ns(Found)
    BY DEF Ns
  <2>. QED  BY <2>1, <2>3, <2>4
<1>2. ToShow \subseteq Numbers
  BY <1>1 DEF ToShow
<1>3. 0 \notin Numbers /\ Named \subseteq Numbers
  BY TheBox DEF Named
<1>. QED  BY <1>2, <1>3 DEF MayMark, Goal

LEMMA AnswerType ==
    ASSUME NEW c \in Commands, NEW ok \in BOOLEAN, NEW says \in BOOLEAN, NEW auth \in SUBSET Mechs
    PROVE  Answer(c, ok, says, auth) \in Seq(Lines)
<1>. DEFINE d == Done(c, ok, says)
            b == Body(c)
            e == Mark("end", {})
            p == Mark("plus", {})
            m == Mark("caps", auth)
<1>1. d \in Lines /\ b \in Lines /\ e \in Lines /\ p \in Lines /\ m \in Lines
  BY AnswerIs
<1>2. Answer(c, ok, says, auth) \in {<<d>>, <<p>>, <<d, b, e>>, <<m, d>>, <<b, d>>}
  BY AnswerIs
<1>. HIDE DEF d, b, e, p, m
<1>3. <<d>> \in Seq(Lines) /\ <<p>> \in Seq(Lines)
  BY <1>1
<1>4. <<m, d>> \in Seq(Lines) /\ <<b, d>> \in Seq(Lines)
  BY <1>1
<1>5. <<d, b, e>> \in Seq(Lines)
  BY <1>1
<1>. QED  BY <1>2, <1>3, <1>4, <1>5

-----------------------------------------------------------------------------
(* Types *)

LEMMA CloseTypes ==
    ASSUME IInv, Active, NEW outcome \in {"ok", "error"}, Close(outcome)
    PROVE  /\ legs' \in Seq(Sessions) /\ Len(legs') <= 2
           /\ conn' \in {"none", "closed"} /\ step' \in {"dial", "over"} /\ wait' = "no"
           /\ result' \in {"none", "ok", "error"} /\ ((result' = "none") <=> (step' # "over"))
<1>1. legs \in Seq(Sessions) /\ Len(legs) <= 2 /\ legs # <<>> /\ result = "none"
  BY Waiting DEF IInv, TypeOK, Active
<1>2. Tail(legs) \in Seq(Sessions) /\ Len(Tail(legs)) <= 2
  BY <1>1, HeadOf
<1>. QED  BY <1>1, <1>2 DEF Close, Goto

LEMMA TypeNext ==
    ASSUME IInv, [Next]_vars
    PROVE  TypeOK'
<1>0. TypeOK /\ Placed
  BY DEF IInv
<1>1. CASE Dial
  <2>1. Greeting \in Commands
    BY DEF Greeting, Commands, Steps, NoRef, Refs
  <2>2. queue' \in Seq(Commands) /\ wire' \in Seq(Lines)
    <3>1. <<Greeting>> \in Seq(Commands) /\ <<>> \in Seq(Lines)
      BY <2>1
    <3>2. queue \in Seq(Commands) /\ wire \in Seq(Lines)
      BY <1>0 DEF TypeOK
    <3>. HIDE DEF Greeting
    <3>. QED  BY <1>1, <3>1, <3>2 DEF Dial, channelVars
  <2>. QED  BY <1>0, <1>1, <2>2 DEF Dial, TypeOK, Goto, serverVars, histVars, Steps
<1>2. CASE Send
  <2>1. Active /\ conn \in {"open", "broken"} /\ (step = "fetch" => todo # <<>>) /\ todo \in Seq(Refs) /\ tag \in Nat
        /\ req.markSeen \in BOOLEAN /\ step \in Steps
    BY <1>0, <1>2, TheRequest DEF Send, Active, Placed, InLoop, TypeOK
  <2>2. todo # <<>> => Head(todo) \in Refs /\ Head(todo).id \in Nat
    <3>1. todo # <<>> => Head(todo) \in Refs
      BY <2>1, HeadOf
    <3>. QED  BY <3>1 DEF Refs
  <2>3. tag' \in Nat
    BY <1>2, <2>1 DEF Send
  <2>4. got' \in [ref : Refs, full : BOOLEAN, auth : SUBSET Mechs]
    <3>. DEFINE k == IF step = "fetch" THEN Head(todo).id ELSE 0
    <3>1. k \in Nat
      BY <2>1, <2>2
    <3>2. got' = [Nothing EXCEPT !.ref.id = k]
      BY <1>2 DEF Send
    <3>. HIDE DEF k
    <3>. QED  BY <3>1, <3>2 DEF Nothing, NoRef, Refs
  <2>5. queue' \in Seq(Commands)
    <3>. DEFINE c == [name |-> step, tag |-> tag', ref |-> IF todo = <<>> THEN NoRef ELSE Head(todo),
                      peek |-> ~req.markSeen]
    <3>1. c \in Commands
      BY <2>1, <2>2, <2>3 DEF Commands, NoRef, Refs
    <3>2. queue' = IF conn # "open" THEN queue ELSE Append(queue, c)
      BY <1>2 DEF Send
    <3>. HIDE DEF c
    <3>. QED  BY <1>0, <3>1, <3>2 DEF TypeOK
  <2>. QED  BY <1>0, <1>2, <2>1, <2>3, <2>4, <2>5 DEF Send, TypeOK, progressVars, outcomeVars, serverVars, histVars
<1>3. CASE ReadingOn
  <2>1. wire \in Seq(Lines) /\ wire # <<>>
    BY <1>0, <1>3 DEF TypeOK, ReadingOn
  <2>2. Tail(wire) \in Seq(Lines) /\ Head(wire) \in Lines
    BY <2>1, HeadOf
  <2>3. Collected(Head(wire)) \in Gotten
    BY <1>0, <2>2, CollectedIs
  <2>4. conn \in {"open", "broken"}
    BY <1>3, Waiting DEF ReadingOn
  <2>. QED  BY <1>0, <1>3, <2>2, <2>3, <2>4 DEF ReadingOn, TypeOK, Gotten
<1>4. ASSUME NEW ok \in BOOLEAN, NEW g \in Gotten, Completing(ok, g) PROVE TypeOK'
  <2>1. Active
    BY <1>4 DEF Completing, Heard
  <2>2. caps' \in SUBSET Mechs /\ todo' \in Seq(Refs) /\ shown' \in Seq(Shows)
    BY <1>4, <2>1, OutcomeTypes DEF Completing
  <2>3. wire' \in Seq(Lines)
    <3>1. wire \in Seq(Lines)
      BY <1>0 DEF TypeOK
    <3>2. wire # <<>> => Tail(wire) \in Seq(Lines)
      BY <3>1, HeadOf
    <3>. QED  BY <1>4, <3>1, <3>2 DEF Completing
  <2>4. got' \in [ref : Refs, full : BOOLEAN, auth : SUBSET Mechs]
    BY <1>4 DEF Completing, Nothing, NoRef, Refs
  <2>5. unlisted' \in BOOLEAN /\ gaveUp' \in BOOLEAN
    BY <1>0, <1>4 DEF Completing, TypeOK
  <2>6. /\ legs' \in Seq(Sessions) /\ Len(legs') <= 2
        /\ conn' \in {"none", "open", "broken", "closed"} /\ step' \in Steps /\ wait' = "no"
        /\ result' \in {"none", "ok", "error"} /\ ((result' = "none") <=> (step' # "over"))
    <3>1. CASE Close("error") \/ Left
      BY <2>1, <3>1, CloseTypes DEF Left, Steps
    <3>2. CASE Going
      <4>1. step' \in Steps \ {"dial", "over"}
        BY <3>2, PathSteps DEF Going
      <4>. QED  BY <1>0, <2>1, <3>2, <4>1 DEF Going, Goes, TypeOK, outcomeVars, Active
    <3>. QED  BY <1>4, <2>1, <3>1, <3>2, OutcomeGoes DEF Completing
  <2>. QED  BY <1>0, <1>4, <2>2, <2>3, <2>4, <2>5, <2>6 DEF Completing, TypeOK, Shows
<1>5. CASE Serve
  <2>1. PICK c \in Commands, ok \in BOOLEAN, says \in BOOLEAN, auth \in SUBSET Mechs :
           Serving(c, ok, says, auth) /\ Harmless(c)
    BY <1>5, Serves
  <2>2. wire' \in Seq(Lines)
    <3>1. Answer(c, ok, says, auth) \in Seq(Lines) /\ wire \in Seq(Lines)
      BY <1>0, AnswerType DEF TypeOK
    <3>2. wire \o Answer(c, ok, says, auth) \in Seq(Lines)
      BY <3>1, ConcatProperties
    <3>. QED  BY <2>1, <3>1, <3>2 DEF Serving
  <2>3. queue' \in Seq(Commands)
    BY <1>0, <2>1, HeadOf DEF TypeOK, Serving
  <2>4. /\ accepted' \subseteq {"imap", "pop3", "smtp"} /\ seen' \subseteq Numbers
        /\ mailed' \subseteq envelope' /\ envelope' \subseteq 1 .. Rcpts
    <3>0. /\ accepted \subseteq {"imap", "pop3", "smtp"} /\ seen \subseteq Numbers
          /\ mailed \subseteq envelope /\ envelope \subseteq 1 .. Rcpts
      BY <1>0 DEF TypeOK
    <3>1. CASE ok
      <4>1. Served(c)
        BY <2>1, <3>1 DEF Serving
      <4>2. accepted' \subseteq {"imap", "pop3", "smtp"}
        <5>1. c.name \in Logins => legs # <<>>
          BY <1>0, <2>1 DEF Placed, Serving
        <5>2. c.name \in Logins => Protocol \in {"imap", "pop3", "smtp"}
          BY <1>0, <5>1, SessionFits DEF Fitting
        <5>. QED  BY <3>0, <4>1, <5>2 DEF Served
      <4>3. seen' \subseteq Numbers
        BY <1>0, <2>1, <3>0, <4>1, Showable DEF Served, Harmless
      <4>4. envelope' \subseteq 1 .. Rcpts /\ envelope \subseteq envelope'
        BY <2>1, <3>0, <4>1 DEF Served, Harmless
      <4>5. mailed' \subseteq envelope'
        BY <3>0, <4>1, <4>4 DEF Served
      <4>. QED  BY <4>2, <4>3, <4>4, <4>5
    <3>2. CASE ~ok
      BY <2>1, <3>0, <3>2 DEF Serving
    <3>. QED  BY <3>1, <3>2
  <2>. QED  BY <1>0, <2>1, <2>2, <2>3, <2>4 DEF Serving, TypeOK
<1>6. CASE Unsolicited
  <2>1. PICK id \in Ids \union {0} :
           /\ wire' = Append(wire, [Line("fetch", 0) EXCEPT !.ref.id = id])
           /\ intruded' = (intruded \/ id # 0)
    BY <1>6 DEF Unsolicited
  <2>2. id \in Nat
    BY TheBox DEF Ids
  <2>3. [Line("fetch", 0) EXCEPT !.ref.id = id] \in Lines
    <3>1. Line("fetch", 0) \in Lines
      BY DEF Line, Lines, NoRef, Refs
    <3>2. [Line("fetch", 0).ref EXCEPT !.id = id] \in Refs
      BY <2>2 DEF Line, NoRef, Refs
    <3>. HIDE DEF Line
    <3>. QED  BY <2>2, <3>1, <3>2 DEF Lines
  <2>. HIDE DEF Line
  <2>4. wire' \in Seq(Lines)
    BY <1>0, <2>1, <2>3 DEF TypeOK
  <2>5. noise' \in 0 .. MaxNoise
    BY <1>0, <1>6, BoundsAssumption DEF Unsolicited, TypeOK
  <2>. QED  BY <1>0, <1>6, <2>1, <2>4, <2>5 DEF Unsolicited, TypeOK, clientVars, progressVars, outcomeVars, serverVars
<1>7. CASE HangUp
  <2>1. wire' \in Seq(Lines)
    <3>1. PICK k \in 0 .. Len(wire) : wire' = SubSeq(wire, 1, k)
      BY <1>7 DEF HangUp
    <3>2. wire \in Seq(Lines) /\ Len(wire) \in Nat /\ \A i \in 1 .. Len(wire) : wire[i] \in Lines
      BY <1>0, LenProperties, ElementOfSeq DEF TypeOK
    <3>. QED  BY <3>1, <3>2, SubSeqProperties
  <2>. QED  BY <1>0, <1>7, <2>1 DEF HangUp, TypeOK, progressVars, serverVars, histVars
<1>8. CASE UNCHANGED vars
  BY <1>0, <1>8 DEF TypeOK, vars, clientVars, progressVars, outcomeVars, channelVars, serverVars, histVars
<1>. QED  BY <1>1, <1>2, <1>3, <1>4, <1>5, <1>6, <1>7, <1>8, Kinds

-----------------------------------------------------------------------------
(* Where a request is *)

LEMMA RequestStays ==
    ASSUME req' = req
    PROVE  /\ Wanted' = Wanted /\ Found' = Found /\ ToShow' = ToShow /\ Named' = Named /\ MayMark' = MayMark
           /\ Asked' = Asked /\ Dated' = Dated /\ Fits' = Fits /\ Lowest' = Lowest
<1>1. Wanted' = Wanted /\ Found' = Found /\ Asked' = Asked /\ Dated' = Dated /\ Lowest' = Lowest
  BY DEF Wanted, Found, Asked, Dated, Lowest
<1>2. ToShow' = ToShow /\ Named' = Named
  BY <1>1 DEF ToShow, Named
<1>. QED  BY <1>1, <1>2 DEF MayMark, Fits

\* The request has been answered, or its next session begins.
Stopped(outcome) ==
    /\ conn' = "closed" /\ result' = outcome /\ step' = "over" /\ wait' = "no" /\ legs' = legs
    /\ outcome = "ok" => Len(legs) = 1
Handed ==
    /\ conn' = "none" /\ result' = result /\ step' = "dial" /\ wait' = "no"
    /\ legs = Legs(req) /\ Len(Legs(req)) = 2 /\ legs' = Tail(Legs(req)) /\ Len(legs') = 1
    /\ Protocol # "smtp" /\ Protocol' = "smtp" /\ Protocol' = Legs(req)[2].protocol

LEMMA Closes ==
    ASSUME IInv, Active, NEW outcome \in {"ok", "error"}, Close(outcome)
    PROVE  Stopped(outcome) \/ (outcome = "ok" /\ Handed)
<1>1. Fitting /\ legs \in Seq(Sessions)
  BY Waiting DEF IInv, TypeOK
<1>2. CASE outcome = "ok" /\ Len(legs) > 1
  <2>1. legs = Legs(req) /\ Protocol # "smtp" /\ Legs(req)[2].protocol = "smtp" /\ Len(legs) = 2
    BY <1>1, <1>2 DEF Fitting
  <2>2. legs' = Tail(legs) /\ conn' = "none" /\ step' = "dial" /\ wait' = "no" /\ result' = result
    BY <1>2 DEF Close, Goto
  <2>3. Len(legs') = 1 /\ legs'[1] = legs[2]
    <3>1. legs # <<>>
      BY <2>1
    <3>2. Len(Tail(legs)) = Len(legs) - 1 /\ \A i \in 1 .. Len(legs) - 1 : Tail(legs)[i] = legs[i + 1]
      BY <1>1, <3>1, HeadOf
    <3>. QED  BY <2>1, <2>2, <3>2
  <2>. QED  BY <1>2, <2>1, <2>2, <2>3 DEF Handed, Protocol
<1>3. CASE ~(outcome = "ok" /\ Len(legs) > 1)
  BY <1>1, <1>3 DEF Close, Goto, Stopped, Fitting
<1>. QED  BY <1>2, <1>3

LEMMA Completes ==
    ASSUME IInv, NEW ok, NEW g, Completing(ok, g)
    PROVE  /\ Active /\ Fitting /\ legs # <<>> /\ step \in Path(legs[1])
           /\ \/ Close("error") /\ Stopped("error")
              \/ Left /\ (Stopped("ok") \/ Handed)
              \/ Going
<1>1. Active /\ Outcome(ok, g)
  BY DEF Completing, Heard
<1>2. Fitting /\ legs # <<>> /\ step \in Path(legs[1])
  BY <1>1, Waiting
<1>. QED  BY <1>1, <1>2, OutcomeGoes, Closes DEF Left

\* The ways on of an IMAP and of a POP3 session.
LEMMA GoingHow ==
    ASSUME NEW ok, NEW g, Active, Outcome(ok, g), Going
    PROVE  /\ Protocol = "imap" =>
                 Moved(ok) \/ AskedFor(ok) \/ Searched(ok) \/ FetchedOne(ok, g) \/ StoredOne(ok)
           /\ Protocol = "pop3" => Moved(ok) \/ Numbered(ok) \/ Chosen(ok) \/ Skipped(ok, g) \/ KeptOne(ok, g)
<1>1. ~Ended /\ ~Left
  BY DEF Going, Goes, Ended, Left, Close, Goto
<1>2. Addressed(ok) => Protocol = "smtp"
  BY DEF Addressed
<1>3. Numbered(ok) \/ Chosen(ok) \/ Skipped(ok, g) \/ KeptOne(ok, g) => Protocol = "pop3"
  BY DEF Numbered, Chosen, Skipped, KeptOne
<1>4. AskedFor(ok) \/ Searched(ok) \/ FetchedOne(ok, g) \/ StoredOne(ok) => Protocol = "imap"
  BY DEF AskedFor, Searched, FetchedOne, StoredOne
<1>. QED  BY <1>1, <1>2, <1>3, <1>4 DEF Outcome

LEMMA PlacedNext ==
    ASSUME IInv, [Next]_vars
    PROVE  Placed'
<1>0. TypeOK /\ Placed /\ wait' \in {"no", "line", "body"}
  BY TypeNext DEF IInv, TypeOK
<1>. USE <1>0
<1>1. CASE Dial
  <2>1. step = "dial" /\ legs # <<>> /\ Fitting
    BY <1>1, SessionFits DEF Dial, Placed
  <2>2. "greeting" \in Path(legs[1])
    BY <2>1 DEF Fitting, Path, Protocol, Task
  <2>3. result = "none"
    BY <2>1 DEF TypeOK
  <2>. QED  BY <1>1, <2>1, <2>2, <2>3 DEF Dial, Placed, Active, Goto, channelVars, Task, InLoop
<1>2. CASE Send
  BY <1>2 DEF Send, Placed, Active, progressVars, outcomeVars, Task
<1>3. CASE ReadingOn
  BY <1>3 DEF ReadingOn, Placed, Active, Task
<1>4. ASSUME NEW ok \in BOOLEAN, NEW g \in Gotten, Completing(ok, g) PROVE Placed'
  <2>0. Active /\ Fitting /\ legs # <<>> /\ step \in Path(legs[1]) /\ req' = req /\ queue' = queue /\ result = "none"
    BY <1>4, Completes DEF Completing, TypeOK, Active
  <2>1. ASSUME NEW outcome \in {"ok", "error"}, Stopped(outcome) PROVE Placed'
    <3>1. Len(legs) \in {1, 2}
      BY <2>0 DEF Fitting
    <3>2. legs' = legs /\ Legs(req') = Legs(req)
      BY <2>0, <2>1 DEF Stopped
    <3>3. legs' = Legs(req') \/ (Len(Legs(req')) = 2 /\ legs' = Tail(Legs(req')))
      BY <3>2 DEF Placed
    <3>4. legs' # <<>> /\ (result' = "ok" => Len(legs') <= 1)
      BY <2>0, <2>1, <3>1, <3>2 DEF Stopped
    <3>. QED  BY <2>1, <3>3, <3>4 DEF Stopped, Placed, Active, InLoop
  <2>2. CASE Handed
    <3>0. Legs(req') = Legs(req)
      BY <2>0
    <3>1. Len(Legs(req')) = 2 /\ legs' = Tail(Legs(req'))
      BY <2>2, <3>0 DEF Handed
    <3>2. legs' # <<>>
      <4>1. Len(legs') = 1
        BY <2>2 DEF Handed
      <4>. QED  BY ONLY <4>1
    <3>3. result' = "none"
      BY <2>0, <2>2 DEF Handed
    <3>. QED  BY <2>2, <3>1, <3>2, <3>3 DEF Handed, Placed, Active, InLoop
  <2>3. CASE Going
    BY <2>0, <2>3 DEF Going, Goes, outcomeVars, Placed, Active, Task
  <2>. QED  BY <1>4, <2>1, <2>2, <2>3, Completes
<1>5. CASE Serve
  <2>1. PICK c \in Commands, ok \in BOOLEAN, says \in BOOLEAN, auth \in SUBSET Mechs : Serving(c, ok, says, auth)
    BY <1>5, Serves
  <2>. QED  BY <2>1 DEF Serving, Placed, Active, Task
<1>6. CASE Unsolicited
  BY <1>6 DEF Unsolicited, Placed, Active, Task, clientVars, progressVars, outcomeVars
<1>7. CASE HangUp
  BY <1>7 DEF HangUp, Placed, Active, Task, progressVars
<1>8. CASE UNCHANGED vars
  BY <1>8 DEF Placed, Active, Task, vars, clientVars, progressVars, outcomeVars, channelVars
<1>. QED  BY <1>1, <1>2, <1>3, <1>4, <1>5, <1>6, <1>7, <1>8, Kinds

LEMMA UnshownNext ==
    ASSUME IInv, [Next]_vars
    PROVE  Unshown'
<1>0. TypeOK /\ Placed /\ Unshown
  BY DEF IInv
<1>1. CASE Dial
  BY <1>0, <1>1 DEF Dial, Unshown, Protocol, Goto, histVars, LoginSteps
<1>2. CASE Send
  BY <1>0, <1>2 DEF Send, Unshown, Protocol, progressVars, outcomeVars, histVars
<1>3. CASE ReadingOn
  BY <1>0, <1>3 DEF ReadingOn, Unshown, Protocol
<1>4. ASSUME NEW ok \in BOOLEAN, NEW g \in Gotten, Completing(ok, g) PROVE Unshown'
  <2>0. Active /\ Fitting /\ step \in Path(legs[1]) /\ Outcome(ok, g)
        /\ unlisted' = (unlisted \/ (step = "uidl" /\ ~ok)) /\ (gaveUp' # gaveUp => ~ok)
    BY <1>4, Completes DEF Completing
  <2>1. CASE step' \in {"dial", "over"} /\ (step' = "dial" => Protocol' = "smtp")
    BY <2>1 DEF Unshown, LoginSteps
  <2>2. CASE Going
    <3>1. legs' = legs /\ Protocol' = Protocol
      BY <2>2 DEF Going, Goes, outcomeVars, Protocol
    <3>2. CASE Moved(ok) /\ Protocol # "smtp" /\ step' \in LoginSteps \union {"select", "search", "list", "uidl"}
      <4>1. step \in LoginSteps \union {"select", "pass"} /\ step # "uidl" /\ shown' = shown
            /\ (Protocol = "pop3" => ok)
        BY <3>2 DEF Moved, Moves, MovesIMAP, MovesPOP3, LoginSteps
      <4>. QED  BY <1>0, <2>0, <3>1, <4>1 DEF Unshown, LoginSteps
    <3>3. CASE Numbered(ok)
      BY <1>0, <2>0, <3>1, <3>3 DEF Numbered, Unshown
    <3>4. CASE Addressed(ok)
      BY <3>1, <3>4 DEF Addressed, Unshown
    <3>5. CASE ~Moved(ok) /\ ~Numbered(ok) /\ ~Addressed(ok)
      <4>1. step' \in {"logout", "quit", "store", "fetch", "top"}
        BY <2>0, <2>2, <3>5 DEF Outcome, Going, Goes, Ended, Left, Close, Goto, Chosen, AskedFor, Searched, FetchedOne,
                    StoredOne, Skipped, KeptOne, Looping, Farewell
      <4>. QED  BY <4>1 DEF Unshown, LoginSteps
    <3>. QED  BY <3>1, <3>2, <3>3, <3>4, <3>5, <2>2 DEF Unshown, Going
  <2>. QED  BY <1>4, <2>1, <2>2, Completes DEF Stopped, Handed
<1>5. CASE Serve
  <2>1. PICK c \in Commands, ok \in BOOLEAN, says \in BOOLEAN, auth \in SUBSET Mechs : Serving(c, ok, says, auth)
    BY <1>5, Serves
  <2>. QED  BY <1>0, <2>1 DEF Serving, Unshown, Protocol
<1>6. CASE Unsolicited
  BY <1>0, <1>6 DEF Unsolicited, Unshown, Protocol, clientVars, progressVars, outcomeVars
<1>7. CASE HangUp
  BY <1>0, <1>7 DEF HangUp, Unshown, Protocol, progressVars, histVars
<1>8. CASE UNCHANGED vars
  BY <1>0, <1>8 DEF Unshown, Protocol, vars, clientVars, progressVars, outcomeVars, histVars
<1>. QED  BY <1>1, <1>2, <1>3, <1>4, <1>5, <1>6, <1>7, <1>8, Kinds

LEMMA LoggedInNext ==
    ASSUME IInv, [Next]_vars
    PROVE  LoggedIn'
<1>0. TypeOK /\ Placed /\ LoggedIn
  BY DEF IInv
<1>1. CASE Dial
  BY <1>0, <1>1 DEF Dial, LoggedIn, Goto, serverVars, histVars, Past, TypeOK
<1>2. CASE Send
  BY <1>0, <1>2 DEF Send, LoggedIn, Protocol, outcomeVars, serverVars, histVars
<1>3. CASE ReadingOn
  BY <1>0, <1>3 DEF ReadingOn, LoggedIn, Protocol
<1>4. ASSUME NEW ok \in BOOLEAN, NEW g \in Gotten, Completing(ok, g) PROVE LoggedIn'
  <2>0. /\ Active /\ Fitting /\ step \in Path(legs[1]) /\ Outcome(ok, g) /\ Heard(ok, g)
        /\ req' = req /\ accepted' = accepted /\ worded' = worded /\ result = "none"
    BY <1>0, <1>4, Completes DEF Completing, TypeOK, Active
  <2>1. CASE Stopped("error")
    BY <1>0, <2>0, <2>1 DEF Stopped, LoggedIn, Past
  <2>2. CASE Left /\ ~worded
    <3>1. step \in Past /\ Protocol \in accepted
      BY <1>0, <2>2 DEF Left, Farewell, Past, LoggedIn
    <3>2. CASE Stopped("ok")
      <4>1. Len(legs) = 1 /\ legs' = legs /\ result' = "ok" /\ step' = "over"
        BY <3>2 DEF Stopped
      <4>2. ASSUME NEW i \in 1 .. Len(Legs(req)) PROVE Legs(req)[i].protocol \in accepted
        <5>1. CASE legs = Legs(req)
          <6>1. Len(Legs(req)) = 1
            BY <4>1, <5>1
          <6>2. i = 1
            BY <6>1
          <6>. QED  BY <3>1, <5>1, <6>2 DEF Protocol
        <5>2. CASE legs # Legs(req)
          <6>1. Protocol = "smtp" /\ Len(Legs(req)) = 2 /\ Legs(req)[2].protocol = "smtp"
            BY <1>0, <2>0, <5>2 DEF Fitting, Placed
          <6>2. Legs(req)[1].protocol \in accepted /\ (i = 1 \/ i = 2)
            BY <1>0, <2>2, <5>2, <6>1 DEF LoggedIn
          <6>. QED  BY <3>1, <6>1, <6>2
        <5>. QED  BY <5>1, <5>2
      <4>. QED  BY <1>0, <2>0, <2>2, <4>1, <4>2 DEF LoggedIn, Past
    <3>3. CASE Handed
      BY <2>0, <3>1, <3>3 DEF Handed, LoggedIn, Protocol, Past
    <3>. QED  BY <1>4, <2>0, <3>2, <3>3, <2>2, Closes DEF Left
  <2>3. CASE Going /\ ~worded
    <3>1. legs' = legs /\ Protocol' = Protocol /\ result' = result
      BY <2>3 DEF Going, Goes, outcomeVars, Protocol
    <3>2. step' \in Past => Protocol \in accepted
      <4>1. CASE Moved(ok)
        <5>1. step' \in Past => step \in Past \/ (ok /\ step \in Logins)
          BY <4>1 DEF Moved, Moves, MovesIMAP, MovesPOP3, MovesSMTP, Past, Logins
        <5>. QED  BY <1>0, <2>0, <2>3, <5>1 DEF LoggedIn, Heard
      <4>2. CASE ~Moved(ok)
        <5>1. step \in Past
          BY <2>0, <2>3, <4>2 DEF Outcome, Going, Goes, Ended, Left, Close, Goto, Numbered, Chosen, AskedFor, Searched,
                      FetchedOne, StoredOne, Skipped, KeptOne, Addressed, Past, Farewell
        <5>. QED  BY <1>0, <2>3, <5>1 DEF LoggedIn
      <4>. QED  BY <4>1, <4>2
    <3>. QED  BY <1>0, <2>0, <2>3, <3>1, <3>2 DEF LoggedIn
  <2>. QED  BY <1>4, <2>0, <2>1, <2>2, <2>3, Completes DEF LoggedIn
<1>5. CASE Serve
  <2>1. PICK c \in Commands, ok \in BOOLEAN, says \in BOOLEAN, auth \in SUBSET Mechs : Serving(c, ok, says, auth)
    BY <1>5, Serves
  <2>2. accepted \subseteq accepted' /\ (~worded' => ~worded)
    BY <2>1 DEF Serving, Served
  <2>. QED  BY <1>0, <2>1, <2>2 DEF Serving, LoggedIn, Protocol
<1>6. CASE Unsolicited
  BY <1>0, <1>6 DEF Unsolicited, LoggedIn, Protocol, clientVars, outcomeVars, serverVars
<1>7. CASE HangUp
  BY <1>0, <1>7 DEF HangUp, LoggedIn, Protocol, serverVars, histVars
<1>8. CASE UNCHANGED vars
  BY <1>0, <1>8 DEF LoggedIn, Protocol, vars, clientVars, outcomeVars, serverVars, histVars
<1>. QED  BY <1>1, <1>2, <1>3, <1>4, <1>5, <1>6, <1>7, <1>8, Kinds

-----------------------------------------------------------------------------
(* What is left behind at the servers *)

LEMMA NotUnlistedNext ==
    ASSUME IInv, [Next]_vars
    PROVE  NotUnlisted'
<1>0. NotUnlisted
  BY DEF IInv
<1>1. CASE Dial \/ Send
  BY <1>0, <1>1 DEF Dial, Send, histVars, NotUnlisted
<1>3. CASE ReadingOn
  BY <1>0, <1>3 DEF ReadingOn, NotUnlisted
<1>4. ASSUME NEW ok \in BOOLEAN, NEW g \in Gotten, Completing(ok, g) PROVE NotUnlisted'
  <2>1. Fitting /\ step \in Path(legs[1]) /\ req' = req /\ unlisted' = (unlisted \/ (step = "uidl" /\ ~ok))
    BY <1>4, Completes DEF Completing
  <2>2. step = "uidl" => Protocol = "pop3"
    BY <2>1 DEF Path, Protocol
  <2>. QED  BY <1>0, <2>1, <2>2 DEF NotUnlisted, Fitting
<1>5. CASE Serve
  BY <1>0, <1>5 DEF Serve, NotUnlisted
<1>6. CASE Unsolicited \/ HangUp
  BY <1>0, <1>6 DEF Unsolicited, HangUp, histVars, NotUnlisted
<1>7. CASE UNCHANGED vars
  BY <1>0, <1>7 DEF vars, histVars, NotUnlisted
<1>. QED  BY <1>1, <1>3, <1>4, <1>5, <1>6, <1>7, Kinds

\* Where it matters the task says what may be marked.
LEMMA MarksWhatItMay ==
    ASSUME IInv, Active, Protocol = "imap", step \in {"fetch", "store"}, step = "store" \/ req.markSeen
    PROVE  Head(todo).n \in MayMark \union {0}
<1>1. TypeOK /\ Placed /\ Fitting /\ step \in Path(legs[1])
  BY Waiting DEF IInv
<1>2. todo \in Seq(Refs) /\ todo # <<>>
  BY <1>1 DEF TypeOK, Placed, InLoop
<1>3. Head(todo).n \in Ns(todo)
  BY <1>2, HeadOf DEF Ns
<1>4. Ns(todo) \subseteq Goal \union {0}
  BY DEF IInv, IMAPWork
<1>5. Task \in {"list", "mark"}
  BY <1>1 DEF Path, Protocol, Task, Fitting
<1>6. CASE Task = "mark"
  <2>1. req.op = "mark" /\ req.markSeen
    BY <1>1, <1>6, TheRequest DEF Fitting
  <2>. QED  BY <1>3, <1>4, <1>6, <2>1 DEF MayMark, Goal
<1>7. CASE Task = "list"
  <2>1. req.markSeen
    BY <1>1, <1>7 DEF Placed
  <2>2. req.op = "list"
    BY <1>1, <1>7, <2>1, TheRequest DEF Fitting
  <2>. QED  BY <1>3, <1>4, <1>7, <2>1, <2>2 DEF MayMark, Goal
<1>. QED  BY <1>5, <1>6, <1>7

LEMMA QueueHarmlessNext ==
    ASSUME IInv, [Next]_vars
    PROVE  QueueHarmless'
<1>0. TypeOK /\ Placed /\ QueueHarmless /\ queue \in Seq(Commands) /\ Len(queue) \in Nat
  BY LenProperties DEF IInv, TypeOK
<1>. DEFINE still(c) ==
               /\ c.name = "store" \/ (c.name = "fetch" /\ ~c.peek) => c.ref.n \in MayMark' \union {0}
               /\ c.name = "rcpt" => c.ref.n \in 1 .. Rcpts
               /\ c.name = "text" => envelope' = 1 .. Rcpts
<1>1. CASE Dial
  <2>1. req' = req /\ envelope' = envelope
    BY <1>1 DEF Dial, serverVars
  <2>2. CASE queue' = <<Greeting>>
    <3>1. still(Greeting)
      BY DEF Greeting
    <3>2. Len(queue') = 1 /\ queue'[1] = Greeting
      BY <2>2
    <3>3. ASSUME NEW i \in 1 .. Len(queue') PROVE still(queue'[i])
      <4>1. i = 1
        BY <3>2
      <4>. QED  BY <3>1, <3>2, <4>1
    <3>. QED  BY <3>3 DEF QueueHarmless, Harmless
  <2>3. CASE queue' = queue
    <3>1. MayMark' = MayMark
      BY <2>1, RequestStays
    <3>. QED  BY <1>0, <2>1, <2>3, <3>1 DEF QueueHarmless, Harmless
  <2>. QED  BY <1>1, <2>2, <2>3 DEF Dial, channelVars
<1>2. CASE Send
  <2>1. req' = req /\ envelope' = envelope /\ MayMark' = MayMark
    BY <1>2, RequestStays DEF Send, serverVars
  <2>. DEFINE c == [name |-> step, tag |-> tag', ref |-> IF todo = <<>> THEN NoRef ELSE Head(todo),
                    peek |-> ~req.markSeen]
  <2>2. Active /\ queue' = IF conn # "open" THEN queue ELSE Append(queue, c)
    BY <1>2 DEF Send, Active
  <2>3. Harmless(c)
    <3>0. Fitting /\ step \in Path(legs[1]) /\ (step \in InLoop => todo # <<>>) /\ todo \in Seq(Refs)
      BY <1>0, <2>2, Waiting DEF Placed, TypeOK
    <3>1. CASE step \in {"fetch", "store"}
      <4>1. Protocol = "imap"
        BY <3>0, <3>1 DEF Path, Protocol
      <4>2. c.ref = Head(todo) /\ c.name = step /\ (~c.peek => req.markSeen)
        BY <3>0, <3>1 DEF InLoop
      <4>. QED  BY <2>2, <3>1, <4>1, <4>2, MarksWhatItMay DEF Harmless
    <3>2. CASE step \in {"rcpt", "text"}
      <4>1. Protocol = "smtp" /\ Task = "send"
        BY <3>0, <3>2 DEF Path, Protocol, Task
      <4>2. CASE step = "rcpt"
        <5>1. todo # <<>> /\ Len(todo) \in Nat /\ Len(todo) >= 1 /\ Head(todo) = todo[1]
          BY <3>0, <4>2, HeadOf DEF InLoop
        <5>2. Len(todo) <= Rcpts /\ todo[1].n = Rcpts - Len(todo) + 1
          BY <2>2, <4>1, <4>2, <5>1 DEF IInv, SMTPWork
        <5>3. c.ref.n = Rcpts - Len(todo) + 1 /\ c.name = "rcpt"
          BY <4>2, <5>1, <5>2
        <5>. QED  BY <5>1, <5>2, <5>3, BoundsAssumption DEF Harmless
      <4>3. CASE step = "text"
        BY <2>2, <4>1, <4>3 DEF IInv, SMTPWork, Harmless
      <4>. QED  BY <3>2, <4>2, <4>3
    <3>3. CASE step \notin {"fetch", "store", "rcpt", "text"}
      BY <3>3 DEF Harmless
    <3>. QED  BY <3>1, <3>2, <3>3
  <2>. HIDE DEF c
  <2>4. \A i \in 1 .. Len(queue') : Harmless(queue'[i])
    BY <1>0, <2>2, <2>3 DEF QueueHarmless
  <2>. QED  BY <2>1, <2>4 DEF QueueHarmless, Harmless
<1>3. CASE ReadingOn
  <2>1. req' = req /\ envelope' = envelope /\ MayMark' = MayMark /\ queue' = queue
    BY <1>3, RequestStays DEF ReadingOn
  <2>. QED  BY <1>0, <2>1 DEF QueueHarmless, Harmless
<1>4. ASSUME NEW ok \in BOOLEAN, NEW g \in Gotten, Completing(ok, g) PROVE QueueHarmless'
  <2>1. req' = req /\ envelope' = envelope /\ MayMark' = MayMark /\ queue' = queue
    BY <1>4, RequestStays DEF Completing
  <2>. QED  BY <1>0, <2>1 DEF QueueHarmless, Harmless
<1>5. CASE Serve
  <2>1. PICK c \in Commands, ok \in BOOLEAN, says \in BOOLEAN, auth \in SUBSET Mechs :
           Serving(c, ok, says, auth) /\ Harmless(c)
    BY <1>5, Serves
  <2>2. req' = req /\ MayMark' = MayMark /\ queue' = Tail(queue) /\ queue # <<>>
    BY <2>1, RequestStays DEF Serving
  <2>3. envelope = 1 .. Rcpts => envelope' = 1 .. Rcpts
    BY <2>1 DEF Serving, Served, Harmless
  <2>4. ASSUME NEW i \in 1 .. Len(queue') PROVE still(queue'[i])
    <3>1. i + 1 \in 1 .. Len(queue) /\ queue'[i] = queue[i + 1]
      BY <1>0, <2>2, HeadOf
    <3>2. Harmless(queue[i + 1])
      BY <1>0, <3>1 DEF QueueHarmless
    <3>. QED  BY <2>2, <2>3, <3>1, <3>2 DEF Harmless
  <2>. QED  BY <2>4 DEF QueueHarmless, Harmless
<1>6. CASE Unsolicited
  <2>1. req' = req /\ envelope' = envelope /\ MayMark' = MayMark /\ queue' = queue
    BY <1>6, RequestStays DEF Unsolicited, serverVars
  <2>. QED  BY <1>0, <2>1 DEF QueueHarmless, Harmless
<1>7. CASE HangUp
  BY <1>7 DEF HangUp, QueueHarmless
<1>8. CASE UNCHANGED vars
  <2>1. req' = req /\ envelope' = envelope /\ MayMark' = MayMark /\ queue' = queue
    BY <1>8, RequestStays DEF vars, serverVars, channelVars
  <2>. QED  BY <1>0, <2>1 DEF QueueHarmless, Harmless
<1>. QED  BY <1>1, <1>2, <1>3, <1>4, <1>5, <1>6, <1>7, <1>8, Kinds

\* What a step does to the servers' state.
LEMMA ServerSteps ==
    ASSUME IInv, [Next]_vars
    PROVE  /\ req' = req /\ MayMark' = MayMark
           /\ accepted \subseteq accepted' /\ seen \subseteq seen' /\ seen' \subseteq seen \union MayMark
           /\ envelope \subseteq envelope' /\ envelope' \subseteq 1 .. Rcpts
           /\ mailed' = mailed \/ mailed' = 1 .. Rcpts
           /\ worded => worded'
<1>1. ASSUME req' = req, accepted' = accepted, seen' = seen, envelope' = envelope, mailed' = mailed, worded' = worded
      PROVE  /\ req' = req /\ MayMark' = MayMark
             /\ accepted \subseteq accepted' /\ seen \subseteq seen' /\ seen' \subseteq seen \union MayMark
             /\ envelope \subseteq envelope' /\ envelope' \subseteq 1 .. Rcpts
             /\ mailed' = mailed \/ mailed' = 1 .. Rcpts
             /\ worded => worded'
  BY <1>1, RequestStays DEF IInv, TypeOK
<1>2. CASE Serve
  <2>1. PICK c \in Commands, ok \in BOOLEAN, says \in BOOLEAN, auth \in SUBSET Mechs :
           Serving(c, ok, says, auth) /\ Harmless(c)
    BY <1>2, Serves
  <2>2. req' = req /\ MayMark' = MayMark /\ (worded => worded')
    BY <2>1, RequestStays DEF Serving
  <2>3. envelope \subseteq 1 .. Rcpts
    BY DEF IInv, TypeOK
  <2>. QED  BY <2>1, <2>2, <2>3 DEF Serving, Served, Harmless
<1>3. CASE ~Serve
  <2>1. /\ req' = req /\ accepted' = accepted /\ seen' = seen /\ envelope' = envelope
        /\ mailed' = mailed /\ worded' = worded
    BY <1>3, Kinds DEF Dial, Send, ReadingOn, Completing, Unsolicited, HangUp, vars, serverVars, histVars
  <2>. QED  BY <1>1, <2>1
<1>. QED  BY <1>2, <1>3

LEMMA TracesNext ==
    ASSUME IInv, [Next]_vars
    PROVE  Traces'
BY ServerSteps DEF IInv, Traces

LEMMA SMTPWorkNext ==
    ASSUME IInv, [Next]_vars
    PROVE  SMTPWork'
<1>0. TypeOK /\ Placed /\ SMTPWork /\ todo \in Seq(Refs)
  BY DEF IInv, TypeOK
<1>1. CASE Dial
  BY <1>1 DEF Dial, Goto, SMTPWork, Active
<1>2. ASSUME step' = step, legs' = legs, todo' = todo PROVE SMTPWork'
  <2>1. /\ envelope \subseteq envelope' /\ envelope' \subseteq 1 .. Rcpts
        /\ mailed' = mailed \/ mailed' = 1 .. Rcpts
    BY ServerSteps
  <2>2. /\ 1 .. Rcpts - Len(todo) \subseteq envelope => 1 .. Rcpts - Len(todo) \subseteq envelope'
        /\ envelope = 1 .. Rcpts => envelope' = 1 .. Rcpts
        /\ mailed = 1 .. Rcpts => mailed' = 1 .. Rcpts
    BY <2>1
  <2>. QED  BY <1>0, <1>2, <2>2 DEF SMTPWork, Active, Protocol, Task
<1>3. CASE Send \/ ReadingOn \/ Serve \/ Unsolicited \/ HangUp \/ UNCHANGED vars
  BY <1>2, <1>3 DEF Send, ReadingOn, Serve, Unsolicited, HangUp, vars, clientVars, progressVars, outcomeVars
<1>4. ASSUME NEW ok \in BOOLEAN, NEW g \in Gotten, Completing(ok, g) PROVE SMTPWork'
  <2>0. Active /\ Fitting /\ step \in Path(legs[1]) /\ Outcome(ok, g) /\ Heard(ok, g) /\ envelope' = envelope
        /\ mailed' = mailed /\ envelope \subseteq 1 .. Rcpts
    BY <1>0, <1>4, Completes DEF Completing, TypeOK
  <2>1. CASE Stopped("error") \/ Stopped("ok") \/ Handed
    BY <2>1 DEF Stopped, Handed, SMTPWork, Active
  <2>2. CASE Going /\ Protocol = "smtp" /\ Task = "send"
    <3>1. legs' = legs
      BY <2>2 DEF Going, Goes, outcomeVars
    <3>2. CASE Addressed(ok)
      <4>1. CASE step = "mail"
        <5>0. Rcpts \in Nat /\ Rcpts >= 1
          BY BoundsAssumption
        <5>1. todo' = [i \in 1 .. Rcpts |-> [n |-> i, id |-> 0]]
          BY <3>2, <4>1 DEF Addressed
        <5>2. Len(todo') = Rcpts /\ \A i \in 1 .. Rcpts : todo'[i].n = i
          BY <5>0, <5>1
        <5>3. todo' # <<>>
          BY <5>0, <5>2
        <5>4. step' = "rcpt"
          BY <3>2, <5>3 DEF Addressed
        <5>5. \A i \in 1 .. Len(todo') : todo'[i].n = Rcpts - Len(todo') + i
          BY <5>0, <5>2
        <5>6. 1 .. Rcpts - Len(todo') = {}
          BY <5>0, <5>2
        <5>. QED  BY <5>0, <5>2, <5>4, <5>5, <5>6 DEF SMTPWork
      <4>2. CASE step = "rcpt"
        <5>0. Rcpts \in Nat /\ todo # <<>> /\ Len(todo) \in Nat /\ Len(todo) >= 1 /\ Head(todo) = todo[1]
          BY <1>0, <4>2, HeadOf, BoundsAssumption DEF Placed, InLoop
        <5>1. todo' = Tail(todo) /\ Head(todo).n \in envelope
          BY <2>0, <2>2, <3>2, <4>2 DEF Addressed, Heard
        <5>2. /\ Len(todo) <= Rcpts
              /\ \A i \in 1 .. Len(todo) : todo[i].n = Rcpts - Len(todo) + i
              /\ 1 .. Rcpts - Len(todo) \subseteq envelope
          BY <1>0, <2>0, <2>2, <4>2 DEF SMTPWork
        <5>3. Len(todo') = Len(todo) - 1
              /\ \A i \in 1 .. Len(todo) - 1 : todo'[i] = todo[i + 1] /\ i + 1 \in 1 .. Len(todo)
          BY <1>0, <5>0, <5>1, HeadOf
        <5>4. 1 .. Rcpts - Len(todo') \subseteq envelope
          <6>1. Head(todo).n = Rcpts - Len(todo) + 1
            BY <5>0, <5>2
          <6>2. Rcpts - Len(todo) \in Nat /\ Rcpts - Len(todo') = Rcpts - Len(todo) + 1
            <7>1. Len(todo) <= Rcpts
              BY <5>2
            <7>2. Len(todo') = Len(todo) - 1
              BY <5>3
            <7>. QED  BY <5>0, <7>1, <7>2
          <6>3. \A k \in Nat : 1 .. k + 1 = (1 .. k) \union {k + 1}
            OBVIOUS
          <6>4. 1 .. Rcpts - Len(todo') = (1 .. Rcpts - Len(todo)) \union {Rcpts - Len(todo) + 1}
            BY <6>2, <6>3
          <6>. QED  BY <5>1, <5>2, <6>1, <6>4
        <5>5. ASSUME NEW i \in 1 .. Len(todo') PROVE todo'[i].n = Rcpts - Len(todo') + i
          <6>1. Len(todo') = Len(todo) - 1
            BY <5>3
          <6>2. i \in 1 .. Len(todo) - 1
            BY <6>1
          <6>3. todo'[i] = todo[i + 1] /\ i + 1 \in 1 .. Len(todo)
            BY <5>3, <6>2
          <6>4. todo[i + 1].n = Rcpts - Len(todo) + (i + 1)
            BY <5>2, <6>3
          <6>. QED  BY <5>0, <6>1, <6>2, <6>3, <6>4
        <5>6. todo' = <<>> => envelope = 1 .. Rcpts
          <6>1. todo' = <<>> => 1 .. Rcpts - Len(todo') = 1 .. Rcpts
            BY <5>0
          <6>. QED  BY <2>0, <5>4, <6>1
        <5>7. step' = IF todo' = <<>> THEN "data" ELSE "rcpt"
          BY <3>2 DEF Addressed
        <5>8. Len(todo') <= Rcpts
          BY <5>0, <5>2, <5>3
        <5>. QED  BY <2>0, <5>4, <5>5, <5>6, <5>7, <5>8 DEF SMTPWork
      <4>. QED  BY <3>2, <4>1, <4>2 DEF Addressed
    <3>3. CASE ~Addressed(ok)
      <4>1. Moved(ok)
        BY <2>0, <2>2, <3>3 DEF Outcome, Going, Goes, Ended, Left, Close, Goto, Numbered, Chosen, AskedFor, Searched,
                    FetchedOne, StoredOne, Skipped, KeptOne, Fitting, Path, Protocol, Task
      <4>2. Moves /\ (ok \/ step \in {"ehlo"})
        BY <2>0, <2>2, <4>1 DEF Moved, Path, Protocol, Task
      <4>. QED  BY <1>0, <2>0, <2>2, <4>2 DEF Moves, MovesSMTP, SMTPWork, Heard
    <3>. QED  BY <3>2, <3>3
  <2>3. CASE Going /\ ~(Protocol = "smtp" /\ Task = "send")
    BY <2>3 DEF Going, Goes, outcomeVars, SMTPWork, Protocol, Task
  <2>. QED  BY <1>4, <2>1, <2>2, <2>3, Completes
<1>. QED  BY <1>1, <1>3, <1>4, Kinds

-----------------------------------------------------------------------------
(* An IMAP session *)

LEMMA NsIs ==
    ASSUME NEW X, NEW s \in Seq(X), s # <<>>
    PROVE  Ns(s) = {Head(s).n} \union Ns(Tail(s)) /\ Head(s).n \in Ns(s) /\ Ns(Tail(s)) \subseteq Ns(s)
<1>1. /\ Head(s) = s[1] /\ Len(s) >= 1 /\ Len(s) \in Nat /\ Len(Tail(s)) = Len(s) - 1
      /\ \A i \in 1 .. Len(s) - 1 : Tail(s)[i] = s[i + 1] /\ i + 1 \in 1 .. Len(s)
  BY HeadOf
<1>2. ASSUME NEW i \in 1 .. Len(s) PROVE s[i].n \in {Head(s).n} \union Ns(Tail(s))
  <2>1. CASE i = 1
    BY <1>1, <2>1
  <2>2. CASE i # 1
    <3>1. i - 1 \in 1 .. Len(s) - 1 /\ (i - 1) + 1 = i
      BY <1>1, <2>2
    <3>2. Tail(s)[i - 1] = s[i]
      BY <1>1, <3>1
    <3>. QED  BY <1>1, <3>1, <3>2 DEF Ns
  <2>. QED  BY <2>1, <2>2
<1>3. ASSUME NEW i \in 1 .. Len(Tail(s)) PROVE Tail(s)[i].n \in Ns(s)
  <2>1. Tail(s)[i] = s[i + 1] /\ i + 1 \in 1 .. Len(s)
    BY <1>1
  <2>. QED  BY <2>1 DEF Ns
<1>4. Head(s).n \in Ns(s)
  BY <1>1 DEF Ns
<1>. QED  BY <1>2, <1>3, <1>4 DEF Ns

LEMMA NsMore ==
    ASSUME NEW X, NEW s \in Seq(X), NEW e
    PROVE  Ns(Append(s, e)) = Ns(s) \union {e.n}
<1>1. Len(s) \in Nat /\ Len(Append(s, e)) = Len(s) + 1 /\ Append(s, e)[Len(s) + 1] = e
      /\ \A i \in 1 .. Len(s) : Append(s, e)[i] = s[i]
  BY LenProperties
<1>2. ASSUME NEW i \in 1 .. Len(s) + 1 PROVE Append(s, e)[i].n \in Ns(s) \union {e.n}
  BY <1>1 DEF Ns
<1>3. ASSUME NEW i \in 1 .. Len(s) PROVE s[i].n \in Ns(Append(s, e))
  <2>1. i \in 1 .. Len(Append(s, e)) /\ Append(s, e)[i] = s[i]
    BY <1>1
  <2>. QED  BY <2>1 DEF Ns
<1>4. e.n \in Ns(Append(s, e))
  <2>1. Len(s) + 1 \in 1 .. Len(Append(s, e))
    BY <1>1
  <2>. QED  BY <1>1, <2>1 DEF Ns
<1>. QED  BY <1>1, <1>2, <1>3, <1>4 DEF Ns

LEMMA NsNone == Ns(<<>>) = {}
BY DEF Ns

LEMMA IMAPWorkNext ==
    ASSUME IInv, [Next]_vars
    PROVE  IMAPWork'
<1>0. TypeOK /\ Placed /\ IMAPWork /\ todo \in Seq(Refs) /\ shown \in Seq(Shows)
  BY DEF IInv, TypeOK, Shows
<1>1. CASE Dial
  BY <1>1 DEF Dial, Goto, IMAPWork, Active
<1>2. ASSUME step' = step, legs' = legs, todo' = todo, shown' = shown PROVE IMAPWork'
  <2>1. seen \subseteq seen' /\ req' = req /\ (worded => worded')
    BY ServerSteps
  <2>2. ToShow' = ToShow /\ Named' = Named /\ Goal' = Goal
    BY <1>2, <2>1, RequestStays DEF Goal, Task
  <2>. QED  BY <1>0, <1>2, <2>1, <2>2 DEF IMAPWork, Active, Protocol, Task
<1>3. CASE Send \/ ReadingOn \/ Serve \/ Unsolicited \/ HangUp \/ UNCHANGED vars
  BY <1>2, <1>3 DEF Send, ReadingOn, Serve, Unsolicited, HangUp, vars, clientVars, progressVars, outcomeVars
<1>4. ASSUME NEW ok \in BOOLEAN, NEW g \in Gotten, Completing(ok, g) PROVE IMAPWork'
  <2>0. /\ Active /\ Fitting /\ step \in Path(legs[1]) /\ Outcome(ok, g) /\ Heard(ok, g)
        /\ req' = req /\ seen' = seen /\ worded' = worded
    BY <1>4, Completes DEF Completing
  <2>1. CASE Stopped("error") \/ Stopped("ok") \/ Handed
    BY <2>1 DEF Stopped, Handed, IMAPWork, Active
  <2>2. CASE Going /\ Protocol = "imap"
    <3>1. legs' = legs /\ Task' = Task
      BY <2>2 DEF Going, Goes, outcomeVars, Task
    <3>2. ToShow' = ToShow /\ Named' = Named /\ Goal' = Goal
      BY <2>0, <3>1, RequestStays DEF Goal
    <3>3. ToShow \subseteq Numbers /\ Named \subseteq Numbers /\ Goal \subseteq Numbers /\ 0 \notin Numbers
      BY <1>0, Showable
    <3>4. req.protocol = "imap"
      BY <2>0, <2>2 DEF Fitting
    <3>. USE <3>1, <3>2
    <3>5. CASE Moved(ok)
      <4>1. step' \notin {"fetch", "store"} /\ (step' = "logout" => Task = "login")
        BY <2>2, <3>5 DEF Moved, Moves, MovesIMAP
      <4>. QED  BY <4>1 DEF IMAPWork
    <3>6. CASE AskedFor(ok)
      <4>1. todo' = Asked /\ shown' = shown /\ Task \in {"list", "mark"} /\ (Task = "list" => req.uids # <<>>)
            /\ step' = IF Asked = <<>> THEN "logout" ELSE IF Task = "mark" THEN "store" ELSE "fetch"
        BY <2>2, <3>6 DEF AskedFor, Looping, Farewell
      <4>2. /\ \A i \in 1 .. Len(Asked) : IsRef(Asked[i])
            /\ Ns(Asked) \ {0} = Named
        BY <1>0, AskedIs
      <4>3. Task = "list" => ToShow = Named
        BY <3>4, <4>1 DEF ToShow, Named
      <4>4. shown = <<>>
        BY <2>2, <3>6 DEF IInv, Unshown, AskedFor
      <4>5. Ns(shown) = {} /\ (Asked = <<>> => Ns(Asked) = {})
        BY <4>4, NsNone
      <4>6. Goal = Named
        BY <4>1, <4>3 DEF Goal
      <4>. QED  BY <2>0, <4>1, <4>2, <4>3, <4>5, <4>6 DEF IMAPWork, IsRef
    <3>7. CASE Searched(ok)
      <4>1. todo' = Newest(Found, req.limit) /\ shown' = shown /\ Task = "list"
            /\ step' = IF Newest(Found, req.limit) = <<>> THEN "logout" ELSE "fetch"
        BY <2>2, <3>7 DEF Searched, Looping, Farewell
      <4>2. Found \in Seq(Refs) /\ (\A i \in 1 .. Len(Found) : IsRef(Found[i])) /\ req.limit \in Nat
        BY <1>0, FoundIs, TheRequest
      <4>3. /\ Newest(Found, req.limit) \in Seq(Refs)
            /\ Len(Newest(Found, req.limit)) = Len(Found) - Cut(Found, req.limit)
            /\ \A j \in 1 .. Len(Found) - Cut(Found, req.limit) :
                  /\ Newest(Found, req.limit)[j] = Found[Cut(Found, req.limit) + j]
                  /\ Cut(Found, req.limit) + j \in 1 .. Len(Found)
        BY <4>2, NewestIs
      <4>4. \A i \in 1 .. Len(todo') : IsRef(todo'[i])
        BY <4>1, <4>2, <4>3
      <4>5. DOMAIN Newest(Found, req.limit) = 1 .. Len(Newest(Found, req.limit))
        BY <4>3, LenProperties
      <4>6. Ns(todo') = ToShow
        <5>1. req.uids = <<>>
          BY <1>0, <3>7 DEF Placed, Searched
        <5>. QED  BY <4>1, <4>5, <5>1 DEF ToShow, Ns
      <4>7. shown = <<>>
        BY <2>2, <3>7 DEF IInv, Unshown, Searched
      <4>8. Ns(shown) = {} /\ (todo' = <<>> => Ns(todo') = {})
        BY <4>7, NsNone
      <4>9. Goal = ToShow
        BY <4>1 DEF Goal
      <4>. QED  BY <3>3, <4>1, <4>4, <4>6, <4>8, <4>9 DEF IMAPWork, IsRef
    <3>8. CASE FetchedOne(ok, g)
      <4>1. Task = "list" /\ step = "fetch" /\ g.ref.n = Head(todo).n /\ g.ref.n # 0
        BY <2>0, <2>2, <3>8 DEF FetchedOne, Heard
      <4>2. todo # <<>> /\ Goal = ToShow
        BY <1>0, <4>1 DEF Placed, InLoop, Goal
      <4>3. Ns(shown') = Ns(shown) \union {Head(todo).n}
        BY <1>0, <3>8, <4>1, NsMore DEF FetchedOne, Shown
      <4>4. Ns(todo) = {Head(todo).n} \union Ns(Tail(todo)) /\ Ns(Tail(todo)) \subseteq Ns(todo)
        BY <1>0, <4>2, NsIs
      <4>5. /\ \A i \in 1 .. Len(todo) : IsRef(todo[i])
            /\ Ns(todo) \subseteq Goal \union {0}
            /\ Ns(shown) \union (Ns(todo) \ {0}) = ToShow
        BY <1>0, <2>0, <2>2, <4>1 DEF IMAPWork
      <4>6. Ns(shown') \union (Ns(Tail(todo)) \ {0}) = ToShow
        BY <4>1, <4>3, <4>4, <4>5
      <4>7. CASE req.markSeen
        <5>1. todo' = todo /\ step' = "store"
          BY <3>8, <4>7 DEF FetchedOne
        <5>. QED  BY <4>1, <4>5, <4>6, <5>1 DEF IMAPWork, IsRef
      <4>8. CASE ~req.markSeen
        <5>1. todo' = Tail(todo) /\ step' = IF Tail(todo) = <<>> THEN "logout" ELSE "fetch"
          BY <2>2, <3>8, <4>1, <4>8 DEF FetchedOne, Looping, Farewell
        <5>2. \A i \in 1 .. Len(Tail(todo)) : IsRef(Tail(todo)[i])
          BY <1>0, <4>2, <4>5, HeadOf
        <5>3. Tail(todo) = <<>> => Ns(Tail(todo)) = {}
          BY NsNone
        <5>. QED  BY <4>1, <4>4, <4>5, <4>6, <5>1, <5>2, <5>3 DEF IMAPWork, IsRef
      <4>. QED  BY <4>7, <4>8
    <3>9. CASE StoredOne(ok)
      <4>1. Task \in {"list", "mark"} /\ step = "store" /\ todo # <<>> /\ shown' = shown /\ todo' = Tail(todo)
        BY <1>0, <3>9 DEF StoredOne, Placed, InLoop, Looping
      <4>2. step' = IF Tail(todo) = <<>> THEN "logout" ELSE IF Task = "mark" THEN "store" ELSE "fetch"
        BY <2>2, <3>9 DEF StoredOne, Looping, Farewell
      <4>3. Ns(todo) = {Head(todo).n} \union Ns(Tail(todo)) /\ Ns(Tail(todo)) \subseteq Ns(todo)
        BY <1>0, <4>1, NsIs
      <4>4. /\ \A i \in 1 .. Len(todo) : IsRef(todo[i])
            /\ Ns(todo) \subseteq Goal \union {0}
        BY <1>0, <2>0, <2>2, <4>1 DEF IMAPWork
      <4>5. \A i \in 1 .. Len(Tail(todo)) : IsRef(Tail(todo)[i])
        BY <1>0, <4>1, <4>4, HeadOf
      <4>6. Tail(todo) = <<>> => Ns(Tail(todo)) = {}
        BY NsNone
      <4>7. Task = "list" => Ns(shown) \union (Ns(Tail(todo)) \ {0}) = ToShow
        BY <1>0, <2>0, <2>2, <4>1 DEF IMAPWork
      <4>8. Task = "mark" /\ ~worded => Named \subseteq seen \union Ns(Tail(todo))
        <5>1. Task = "mark" /\ ~worded => Head(todo).n \in seen \union {0} /\ Named \subseteq seen \union Ns(todo)
          BY <1>0, <2>0, <2>2, <3>9, <4>1 DEF IMAPWork, StoredOne, Heard
        <5>. QED  BY <3>3, <4>3, <5>1
      <4>. QED  BY <2>0, <4>1, <4>2, <4>3, <4>4, <4>5, <4>6, <4>7, <4>8 DEF IMAPWork, IsRef
    <3>. QED  BY <2>0, <2>2, <3>5, <3>6, <3>7, <3>8, <3>9 DEF Outcome, Going, Goes, Ended, Left, Close, Goto, Numbered,
                 Chosen, Skipped, KeptOne, Addressed
  <2>3. CASE Going /\ Protocol # "imap"
    BY <2>3 DEF Going, Goes, outcomeVars, IMAPWork, Protocol
  <2>. QED  BY <1>4, <2>1, <2>2, <2>3, Completes
<1>. QED  BY <1>1, <1>3, <1>4, Kinds

\* What a command or a line on its way will be after the step.
CommandFitsThen(c) ==
    /\ c.name \in Path(legs'[1])
    /\ c.tag <= tag'
    /\ c.tag = tag' /\ Tagged' => c.name \in Own'
    /\ c.tag = tag' /\ Tagged' /\ step' \in {"fetch", "store"} => c.ref = Head(todo')
    /\ c.name = "fetch" => step' = "fetch" /\ wait' # "no" /\ c.tag = tag'
LineFitsThen(l) ==
    /\ l.tag <= tag'
    /\ l.says => worded'
    /\ l.kind = "done" /\ l.ok /\ l.tag = tag' /\ Tagged' => Meant'
    /\ l.kind = "done" /\ l.tag = tag' /\ step' = "fetch" /\ wait' # "no" => queue' = <<>>
    /\ l.kind = "data" =>
          step' = "fetch" /\ wait' # "no" /\ l.ref = Head(todo') /\ l.ref.n # 0 /\ queue' = <<>>
    /\ l.kind = "fetch" => l.ref.n = 0 /\ (~intruded' => l.ref.id = 0)

LEMMA ChannelThen ==
    ASSUME Active' /\ Protocol' = "imap" =>
              /\ \A i \in 1 .. Len(queue') : CommandFitsThen(queue'[i])
              /\ \A i \in 1 .. Len(queue') : queue'[i].name = "fetch" => i = Len(queue')
              /\ \A i \in 1 .. Len(wire') : LineFitsThen(wire'[i])
              /\ \A i \in 1 .. Len(wire') : \A j \in 1 .. i :
                    wire'[i].kind = "data" /\ wire'[j].kind = "done" => wire'[j].tag < tag'
    PROVE  IMAPChannel'
BY DEF IMAPChannel, CommandFits, LineFits, CommandFitsThen, LineFitsThen

\* The channel of an IMAP session, with the types.
LEMMA TheChannel ==
    ASSUME IInv
    PROVE  /\ TypeOK /\ Placed /\ tag \in Nat
           /\ queue \in Seq(Commands) /\ wire \in Seq(Lines) /\ Len(queue) \in Nat /\ Len(wire) \in Nat
           /\ \A i \in 1 .. Len(queue) : queue[i] \in Commands /\ queue[i].tag \in Nat
           /\ \A i \in 1 .. Len(wire) : wire[i] \in Lines /\ wire[i].tag \in Nat
           /\ Active /\ Protocol = "imap" =>
                 /\ \A i \in 1 .. Len(queue) : CommandFits(queue[i])
                 /\ \A i \in 1 .. Len(queue) : queue[i].name = "fetch" => i = Len(queue)
                 /\ \A i \in 1 .. Len(wire) : LineFits(wire[i])
                 /\ \A i \in 1 .. Len(wire) : \A j \in 1 .. i :
                       wire[i].kind = "data" /\ wire[j].kind = "done" => wire[j].tag < tag
<1>1. /\ TypeOK /\ Placed /\ IMAPChannel /\ tag \in Nat /\ queue \in Seq(Commands) /\ wire \in Seq(Lines)
  BY DEF IInv, TypeOK
<1>2. Len(queue) \in Nat /\ Len(wire) \in Nat
      /\ (\A i \in 1 .. Len(queue) : queue[i] \in Commands) /\ (\A i \in 1 .. Len(wire) : wire[i] \in Lines)
  BY <1>1, LenProperties, ElementOfSeq
<1>3. (\A c \in Commands : c.tag \in Nat) /\ (\A l \in Lines : l.tag \in Nat)
  BY DEF Commands, Lines
<1>. QED  BY <1>1, <1>2, <1>3 DEF IMAPChannel

LEMMA ChannelDial ==
    ASSUME IInv, Dial
    PROVE  IMAPChannel'
<1>. SUFFICES ASSUME Active', Protocol' = "imap"
              PROVE  /\ \A i \in 1 .. Len(queue') : CommandFitsThen(queue'[i])
                     /\ \A i \in 1 .. Len(queue') : queue'[i].name = "fetch" => i = Len(queue')
                     /\ \A i \in 1 .. Len(wire') : LineFitsThen(wire'[i])
                     /\ \A i \in 1 .. Len(wire') : \A j \in 1 .. i :
                           wire'[i].kind = "data" /\ wire'[j].kind = "done" => wire'[j].tag < tag'
  BY ChannelThen
<1>1. tag' = 0 /\ step' = "greeting" /\ queue' = <<Greeting>> /\ wire' = <<>>
  BY DEF Dial, Active, Goto
<1>2. "greeting" \in Path(legs'[1])
  <2>1. Placed'
    BY PlacedNext DEF Next, ClientNext
  <2>. QED  BY <1>1, <2>1 DEF Placed, Active
<1>3. CommandFitsThen(Greeting)
  BY <1>1, <1>2 DEF CommandFitsThen, Greeting, Own
<1>. QED  BY <1>1, <1>3

LEMMA ChannelSend ==
    ASSUME IInv, Send
    PROVE  IMAPChannel'
<1>0. /\ Active /\ wait = "no" /\ wait' = "line" /\ step' = step /\ legs' = legs /\ todo' = todo /\ wire' = wire
      /\ worded' = worded /\ intruded' = intruded /\ accepted' = accepted /\ seen' = seen
      /\ Protocol' = Protocol
  BY DEF Send, Active, progressVars, outcomeVars, serverVars, histVars, Protocol
<1>. SUFFICES ASSUME Protocol = "imap"
              PROVE  /\ \A i \in 1 .. Len(queue') : CommandFitsThen(queue'[i])
                     /\ \A i \in 1 .. Len(queue') : queue'[i].name = "fetch" => i = Len(queue')
                     /\ \A i \in 1 .. Len(wire') : LineFitsThen(wire'[i])
                     /\ \A i \in 1 .. Len(wire') : \A j \in 1 .. i :
                           wire'[i].kind = "data" /\ wire'[j].kind = "done" => wire'[j].tag < tag'
  BY <1>0, ChannelThen
<1>1. tag' = IF step \in {"token", "user64"} THEN tag ELSE tag + 1
  BY DEF Send
<1>2. tag \in Nat /\ tag' \in Nat /\ tag <= tag'
  BY <1>1, TheChannel
<1>. DEFINE c == [name |-> step, tag |-> tag', ref |-> IF todo = <<>> THEN NoRef ELSE Head(todo), peek |-> ~req.markSeen]
<1>3. queue' = IF conn # "open" THEN queue ELSE Append(queue, c)
  BY DEF Send
<1>4. CommandFitsThen(c)
  <2>1. step \in Path(legs[1]) /\ (step \in InLoop => todo # <<>>)
    BY <1>0, Waiting DEF IInv, Placed
  <2>. QED  BY <1>0, <1>2, <2>1 DEF CommandFitsThen, Own, InLoop
<1>5. ASSUME NEW i \in 1 .. Len(queue) PROVE CommandFitsThen(queue[i]) /\ queue[i].name # "fetch"
  <2>1. CommandFits(queue[i]) /\ queue[i].tag \in Nat
    BY <1>0, TheChannel
  <2>2. CASE step \in {"token", "user64"}
    BY <1>0, <1>1, <1>2, <2>1, <2>2 DEF CommandFits, CommandFitsThen, Own, Tagged
  <2>3. CASE step \notin {"token", "user64"}
    <3>1. tag' = tag + 1 /\ queue[i].tag <= tag
      BY <1>1, <2>1, <2>3 DEF CommandFits
    <3>2. queue[i].tag # tag' /\ queue[i].tag <= tag'
      BY <1>2, <2>1, <3>1
    <3>. QED  BY <1>0, <2>1, <3>2 DEF CommandFits, CommandFitsThen
  <2>. QED  BY <2>2, <2>3
<1>6. ASSUME NEW i \in 1 .. Len(wire) PROVE LineFitsThen(wire[i]) /\ wire[i].kind # "data"
  <2>1. LineFits(wire[i]) /\ wire[i].tag \in Nat
    BY <1>0, TheChannel
  <2>2. CASE step \in {"token", "user64"}
    BY <1>0, <1>1, <1>2, <2>1, <2>2 DEF LineFits, LineFitsThen, Tagged, Meant
  <2>3. CASE step \notin {"token", "user64"}
    <3>1. tag' = tag + 1 /\ wire[i].tag <= tag
      BY <1>1, <2>1, <2>3 DEF LineFits
    <3>2. wire[i].tag # tag' /\ wire[i].tag <= tag'
      BY <1>2, <2>1, <3>1
    <3>. QED  BY <1>0, <2>1, <3>2 DEF LineFits, LineFitsThen
  <2>. QED  BY <2>2, <2>3
<1>7. queue \in Seq(Commands) /\ Len(queue) \in Nat
  BY TheChannel
<1>. HIDE DEF c
<1>8. \A i \in 1 .. Len(queue') : CommandFitsThen(queue'[i]) /\ (queue'[i].name = "fetch" => i = Len(queue'))
  BY <1>3, <1>4, <1>5, <1>7
<1>. QED  BY <1>0, <1>6, <1>8

LEMMA ChannelReads ==
    ASSUME IInv, ReadingOn
    PROVE  IMAPChannel'
<1>0. /\ Active /\ wait # "no" /\ step' = step /\ legs' = legs /\ todo' = todo /\ queue' = queue /\ tag' = tag
      /\ wire # <<>> /\ wire' = Tail(wire) /\ wait' \in {"line", "body"}
      /\ worded' = worded /\ intruded' = intruded /\ accepted' = accepted /\ seen' = seen
      /\ Protocol' = Protocol
  BY Waiting DEF ReadingOn, Protocol
<1>. SUFFICES ASSUME Protocol = "imap"
              PROVE  /\ \A i \in 1 .. Len(queue') : CommandFitsThen(queue'[i])
                     /\ \A i \in 1 .. Len(queue') : queue'[i].name = "fetch" => i = Len(queue')
                     /\ \A i \in 1 .. Len(wire') : LineFitsThen(wire'[i])
                     /\ \A i \in 1 .. Len(wire') : \A j \in 1 .. i :
                           wire'[i].kind = "data" /\ wire'[j].kind = "done" => wire'[j].tag < tag'
  BY <1>0, ChannelThen
<1>1. ASSUME NEW i \in 1 .. Len(queue) PROVE CommandFitsThen(queue[i]) /\ (queue[i].name = "fetch" => i = Len(queue))
  <2>1. CommandFits(queue[i]) /\ (queue[i].name = "fetch" => i = Len(queue))
    BY <1>0, TheChannel
  <2>. QED  BY <1>0, <2>1 DEF CommandFits, CommandFitsThen, Tagged, Own
<1>2. ASSUME NEW i \in 1 .. Len(wire) PROVE LineFitsThen(wire[i])
  <2>1. LineFits(wire[i])
    BY <1>0, TheChannel
  <2>. QED  BY <1>0, <2>1 DEF LineFits, LineFitsThen, Tagged, Meant
<1>3. Len(wire') = Len(wire) - 1 /\ Len(wire) \in Nat
      /\ \A i \in 1 .. Len(wire) - 1 : wire'[i] = wire[i + 1] /\ i + 1 \in 1 .. Len(wire)
  BY <1>0, TheChannel, HeadOf
<1>4. ASSUME NEW i \in 1 .. Len(wire'), NEW j \in 1 .. i, wire'[i].kind = "data", wire'[j].kind = "done"
      PROVE  wire'[j].tag < tag'
  <2>1. /\ wire'[i] = wire[i + 1] /\ i + 1 \in 1 .. Len(wire)
        /\ wire'[j] = wire[j + 1] /\ j + 1 \in 1 .. i + 1
    BY <1>3
  <2>. QED  BY <1>0, <1>4, <2>1, TheChannel
<1>5. \A i \in 1 .. Len(wire') : LineFitsThen(wire'[i])
  BY <1>2, <1>3
<1>. QED  BY <1>0, <1>1, <1>4, <1>5

LEMMA ChannelCompletes ==
    ASSUME IInv, NEW ok \in BOOLEAN, NEW g \in Gotten, Completing(ok, g)
    PROVE  IMAPChannel'
<1>0. /\ Active /\ wait # "no" /\ Fitting /\ Outcome(ok, g) /\ Heard(ok, g) /\ queue' = queue /\ tag' = tag
      /\ wire' = wire \/ (wire # <<>> /\ wire' = Tail(wire))
      /\ worded' = worded /\ intruded' = intruded /\ accepted' = accepted /\ seen' = seen
  BY Completes DEF Completing, Heard
<1>1. CASE Stopped("error") \/ Stopped("ok") \/ Handed
  BY <1>1 DEF Stopped, Handed, Active, IMAPChannel
<1>2. CASE Going /\ Protocol = "imap"
  <2>1. /\ legs' = legs /\ wait' = "no" /\ Protocol' = Protocol
        /\ (step' = "token" => step \in {"plain", "user64"}) /\ (step' = "user64" => step = "authlogin")
        /\ (step = "fetch" => ok)
    <3>0. legs' = legs /\ wait' = "no" /\ Protocol' = Protocol
      BY <1>2 DEF Going, Goes, outcomeVars, Protocol
    <3>1. CASE Moved(ok)
      BY <1>2, <3>0, <3>1 DEF Moved, Moves, MovesIMAP
    <3>2. CASE AskedFor(ok) \/ Searched(ok) \/ FetchedOne(ok, g) \/ StoredOne(ok)
      <4>1. step' \in {"logout", "store", "fetch"} /\ (step = "fetch" => ok)
        BY <1>2, <3>2 DEF AskedFor, Searched, FetchedOne, StoredOne, Looping, Farewell
      <4>. QED  BY <3>0, <4>1
    <3>. QED  BY <1>0, <1>2, <3>1, <3>2, GoingHow
  <2>2. ASSUME NEW i \in 1 .. Len(queue) PROVE CommandFitsThen(queue[i]) /\ (queue[i].name = "fetch" => i = Len(queue))
    <3>1. CommandFits(queue[i])
      BY <1>0, <1>2, TheChannel
    <3>2. queue[i].name # "fetch"
      <4>1. queue[i].name = "fetch" => step = "fetch"
        BY <3>1 DEF CommandFits
      <4>2. step = "fetch" => queue = <<>>
        BY <1>0, <1>2, <2>1 DEF Heard
      <4>. QED  BY <4>1, <4>2
    <3>. QED  BY <1>0, <2>1, <3>1, <3>2 DEF CommandFits, CommandFitsThen, Tagged, Own
  <2>3. ASSUME NEW i \in 1 .. Len(wire) PROVE wire[i].kind # "data" => LineFitsThen(wire[i])
    <3>1. LineFits(wire[i])
      BY <1>0, <1>2, TheChannel
    <3>. QED  BY <1>0, <2>1, <3>1 DEF LineFits, LineFitsThen, Tagged, Meant, Continued
  <2>4. ASSUME NEW i \in 1 .. Len(wire') PROVE \E j \in 1 .. Len(wire) : wire'[i] = wire[j]
    <3>1. CASE wire' = wire
      BY <3>1
    <3>2. CASE wire # <<>> /\ wire' = Tail(wire)
      <4>1. Len(wire') = Len(wire) - 1 /\ Len(wire) \in Nat
            /\ \A k \in 1 .. Len(wire) - 1 : wire'[k] = wire[k + 1] /\ k + 1 \in 1 .. Len(wire)
        BY <3>2, TheChannel, HeadOf
      <4>. QED  BY <4>1
    <3>. QED  BY <1>0, <3>1, <3>2
  <2>5. ASSUME NEW i \in 1 .. Len(wire') PROVE wire'[i].kind # "data"
    <3>1. CASE step = "fetch"
      BY <1>0, <1>2, <2>1, <3>1 DEF Heard
    <3>2. CASE step # "fetch"
      <4>1. PICK j \in 1 .. Len(wire) : wire'[i] = wire[j]
        BY <2>4
      <4>2. LineFits(wire[j])
        BY <1>0, <1>2, TheChannel
      <4>. QED  BY <3>2, <4>1, <4>2 DEF LineFits
    <3>. QED  BY <3>1, <3>2
  <2>6. \A i \in 1 .. Len(wire') : LineFitsThen(wire'[i])
    BY <2>3, <2>4, <2>5
  <2>7. \A i \in 1 .. Len(queue') : CommandFitsThen(queue'[i]) /\ (queue'[i].name = "fetch" => i = Len(queue'))
    BY <1>0, <2>2
  <2>. QED  BY <2>5, <2>6, <2>7, ChannelThen
<1>3. CASE Going /\ Protocol # "imap"
  BY <1>3 DEF Going, Goes, outcomeVars, IMAPChannel, Protocol
<1>. QED  BY <1>1, <1>2, <1>3, Completes

\* What an answer means when it is given.
LEMMA AnswerMeans ==
    ASSUME IInv, Active, Protocol = "imap", NEW c \in Commands, NEW ok \in BOOLEAN, NEW says \in BOOLEAN,
           NEW auth \in SUBSET Mechs, Serving(c, ok, says, auth)
    PROVE  /\ Done(c, ok, says).tag <= tag
           /\ says => worded'
           /\ c.name \notin Multi
           /\ c.name \notin Continued /\ ok /\ c.tag = tag /\ Tagged => Meant'
           /\ c.tag = tag /\ step = "fetch" /\ wait # "no" => queue' = <<>>
           /\ c.name = "fetch" => step = "fetch" /\ wait # "no" /\ c.ref = Head(todo) /\ queue' = <<>>
<1>0. /\ queue # <<>> /\ c = Head(queue) /\ queue' = Tail(queue) /\ step' = step /\ wait' = wait /\ todo' = todo
      /\ worded' = (worded \/ says)
  BY DEF Serving
<1>1. c = queue[1] /\ Len(queue) \in Nat /\ Len(queue) >= 1 /\ CommandFits(c) /\ (c.name = "fetch" => 1 = Len(queue))
  <2>1. queue \in Seq(Commands)
    BY TheChannel
  <2>2. c = queue[1] /\ Len(queue) \in Nat /\ Len(queue) >= 1
    BY <1>0, <2>1, HeadOf
  <2>3. 1 \in 1 .. Len(queue)
    BY <2>2
  <2>4. CommandFits(queue[1]) /\ (queue[1].name = "fetch" => 1 = Len(queue))
    BY <2>3, TheChannel
  <2>. QED  BY <2>2, <2>4
<1>2. c.name \in Path(legs[1]) /\ Fitting
  BY <1>1, Waiting DEF CommandFits
<1>3. c.name \notin Multi
  BY <1>2 DEF Path, Protocol, Multi
<1>4. c.name = "fetch" => step = "fetch" /\ wait # "no" /\ c.ref = Head(todo) /\ queue' = <<>>
  <2>1. c.name = "fetch" => queue' = <<>>
    <3>1. c.name = "fetch" => Len(queue) = 1
      BY <1>1
    <3>2. queue \in Seq(Commands)
      BY TheChannel
    <3>3. Len(queue) = 1 => Len(Tail(queue)) = 0 /\ Tail(queue) \in Seq(Commands)
      BY <1>0, <3>2, HeadOf
    <3>. QED  BY <1>0, <3>1, <3>3, EmptySeq
  <2>. QED  BY <1>1, <2>1 DEF CommandFits, Tagged
<1>5. c.tag = tag /\ Tagged => c.name \in Own
  BY <1>1 DEF CommandFits
<1>6. c.tag = tag /\ step = "fetch" /\ wait # "no" => queue' = <<>>
  <2>1. c.tag = tag /\ step = "fetch" /\ wait # "no" => c.name = "fetch"
    BY <1>5 DEF Own, Tagged
  <2>. QED  BY <1>4, <2>1
<1>7. ASSUME c.name \notin Continued, ok, c.tag = tag, Tagged PROVE Meant'
  <2>1. c.name \in Own /\ c.name \notin Continued
    BY <1>5, <1>7
  <2>2. step \notin Continued /\ c.name = step
    BY <2>1 DEF Own, Continued
  <2>3. Served(c)
    BY <1>7 DEF Serving
  <2>4. step \in {"token", "login"} => "imap" \in accepted'
    BY <2>2, <2>3 DEF Served, Logins
  <2>5. step = "store" => Head(todo).n \in seen' \union {0}
    BY <1>1, <1>7, <2>2, <2>3 DEF Served, CommandFits
  <2>. QED  BY <1>0, <2>2, <2>4, <2>5 DEF Meant
<1>. QED  BY <1>0, <1>1, <1>3, <1>4, <1>6, <1>7 DEF CommandFits, Done

LEMMA ChannelServe ==
    ASSUME IInv, Serve
    PROVE  IMAPChannel'
<1>1. PICK c \in Commands, ok \in BOOLEAN, says \in BOOLEAN, auth \in SUBSET Mechs :
         Serving(c, ok, says, auth) /\ Harmless(c)
  BY Serves
<1>0. /\ queue # <<>> /\ queue' = Tail(queue) /\ step' = step /\ wait' = wait /\ todo' = todo /\ tag' = tag
      /\ legs' = legs /\ intruded' = intruded /\ Protocol' = Protocol /\ (worded => worded')
      /\ wire' = IF conn = "open" THEN wire \o Answer(c, ok, says, auth) ELSE wire
  BY <1>1 DEF Serving, Protocol
<1>. SUFFICES ASSUME Active, Protocol = "imap"
              PROVE  /\ \A i \in 1 .. Len(queue') : CommandFitsThen(queue'[i])
                     /\ \A i \in 1 .. Len(queue') : queue'[i].name = "fetch" => i = Len(queue')
                     /\ \A i \in 1 .. Len(wire') : LineFitsThen(wire'[i])
                     /\ \A i \in 1 .. Len(wire') : \A j \in 1 .. i :
                           wire'[i].kind = "data" /\ wire'[j].kind = "done" => wire'[j].tag < tag'
  BY <1>0, ChannelThen DEF Active
<1>. DEFINE a == Answer(c, ok, says, auth)
<1>2. /\ Len(queue) \in Nat /\ Len(queue') = Len(queue) - 1
      /\ \A i \in 1 .. Len(queue) - 1 : queue'[i] = queue[i + 1] /\ i + 1 \in 1 .. Len(queue)
  BY <1>0, TheChannel, HeadOf
<1>3. ASSUME NEW i \in 1 .. Len(queue) PROVE CommandFitsThen(queue[i]) /\ (queue[i].name = "fetch" => i = Len(queue))
  <2>1. CommandFits(queue[i]) /\ (queue[i].name = "fetch" => i = Len(queue))
    BY TheChannel
  <2>. QED  BY <1>0, <2>1 DEF CommandFits, CommandFitsThen, Tagged, Own
<1>4. \A i \in 1 .. Len(queue') : CommandFitsThen(queue'[i]) /\ (queue'[i].name = "fetch" => i = Len(queue'))
  BY <1>2, <1>3
<1>5. ASSUME NEW i \in 1 .. Len(wire)
      PROVE  /\ LineFitsThen(wire[i]) /\ wire[i].kind # "data"
             /\ wire[i].kind = "done" /\ step = "fetch" /\ wait # "no" => wire[i].tag < tag
  <2>1. LineFits(wire[i]) /\ wire[i].tag \in Nat /\ tag \in Nat
    BY TheChannel
  <2>2. accepted \subseteq accepted' /\ seen \subseteq seen'
    BY ServerSteps DEF Next, ServerNext
  <2>3. Meant => Meant'
    BY <1>0, <2>2 DEF Meant
  <2>4. LineFitsThen(wire[i])
    BY <1>0, <2>1, <2>3 DEF LineFits, LineFitsThen, Tagged
  <2>. QED  BY <1>0, <2>1, <2>4 DEF LineFits
<1>6. a \in Seq(Lines) /\ Len(a) \in Nat
  BY AnswerType, LenProperties
<1>7. ASSUME NEW k \in 1 .. Len(a)
      PROVE  LineFitsThen(a[k]) /\ (a[k].kind = "data" => k = 1 /\ step = "fetch" /\ wait # "no")
  <2>. DEFINE d == Done(c, ok, says)
              b == Body(c)
              m == Mark("caps", auth)
              p == Mark("plus", {})
  <2>1. /\ d.tag <= tag /\ (says => worded') /\ c.name \notin Multi
        /\ (c.name \notin Continued /\ ok /\ c.tag = tag /\ Tagged => Meant')
        /\ (c.tag = tag /\ step = "fetch" /\ wait # "no" => queue' = <<>>)
        /\ (c.name = "fetch" => step = "fetch" /\ wait # "no" /\ c.ref = Head(todo) /\ queue' = <<>>)
    BY <1>1, AnswerMeans
  <2>2. tag \in Nat
    BY TheChannel
  <2>3. /\ d.kind = "done" /\ d.ok = ok /\ d.says = says /\ d.tag = c.tag
        /\ m.kind = "caps" /\ m.tag = 0 /\ ~m.says
        /\ p.kind = "plus" /\ p.tag = 0 /\ ~p.says
        /\ b.kind \in {"data", "listing"} /\ b.tag = 0 /\ ~b.says /\ b.ref = c.ref
        /\ (b.kind = "data" => c.name = "fetch" \/ c.name \in Multi)
    BY DEF Done, Body, Mark, Multi
  <2>4. \/ a = <<d>> /\ (ok => c.name \notin Continued)
        \/ a = <<p>>
        \/ a = <<m, d>> /\ c.name = "caps"
        \/ a = <<b, d>> /\ c.name = "fetch" /\ c.ref.n # 0
    <3>1. \/ a = <<d>> /\ (ok => c.name \notin Continued)
          \/ a = <<p>>
          \/ a = <<d, b, Mark("end", {})>> /\ c.name \in Multi
          \/ a = <<m, d>> /\ c.name = "caps"
          \/ a = <<b, d>> /\ c.name = "fetch" /\ c.ref.n # 0
      <4>. HIDE DEF d, b, m, p, a
      <4>. QED  BY AnswerIs DEF d, b, m, p, a
    <3>. QED  BY <2>1, <3>1
  <2>. HIDE DEF d, b, m, p, a
  <2>5. LineFitsThen(m) /\ LineFitsThen(p)
    BY <1>0, <2>2, <2>3 DEF LineFitsThen
  <2>6. (ok => c.name \notin Continued) => LineFitsThen(d)
    BY <1>0, <2>1, <2>3 DEF LineFitsThen, Tagged
  <2>7. c.name = "fetch" /\ c.ref.n # 0 => LineFitsThen(b)
    BY <1>0, <2>1, <2>2, <2>3 DEF LineFitsThen
  <2>8. {"caps", "fetch"} \cap Continued = {}
    BY DEF Continued
  <2>9. CASE a = <<d>> /\ (ok => c.name \notin Continued)
    <3>1. a[k] = d
      BY <2>9
    <3>. QED  BY <2>3, <2>6, <2>9, <3>1
  <2>10. CASE a = <<p>>
    <3>1. a[k] = p
      BY <2>10
    <3>. QED  BY <2>3, <2>5, <3>1
  <2>11. CASE a = <<m, d>> /\ c.name = "caps"
    <3>1. a[k] = m \/ a[k] = d
      BY <2>11
    <3>. QED  BY <2>3, <2>5, <2>6, <2>8, <2>11, <3>1
  <2>12. CASE a = <<b, d>> /\ c.name = "fetch" /\ c.ref.n # 0
    <3>1. (k = 1 /\ a[k] = b) \/ a[k] = d
      BY <2>12
    <3>. QED  BY <2>1, <2>3, <2>6, <2>7, <2>8, <2>12, <3>1
  <2>. QED  BY <2>4, <2>9, <2>10, <2>11, <2>12
<1>. HIDE DEF a
<1>8. wire \in Seq(Lines) /\ Len(wire) \in Nat
  BY TheChannel
<1>9. CASE conn = "open"
  <2>1. /\ Len(wire') = Len(wire) + Len(a)
        /\ \A i \in 1 .. Len(wire) + Len(a) : wire'[i] = IF i <= Len(wire) THEN wire[i] ELSE a[i - Len(wire)]
    BY <1>0, <1>6, <1>8, <1>9, ConcatProperties DEF a
  <2>2. ASSUME NEW i \in 1 .. Len(wire')
        PROVE  \/ i \in 1 .. Len(wire) /\ wire'[i] = wire[i]
               \/ i \notin 1 .. Len(wire) /\ i - Len(wire) \in 1 .. Len(a) /\ wire'[i] = a[i - Len(wire)]
    BY <1>6, <1>8, <2>1
  <2>3. ASSUME NEW i \in 1 .. Len(wire') PROVE LineFitsThen(wire'[i])
    BY <1>5, <1>7, <2>2
  <2>4. ASSUME NEW i \in 1 .. Len(wire'), NEW j \in 1 .. i, wire'[i].kind = "data", wire'[j].kind = "done"
        PROVE  wire'[j].tag < tag'
    <3>1. i - Len(wire) = 1 /\ step = "fetch" /\ wait # "no"
      BY <1>5, <1>7, <2>2, <2>4
    <3>2. j # i
      BY <2>4
    <3>3. j \in 1 .. Len(wire) /\ j \in 1 .. Len(wire')
      BY <1>6, <1>8, <2>1, <3>1, <3>2
    <3>4. wire'[j] = wire[j]
      BY <2>2, <3>3
    <3>. QED  BY <1>0, <1>5, <2>4, <3>1, <3>3, <3>4
  <2>. QED  BY <1>4, <2>3, <2>4
<1>10. CASE conn # "open"
  BY <1>0, <1>4, <1>5, <1>10
<1>. QED  BY <1>9, <1>10

LEMMA ChannelUnsolicited ==
    ASSUME IInv, Unsolicited
    PROVE  IMAPChannel'
<1>. DEFINE l(id) == [Line("fetch", 0) EXCEPT !.ref.id = id]
<1>1. PICK id \in Ids \union {0} : wire' = Append(wire, l(id)) /\ intruded' = (intruded \/ id # 0)
  BY DEF Unsolicited
<1>0. /\ queue' = queue /\ step' = step /\ wait' = wait /\ todo' = todo /\ tag' = tag
      /\ legs' = legs /\ Protocol' = Protocol /\ worded' = worded /\ accepted' = accepted /\ seen' = seen
  BY DEF Unsolicited, Protocol, clientVars, progressVars, outcomeVars, serverVars
<1>. SUFFICES ASSUME Active, Protocol = "imap"
              PROVE  /\ \A i \in 1 .. Len(queue') : CommandFitsThen(queue'[i])
                     /\ \A i \in 1 .. Len(queue') : queue'[i].name = "fetch" => i = Len(queue')
                     /\ \A i \in 1 .. Len(wire') : LineFitsThen(wire'[i])
                     /\ \A i \in 1 .. Len(wire') : \A j \in 1 .. i :
                           wire'[i].kind = "data" /\ wire'[j].kind = "done" => wire'[j].tag < tag'
  BY <1>0, ChannelThen DEF Active
<1>2. ASSUME NEW i \in 1 .. Len(queue) PROVE CommandFitsThen(queue[i]) /\ (queue[i].name = "fetch" => i = Len(queue))
  <2>1. CommandFits(queue[i]) /\ (queue[i].name = "fetch" => i = Len(queue))
    BY TheChannel
  <2>. QED  BY <1>0, <2>1 DEF CommandFits, CommandFitsThen, Tagged, Own
<1>3. ASSUME NEW i \in 1 .. Len(wire) PROVE LineFitsThen(wire[i])
  <2>1. LineFits(wire[i])
    BY TheChannel
  <2>. QED  BY <1>0, <1>1, <2>1 DEF LineFits, LineFitsThen, Tagged, Meant
<1>4. LineFitsThen(l(id)) /\ l(id).kind = "fetch"
  <2>. DEFINE x == Line("fetch", 0)
  <2>1. /\ x \in Lines /\ x.kind = "fetch" /\ x.tag = 0 /\ ~x.says /\ x.ref = NoRef
        /\ NoRef \in Refs /\ NoRef.n = 0
    BY DEF Line, Lines, NoRef, Refs
  <2>2. tag \in Nat /\ id \in Nat
    BY TheChannel, TheBox DEF Ids
  <2>3. [NoRef EXCEPT !.id = id].n = 0 /\ [NoRef EXCEPT !.id = id].id = id
    BY DEF NoRef
  <2>4. l(id) = [x EXCEPT !.ref = [x.ref EXCEPT !.id = id]]
    OBVIOUS
  <2>. HIDE DEF l, x
  <2>5. /\ l(id).kind = "fetch" /\ l(id).tag = 0 /\ ~l(id).says
        /\ l(id).ref = [NoRef EXCEPT !.id = id]
    BY <2>1, <2>4 DEF Lines
  <2>6. intruded' = (intruded \/ id # 0)
    BY <1>1
  <2>7. l(id).tag <= tag'
    BY <1>0, <2>2, <2>5
  <2>8. l(id).ref.n = 0 /\ (~intruded' => l(id).ref.id = 0)
    BY <2>3, <2>5, <2>6
  <2>9. l(id).kind # "done" /\ l(id).kind # "data"
    BY <2>5
  <2>. QED  BY <2>5, <2>7, <2>8, <2>9 DEF LineFitsThen
<1>. HIDE DEF l
<1>5. wire \in Seq(Lines) /\ Len(wire) \in Nat /\ Len(wire') = Len(wire) + 1 /\ wire'[Len(wire) + 1] = l(id)
      /\ \A i \in 1 .. Len(wire) : wire'[i] = wire[i]
  BY <1>1, TheChannel
<1>6. ASSUME NEW i \in 1 .. Len(wire') PROVE LineFitsThen(wire'[i])
  BY <1>3, <1>4, <1>5
<1>7. ASSUME NEW i \in 1 .. Len(wire'), NEW j \in 1 .. i, wire'[i].kind = "data", wire'[j].kind = "done"
      PROVE  wire'[j].tag < tag'
  <2>1. i # Len(wire) + 1
    BY <1>4, <1>5, <1>7
  <2>2. i \in 1 .. Len(wire) /\ j \in 1 .. Len(wire)
    BY <1>5, <2>1
  <2>. QED  BY <1>0, <1>5, <1>7, <2>2, TheChannel
<1>. QED  BY <1>0, <1>2, <1>6, <1>7

LEMMA ChannelHangUp ==
    ASSUME IInv, HangUp
    PROVE  IMAPChannel'
<1>0. /\ queue' = <<>> /\ step' = step /\ wait' = wait /\ todo' = todo /\ tag' = tag
      /\ legs' = legs /\ Protocol' = Protocol /\ worded' = worded /\ accepted' = accepted /\ seen' = seen
      /\ intruded' = intruded
  BY DEF HangUp, Protocol, progressVars, serverVars, histVars
<1>. SUFFICES ASSUME Active, Protocol = "imap"
              PROVE  /\ \A i \in 1 .. Len(queue') : CommandFitsThen(queue'[i])
                     /\ \A i \in 1 .. Len(queue') : queue'[i].name = "fetch" => i = Len(queue')
                     /\ \A i \in 1 .. Len(wire') : LineFitsThen(wire'[i])
                     /\ \A i \in 1 .. Len(wire') : \A j \in 1 .. i :
                           wire'[i].kind = "data" /\ wire'[j].kind = "done" => wire'[j].tag < tag'
  BY <1>0, ChannelThen DEF Active
<1>1. PICK k \in 0 .. Len(wire) : wire' = SubSeq(wire, 1, k)
  BY DEF HangUp
<1>2. ASSUME NEW i \in 1 .. Len(wire) PROVE LineFitsThen(wire[i])
  <2>1. LineFits(wire[i])
    BY TheChannel
  <2>. QED  BY <1>0, <2>1 DEF LineFits, LineFitsThen, Tagged, Meant
<1>3. wire \in Seq(Lines) /\ Len(wire) \in Nat /\ Len(wire') = k /\ \A i \in 1 .. k : wire'[i] = wire[i] /\ i \in 1 .. Len(wire)
  BY <1>1, TheChannel
<1>4. \A i \in 1 .. Len(wire') : LineFitsThen(wire'[i])
  BY <1>2, <1>3
<1>5. ASSUME NEW i \in 1 .. Len(wire'), NEW j \in 1 .. i, wire'[i].kind = "data", wire'[j].kind = "done"
      PROVE  wire'[j].tag < tag'
  <2>1. i \in 1 .. Len(wire) /\ j \in 1 .. k
    BY <1>3
  <2>. QED  BY <1>0, <1>3, <1>5, <2>1, TheChannel
<1>6. Len(queue') = 0
  BY <1>0
<1>. QED  BY <1>4, <1>5, <1>6

LEMMA IMAPChannelNext ==
    ASSUME IInv, [Next]_vars
    PROVE  IMAPChannel'
<1>1. CASE UNCHANGED vars
  <2>1. IMAPChannel
    BY DEF IInv
  <2>. QED  BY <1>1, <2>1 DEF IMAPChannel, CommandFits, LineFits, Tagged, Own, Meant, Active, Protocol, vars, clientVars,
               progressVars, outcomeVars, channelVars, serverVars, histVars
<1>. QED  BY <1>1, Kinds, ChannelDial, ChannelSend, ChannelReads, ChannelCompletes, ChannelServe, ChannelUnsolicited,
             ChannelHangUp

LEMMA IMAPGotNext ==
    ASSUME IInv, [Next]_vars
    PROVE  IMAPGot'
<1>0. IMAPGot /\ got \in Gotten
  BY DEF IInv, TypeOK, Gotten
<1>1. CASE Dial
  BY <1>1 DEF Dial, Goto, IMAPGot, Active
<1>2. CASE Send
  <2>1. got' = [Nothing EXCEPT !.ref.id = IF step = "fetch" THEN Head(todo).id ELSE 0]
    BY <1>2 DEF Send
  <2>2. got'.ref.n = 0
    BY <2>1 DEF Nothing, NoRef
  <2>. QED  BY <2>2 DEF IMAPGot
<1>3. CASE ReadingOn
  <2>0. /\ Active /\ wait # "no" /\ step' = step /\ legs' = legs /\ todo' = todo /\ wire # <<>>
        /\ intruded' = intruded /\ got' = Collected(Head(wire)) /\ Protocol' = Protocol
    BY <1>3, Waiting DEF ReadingOn, Protocol
  <2>1. CASE Protocol = "imap" /\ step = "fetch"
    <3>1. Head(wire) \in Lines /\ LineFits(Head(wire))
      <4>1. Head(wire) = wire[1] /\ Head(wire) \in Lines /\ 1 \in 1 .. Len(wire)
        BY <2>0, TheChannel, HeadOf
      <4>. QED  BY <2>0, <2>1, <4>1, TheChannel
    <3>2. TypeOK
      BY DEF IInv
    <3>3. /\ Collected(Head(wire)) \in Gotten
          /\ Head(wire).kind = "data" => Collected(Head(wire)).ref = Head(wire).ref
          /\ Head(wire).kind = "fetch" => /\ Collected(Head(wire)).ref.n = got.ref.n
                                          /\ (Head(wire).ref.id = 0 => Collected(Head(wire)).ref = got.ref)
          /\ Head(wire).kind \notin {"data", "fetch"} => Collected(Head(wire)).ref = got.ref
      BY <3>1, <3>2, CollectedIs
    <3>. QED  BY <1>0, <2>0, <2>1, <3>1, <3>3 DEF IMAPGot, LineFits
  <2>. QED  BY <2>0, <2>1 DEF IMAPGot
<1>4. ASSUME NEW ok \in BOOLEAN, NEW g \in Gotten, Completing(ok, g) PROVE IMAPGot'
  BY <1>4, Completes DEF Stopped, Handed, Going, Goes, IMAPGot, Active
<1>5. CASE Serve \/ HangUp \/ UNCHANGED vars
  BY <1>0, <1>5 DEF Serve, HangUp, IMAPGot, Active, Protocol, vars, clientVars, progressVars, outcomeVars, histVars
<1>6. CASE Unsolicited
  <2>1. intruded => intruded'
    BY <1>6 DEF Unsolicited
  <2>. QED  BY <1>0, <1>6, <2>1 DEF Unsolicited, IMAPGot, Active, Protocol, clientVars, progressVars, outcomeVars
<1>. QED  BY <1>1, <1>2, <1>3, <1>4, <1>5, <1>6, Kinds

-----------------------------------------------------------------------------
(* Sessions without tags *)

\* What the channel will be after the step.
IsBodyThen(l) ==
    l.kind \in {"data", "listing"} /\ (step' \in {"top", "retr"} => l.kind = "data" /\ l.ref = Ref')
AskingThen ==
    /\ Len(queue') <= 1
    /\ queue' # <<>> => wire' = <<>> /\ wait' = "line" /\ queue'[1].name = step' /\ queue'[1].ref = Ref'
    /\ wait' # "no" /\ wire' = <<>> /\ conn' = "open" => queue' # <<>>
    /\ wait' = "no" => queue' = <<>> /\ wire' = <<>>
AnsweringThen ==
    wait' = "line" /\ wire' # <<>> =>
        /\ wire'[1].kind = "done" /\ ~wire'[1].says
        /\ wire'[1].ok => Effect'
        /\ Len(wire') = 1 => conn' = "broken" \/ ~wire'[1].ok \/ step' \notin Multi
        /\ Len(wire') > 1 => wire'[1].ok /\ step' \in Multi /\ IsBodyThen(wire'[2])
        /\ Len(wire') = 2 => conn' = "broken"
        /\ Len(wire') > 2 => Len(wire') = 3 /\ wire'[3].kind = "end"
ContinuingThen ==
    wait' = "body" =>
        /\ step' \in Multi
        /\ wire' # <<>> /\ wire'[1].kind = "end" =>
              Len(wire') = 1 /\ (step' \in {"top", "retr"} => got'.ref = Ref')
        /\ wire' # <<>> /\ wire'[1].kind # "end" =>
              /\ IsBodyThen(wire'[1])
              /\ Len(wire') = 1 => conn' = "broken"
              /\ Len(wire') > 1 => Len(wire') = 2 /\ wire'[2].kind = "end"

LEMMA StepThen ==
    ASSUME InStep' => AskingThen /\ AnsweringThen /\ ContinuingThen
    PROVE  StepChannel'
BY DEF StepChannel, Asking, Answering, Continuing, IsBody, AskingThen, AnsweringThen, ContinuingThen, IsBodyThen

LEMMA SilentThen ==
    ASSUME InStep' => queue' = <<>> /\ wire' = <<>> /\ wait' = "no"
    PROVE  StepChannel'
<1>1. ASSUME InStep' PROVE AskingThen /\ AnsweringThen /\ ContinuingThen
  BY <1>1 DEF AskingThen, AnsweringThen, ContinuingThen
<1>. QED  BY <1>1, StepThen

\* The state of a channel in step, with the types.
LEMMA TheStep ==
    ASSUME IInv, InStep
    PROVE  /\ TypeOK /\ Placed /\ Active /\ Fitting /\ Protocol \in {"pop3", "smtp"} /\ step \in Path(legs[1])
           /\ conn \in {"open", "broken"} /\ wait \in {"no", "line", "body"}
           /\ queue \in Seq(Commands) /\ wire \in Seq(Lines) /\ Len(queue) \in Nat /\ Len(wire) \in Nat
           /\ Asking /\ Answering /\ Continuing
<1>1. TypeOK /\ Placed /\ StepChannel /\ Active
  BY DEF IInv, InStep
<1>2. Fitting /\ step \in Path(legs[1]) /\ conn \in {"open", "broken"}
  BY <1>1, Waiting
<1>3. queue \in Seq(Commands) /\ wire \in Seq(Lines) /\ wait \in {"no", "line", "body"}
  BY <1>1 DEF TypeOK
<1>. QED  BY <1>1, <1>2, <1>3, LenProperties DEF StepChannel, InStep

LEMMA StepDial ==
    ASSUME IInv, Dial
    PROVE  StepChannel'
<1>. SUFFICES ASSUME InStep' PROVE AskingThen /\ AnsweringThen /\ ContinuingThen
  BY StepThen
<1>1. step' = "greeting" /\ queue' = <<Greeting>> /\ wire' = <<>> /\ wait' = "line" /\ todo' = <<>>
  BY DEF Dial, InStep, Active, Goto
<1>2. queue' # <<>> /\ Len(queue') = 1 /\ queue'[1].name = "greeting" /\ queue'[1].ref = NoRef
  BY <1>1 DEF Greeting
<1>. QED  BY <1>1, <1>2 DEF AskingThen, AnsweringThen, ContinuingThen, Ref

LEMMA StepSend ==
    ASSUME IInv, Send
    PROVE  StepChannel'
<1>. SUFFICES ASSUME InStep' PROVE AskingThen /\ AnsweringThen /\ ContinuingThen
  BY StepThen
<1>1. /\ wait = "no" /\ wait' = "line" /\ step' = step /\ todo' = todo /\ conn' = conn /\ wire' = wire
      /\ InStep
  BY DEF Send, InStep, Active, Protocol, progressVars, outcomeVars, histVars
<1>2. queue = <<>> /\ wire = <<>> /\ conn \in {"open", "broken"}
  BY <1>1, TheStep DEF Asking
<1>. DEFINE c == [name |-> step, tag |-> tag', ref |-> IF todo = <<>> THEN NoRef ELSE Head(todo), peek |-> ~req.markSeen]
<1>3. queue' = IF conn # "open" THEN queue ELSE Append(queue, c)
  BY DEF Send
<1>4. c.name = step /\ c.ref = Ref
  BY DEF Ref
<1>5. Ref' = Ref
  BY <1>1 DEF Ref
<1>. HIDE DEF c
<1>6. CASE conn = "open"
  <2>1. queue' = <<c>>
    BY <1>2, <1>3, <1>6
  <2>2. queue' # <<>> /\ Len(queue') = 1 /\ queue'[1] = c
    BY <2>1
  <2>. QED  BY <1>1, <1>2, <1>4, <1>5, <2>2 DEF AskingThen, AnsweringThen, ContinuingThen
<1>7. CASE conn = "broken"
  <2>1. queue' = <<>> /\ Len(queue') = 0
    BY <1>2, <1>3, <1>7
  <2>. QED  BY <1>1, <1>2, <1>7, <2>1 DEF AskingThen, AnsweringThen, ContinuingThen
<1>. QED  BY <1>2, <1>6, <1>7

LEMMA StepReads ==
    ASSUME IInv, ReadingOn
    PROVE  StepChannel'
<1>. SUFFICES ASSUME InStep' PROVE AskingThen /\ AnsweringThen /\ ContinuingThen
  BY StepThen
<1>1. /\ wait # "no" /\ step' = step /\ todo' = todo /\ conn' = conn /\ queue' = queue /\ wire # <<>>
      /\ wire' = Tail(wire) /\ wait' = Verdict(Head(wire)) /\ Verdict(Head(wire)) \in {"line", "body"}
      /\ got' = Collected(Head(wire)) /\ InStep
  BY DEF ReadingOn, InStep, Active, Protocol
<1>2. Ref' = Ref /\ TypeOK /\ Asking /\ Answering /\ Continuing /\ Protocol # "imap" /\ wait \in {"line", "body"}
      /\ conn \in {"open", "broken"} /\ wire \in Seq(Lines) /\ Len(wire) \in Nat
  <2>1. Ref' = Ref
    BY <1>1 DEF Ref
  <2>. QED  BY <1>1, <2>1, TheStep
<1>3. queue = <<>> /\ Len(queue') = 0
  BY <1>1, <1>2 DEF Asking
<1>4. /\ Head(wire) = wire[1] /\ Head(wire) \in Lines /\ Len(wire) >= 1 /\ Len(wire') = Len(wire) - 1
      /\ wire' \in Seq(Lines)
      /\ Len(wire) >= 2 => wire'[1] = wire[2]
      /\ Len(wire) >= 3 => wire'[2] = wire[3]
  BY <1>1, <1>2, HeadOf
<1>5. (wire' = <<>>) <=> (Len(wire) = 1)
  BY <1>2, <1>4, EmptySeq
<1>6. CASE wait = "line"
  <2>1. Good(wire[1]) /\ step \in Multi /\ wait' = "body"
    BY <1>1, <1>2, <1>4, <1>6 DEF Verdict, Judged
  <2>2. /\ wire[1].ok
        /\ Len(wire) = 1 => conn = "broken"
        /\ Len(wire) > 1 => IsBody(wire[2])
        /\ Len(wire) = 2 => conn = "broken"
        /\ Len(wire) > 2 => Len(wire) = 3 /\ wire[3].kind = "end"
    BY <1>1, <1>2, <1>6, <2>1 DEF Answering, Good
  <2>3. Len(wire) \in {1, 2, 3}
    BY <1>2, <1>4, <2>2
  <2>4. AskingThen
    BY <1>1, <1>3, <1>5, <2>1, <2>2 DEF AskingThen
  <2>5. CASE Len(wire) = 1
    BY <1>1, <1>5, <2>1, <2>4, <2>5 DEF AnsweringThen, ContinuingThen
  <2>6. CASE Len(wire) \in {2, 3}
    <3>1. IsBodyThen(wire'[1]) /\ wire'[1].kind # "end"
      BY <1>1, <1>2, <1>4, <2>2, <2>6 DEF IsBody, IsBodyThen
    <3>2. /\ Len(wire') = 1 => conn' = "broken"
          /\ Len(wire') > 1 => Len(wire') = 2 /\ wire'[2].kind = "end"
      BY <1>1, <1>4, <2>2, <2>6
    <3>. QED  BY <1>1, <2>1, <2>4, <3>1, <3>2 DEF AnsweringThen, ContinuingThen
  <2>. QED  BY <2>3, <2>4, <2>5, <2>6
<1>7. CASE wait = "body"
  <2>1. wire[1].kind # "end" /\ wait' = "body"
    BY <1>1, <1>2, <1>4, <1>7 DEF Verdict
  <2>2. /\ step \in Multi /\ IsBody(wire[1])
        /\ Len(wire) = 1 => conn = "broken"
        /\ Len(wire) > 1 => Len(wire) = 2 /\ wire[2].kind = "end"
    BY <1>1, <1>2, <1>7, <2>1 DEF Continuing
  <2>3. Len(wire) \in {1, 2}
    BY <1>2, <1>4, <2>2
  <2>4. AskingThen
    BY <1>1, <1>3, <1>5, <2>1, <2>2 DEF AskingThen
  <2>5. step \in {"top", "retr"} => got'.ref = Ref
    <3>1. wire[1].kind = "data" => Collected(Head(wire)).ref = wire[1].ref
      BY <1>2, <1>4, CollectedIs
    <3>. QED  BY <1>1, <2>2, <3>1 DEF IsBody
  <2>6. CASE Len(wire) = 1
    BY <1>1, <1>5, <2>1, <2>2, <2>4, <2>6 DEF AnsweringThen, ContinuingThen
  <2>7. CASE Len(wire) = 2
    <3>1. wire'[1].kind = "end" /\ Len(wire') = 1
      BY <1>4, <2>2, <2>7
    <3>. QED  BY <1>1, <1>2, <2>1, <2>2, <2>4, <2>5, <3>1 DEF AnsweringThen, ContinuingThen
  <2>. QED  BY <2>3, <2>6, <2>7
<1>. QED  BY <1>2, <1>6, <1>7

LEMMA StepCompletes ==
    ASSUME IInv, NEW ok \in BOOLEAN, NEW g \in Gotten, Completing(ok, g)
    PROVE  StepChannel'
<1>1. CASE Stopped("error") \/ Stopped("ok") \/ Handed
  BY <1>1, SilentThen DEF Stopped, Handed, InStep, Active
<1>2. CASE Going
  <2>1. legs' = legs /\ Protocol' = Protocol /\ wait' = "no" /\ step' \notin {"dial", "over"} /\ Active
        /\ queue' = queue /\ (gaveUp => gaveUp')
    BY <1>2, Completes DEF Going, Goes, outcomeVars, Protocol, Completing
  <2>2. InStep' => InStep /\ (Protocol = "smtp" \/ ~gaveUp')
    BY <2>1 DEF InStep
  <2>3. InStep' => queue' = <<>> /\ wire' = <<>>
    BY <2>1, <2>2 DEF Completing
  <2>. QED  BY <2>1, <2>3, SilentThen
<1>. QED  BY <1>1, <1>2, Completes

LEMMA StepServe ==
    ASSUME IInv, Serve
    PROVE  StepChannel'
<1>. SUFFICES ASSUME InStep' PROVE AskingThen /\ AnsweringThen /\ ContinuingThen
  BY StepThen
<1>1. PICK c \in Commands, ok \in BOOLEAN, says \in BOOLEAN, auth \in SUBSET Mechs :
         Serving(c, ok, says, auth) /\ Harmless(c)
  BY Serves
<1>2. /\ queue # <<>> /\ c = Head(queue) /\ queue' = Tail(queue) /\ step' = step /\ wait' = wait /\ todo' = todo
      /\ conn' = conn /\ wire' = (IF conn = "open" THEN wire \o Answer(c, ok, says, auth) ELSE wire)
      /\ (says => Protocol = "imap") /\ InStep /\ Protocol' = Protocol
  BY <1>1 DEF Serving, InStep, Active, Protocol
<1>3. Asking /\ queue \in Seq(Commands) /\ Len(queue) \in Nat /\ Protocol \in {"pop3", "smtp"} /\ step \in Path(legs[1])
      /\ Fitting
  BY <1>2, TheStep
<1>4. wire = <<>> /\ wait = "line" /\ queue[1].name = step /\ queue[1].ref = Ref /\ Len(queue) <= 1
  BY <1>2, <1>3 DEF Asking
<1>5. c.name = step /\ c.ref = Ref /\ ~says /\ Ref' = Ref
  <2>1. c = queue[1]
    BY <1>2, <1>3, HeadOf
  <2>2. Ref' = Ref
    BY <1>2 DEF Ref
  <2>. QED  BY <1>2, <1>3, <1>4, <2>1, <2>2
<1>6. queue' = <<>> /\ Len(queue') = 0
  <2>0. Len(queue) >= 1 /\ Len(Tail(queue)) = Len(queue) - 1 /\ Tail(queue) \in Seq(Commands)
    BY <1>2, <1>3, HeadOf
  <2>1. Len(Tail(queue)) = 0 /\ Tail(queue) \in Seq(Commands)
    BY <1>3, <1>4, <2>0
  <2>. QED  BY <1>2, <2>1, EmptySeq
<1>7. conn = "open"
  <2>1. Placed /\ conn \in {"open", "broken"}
    BY <1>2, TheStep
  <2>. QED  BY <1>2, <2>1 DEF Placed
<1>8. wire' = Answer(c, ok, says, auth)
  <2>1. Answer(c, ok, says, auth) \in Seq(Lines)
    BY AnswerType
  <2>2. <<>> \o Answer(c, ok, says, auth) = Answer(c, ok, says, auth)
    BY <2>1
  <2>. QED  BY <1>2, <1>4, <1>7, <2>2
<1>9. step \notin Continued /\ step \notin {"caps", "fetch"}
  BY <1>3 DEF Path, Protocol, Continued
<1>10. ok => Effect'
  <2>1. ASSUME ok PROVE Served(c)
    BY <1>1, <2>1 DEF Serving
  <2>2. step = "rcpt" => Ref = Head(todo)
    <3>1. Placed
      BY DEF IInv
    <3>. QED  BY <3>1 DEF Placed, InLoop, Ref
  <2>3. Harmless(c)
    BY <1>1
  <2>. QED  BY <1>2, <1>5, <2>1, <2>2, <2>3 DEF Effect, Served, Harmless
<1>. DEFINE d == Done(c, ok, says)
            b == Body(c)
            e == Mark("end", {})
<1>11. /\ d.kind = "done" /\ d.ok = ok /\ d.says = says
       /\ e.kind = "end" /\ b.ref = c.ref
       /\ b.kind = IF c.name \in {"top", "retr", "fetch"} THEN "data" ELSE "listing"
  BY DEF Done, Body, Mark
<1>12. \/ wire' = <<d>> /\ (ok => step \notin Multi)
       \/ wire' = <<d, b, e>> /\ ok /\ step \in Multi
  <2>. HIDE DEF d, b, e
  <2>. QED  BY <1>5, <1>8, <1>9, AnswerIs DEF d, b, e
<1>. HIDE DEF d, b, e
<1>13. CASE wire' = <<d>> /\ (ok => step \notin Multi)
  <2>1. wire' # <<>> /\ Len(wire') = 1 /\ wire'[1] = d
    BY <1>13
  <2>2. AskingThen
    BY <1>2, <1>4, <1>6, <2>1 DEF AskingThen
  <2>3. /\ wire'[1].kind = "done" /\ ~wire'[1].says /\ (wire'[1].ok => Effect')
        /\ wire'[1].ok => step' \notin Multi
        /\ ~(Len(wire') > 1) /\ Len(wire') # 2 /\ ~(Len(wire') > 2)
    <3>1. ~(Len(wire') > 1) /\ Len(wire') # 2 /\ ~(Len(wire') > 2)
      BY <2>1
    <3>2. wire'[1].kind = "done" /\ wire'[1].says = says /\ wire'[1].ok = ok
      BY <1>11, <2>1
    <3>3. ~wire'[1].says /\ (wire'[1].ok => Effect')
      BY <1>5, <1>10, <3>2
    <3>4. wire'[1].ok => step' \notin Multi
      BY <1>2, <1>13, <3>2
    <3>. QED  BY <3>1, <3>2, <3>3, <3>4
  <2>4. AnsweringThen
    BY <2>3 DEF AnsweringThen
  <2>. QED  BY <1>2, <1>4, <2>2, <2>4 DEF ContinuingThen
<1>14. CASE wire' = <<d, b, e>> /\ ok /\ step \in Multi
  <2>1. wire' # <<>> /\ Len(wire') = 3 /\ wire'[1] = d /\ wire'[2] = b /\ wire'[3] = e
    BY <1>14
  <2>2. AskingThen
    BY <1>2, <1>4, <1>6, <2>1 DEF AskingThen
  <2>3. IsBodyThen(b)
    BY <1>2, <1>5, <1>11 DEF IsBodyThen
  <2>4. AnsweringThen
    BY <1>2, <1>5, <1>10, <1>11, <1>14, <2>1, <2>3 DEF AnsweringThen
  <2>. QED  BY <1>2, <1>4, <2>2, <2>4 DEF ContinuingThen
<1>. QED  BY <1>12, <1>13, <1>14

LEMMA StepHangUp ==
    ASSUME IInv, HangUp
    PROVE  StepChannel'
<1>. SUFFICES ASSUME InStep' PROVE AskingThen /\ AnsweringThen /\ ContinuingThen
  BY StepThen
<1>1. /\ queue' = <<>> /\ step' = step /\ wait' = wait /\ todo' = todo /\ conn' = "broken" /\ got' = got
      /\ InStep /\ accepted' = accepted /\ envelope' = envelope /\ mailed' = mailed /\ Protocol' = Protocol
  BY DEF HangUp, InStep, Active, Protocol, progressVars, histVars, serverVars
<1>2. PICK k \in 0 .. Len(wire) : wire' = SubSeq(wire, 1, k)
  BY DEF HangUp
<1>3. Asking /\ Answering /\ Continuing /\ wire \in Seq(Lines) /\ Len(wire) \in Nat
  BY <1>1, TheStep
<1>4. /\ Len(wire') = k /\ k <= Len(wire) /\ k \in Nat
      /\ k >= 1 => wire'[1] = wire[1]
      /\ k >= 2 => wire'[2] = wire[2]
      /\ k >= 3 => wire'[3] = wire[3]
      /\ (wire' = <<>>) <=> (k = 0)
      /\ (wire = <<>>) <=> (Len(wire) = 0)
  <2>1. Len(wire') = k /\ wire' \in Seq(Lines) /\ \A i \in 1 .. k : wire'[i] = wire[i]
    BY <1>2, <1>3
  <2>2. (wire' = <<>>) <=> (k = 0)
    BY <2>1, EmptySeq
  <2>3. (wire = <<>>) <=> (Len(wire) = 0)
    BY <1>3, EmptySeq
  <2>. QED  BY <1>2, <1>3, <2>1, <2>2, <2>3
<1>5. Ref' = Ref /\ (Effect => Effect') /\ Len(queue') = 0
  BY <1>1 DEF Ref, Effect
<1>6. AskingThen
  <2>1. wait = "no" => k = 0
    BY <1>3, <1>4 DEF Asking
  <2>. QED  BY <1>1, <1>4, <1>5, <2>1 DEF AskingThen
<1>7. AnsweringThen
  <2>. SUFFICES ASSUME wait = "line", k >= 1
                PROVE /\ wire'[1].kind = "done" /\ ~wire'[1].says
                      /\ wire'[1].ok => Effect'
                      /\ k > 1 => wire'[1].ok /\ step' \in Multi /\ IsBodyThen(wire'[2])
                      /\ k > 2 => k = 3 /\ wire'[3].kind = "end"
    BY <1>1, <1>4 DEF AnsweringThen
  <2>1. wire # <<>> /\ Len(wire) >= 1
    BY <1>3, <1>4
  <2>2. /\ wire[1].kind = "done" /\ ~wire[1].says /\ (wire[1].ok => Effect)
        /\ Len(wire) > 1 => wire[1].ok /\ step \in Multi /\ IsBody(wire[2])
        /\ Len(wire) > 2 => Len(wire) = 3 /\ wire[3].kind = "end"
    BY <1>3, <2>1 DEF Answering
  <2>3. k > 1 => IsBodyThen(wire'[2])
    BY <1>1, <1>3, <1>4, <1>5, <2>2 DEF IsBody, IsBodyThen
  <2>4. ASSUME k > 2 PROVE k = 3 /\ wire'[3].kind = "end"
    <3>1. Len(wire) > 2
      BY <1>3, <1>4, <2>4
    <3>2. Len(wire) = 3 /\ wire[3].kind = "end"
      BY <2>2, <3>1
    <3>. QED  BY <1>4, <2>4, <3>2
  <2>. QED  BY <1>1, <1>3, <1>4, <1>5, <2>2, <2>3, <2>4
<1>8. ContinuingThen
  <2>. SUFFICES ASSUME wait = "body"
                PROVE /\ step' \in Multi
                      /\ k >= 1 /\ wire'[1].kind = "end" =>
                            k = 1 /\ (step' \in {"top", "retr"} => got'.ref = Ref')
                      /\ k >= 1 /\ wire'[1].kind # "end" =>
                            /\ IsBodyThen(wire'[1])
                            /\ k > 1 => k = 2 /\ wire'[2].kind = "end"
    BY <1>1, <1>4 DEF ContinuingThen
  <2>1. /\ step \in Multi
        /\ Len(wire) >= 1 /\ wire[1].kind = "end" => Len(wire) = 1 /\ (step \in {"top", "retr"} => got.ref = Ref)
        /\ Len(wire) >= 1 /\ wire[1].kind # "end" =>
              IsBody(wire[1]) /\ (Len(wire) > 1 => Len(wire) = 2 /\ wire[2].kind = "end")
    BY <1>3, <1>4 DEF Continuing
  <2>2. k >= 1 => Len(wire) >= 1 /\ wire'[1] = wire[1]
    BY <1>3, <1>4
  <2>3. IsBody(wire[1]) => IsBodyThen(wire[1])
    BY <1>1, <1>5 DEF IsBody, IsBodyThen
  <2>4. ASSUME k >= 1, wire'[1].kind = "end"
        PROVE  k = 1 /\ (step' \in {"top", "retr"} => got'.ref = Ref')
    BY <1>1, <1>4, <1>5, <2>1, <2>2, <2>4
  <2>5. ASSUME k >= 1, wire'[1].kind # "end"
        PROVE  IsBodyThen(wire'[1]) /\ (k > 1 => k = 2 /\ wire'[2].kind = "end")
    <3>1. IsBodyThen(wire'[1])
      BY <2>1, <2>2, <2>3, <2>5
    <3>2. Len(wire) > 1 => Len(wire) = 2 /\ wire[2].kind = "end"
      BY <2>1, <2>2, <2>5
    <3>. QED  BY <1>3, <1>4, <3>1, <3>2
  <2>. QED  BY <1>1, <2>1, <2>4, <2>5
<1>. QED  BY <1>6, <1>7, <1>8

LEMMA StepChannelNext ==
    ASSUME IInv, [Next]_vars
    PROVE  StepChannel'
<1>1. CASE Unsolicited
  BY <1>1, SilentThen DEF Unsolicited, InStep, Protocol, clientVars, progressVars, outcomeVars
<1>2. CASE UNCHANGED vars
  <2>1. StepChannel
    BY DEF IInv
  <2>. QED  BY <1>2, <2>1 DEF StepChannel, InStep, Active, Protocol, Asking, Answering, Continuing, IsBody, Ref, Effect,
               vars, clientVars, progressVars, outcomeVars, channelVars, serverVars, histVars
<1>. QED  BY <1>1, <1>2, Kinds, StepDial, StepSend, StepReads, StepCompletes, StepServe, StepHangUp

-----------------------------------------------------------------------------
(* A POP3 listing *)

LEMMA LowestIs ==
    ASSUME TypeOK
    PROVE  /\ Lowest \in 0 .. Len(Box) /\ Len(Box) \in Nat /\ Numbers = 1 .. Len(Box)
           /\ req.limit \in Nat /\ req.old \in SUBSET Numbers
           /\ Lowest = IF req.limit = 0 \/ Len(Box) <= req.limit THEN 0 ELSE Len(Box) - req.limit
<1>1. Len(Box) \in Nat /\ Numbers = 1 .. Len(Box) /\ req.limit \in Nat /\ req.old \in SUBSET Numbers
  BY TheBox, TheRequest
<1>. QED  BY <1>1 DEF Lowest

\* If the dates follow the numbers the messages after the cutoff are the last ones.
LEMMA NewerIs ==
    ASSUME TypeOK, Dated
    PROVE  \E k \in 0 .. Len(Box) : Numbers \ req.old = k + 1 .. Len(Box)
<1>0. Len(Box) \in Nat /\ Numbers = 1 .. Len(Box) /\ req.old \in SUBSET Numbers
  BY LowestIs
<1>1. CASE Numbers \ req.old = {}
  <2>1. Len(Box) + 1 .. Len(Box) = {}
    BY <1>0
  <2>. QED  BY <1>0, <1>1, <2>1
<1>2. CASE Numbers \ req.old # {}
  <2>1. Numbers \ req.old \in SUBSET Nat
    BY <1>0
  <2>2. PICK m \in Numbers \ req.old : \A n \in Numbers \ req.old : m <= n
    BY <1>2, <2>1, Least
  <2>3. ASSUME NEW n \in m .. Len(Box) PROVE n \in Numbers \ req.old
    <3>1. n \in req.old => m \in req.old
      BY <1>0, <2>2 DEF Dated
    <3>. QED  BY <1>0, <2>2, <3>1
  <2>4. m - 1 \in 0 .. Len(Box) /\ Numbers \ req.old = (m - 1) + 1 .. Len(Box)
    BY <1>0, <2>2, <2>3
  <2>. QED  BY <2>4
<1>. QED  BY <1>1, <1>2

LEMMA ToShowIs ==
    ASSUME TypeOK, req.uids = <<>>, NEW k \in 0 .. Len(Box), Numbers \ req.old = k + 1 .. Len(Box)
    PROVE  ToShow = (IF k <= Lowest THEN Lowest ELSE k) + 1 .. Len(Box)
<1>. DEFINE L == Len(Box)
            c == Cut(Found, req.limit)
            new == Newest(Found, req.limit)
<1>0. L \in Nat /\ Numbers = 1 .. L /\ req.limit \in Nat
      /\ Lowest = IF req.limit = 0 \/ L <= req.limit THEN 0 ELSE L - req.limit
  BY LowestIs
<1>1. /\ Cardinality(k + 1 .. L) = L - k
      /\ \A i \in 1 .. L - k : Nth(k + 1 .. L, i) = k + i
  BY <1>0, NthOfInterval
<1>2. /\ Found \in Seq(Refs) /\ Len(Found) = L - k
      /\ \A i \in 1 .. L - k : Found[i].n = k + i
  <2>1. k + 1 .. L \subseteq Numbers /\ Found = Oldest(k + 1 .. L)
    BY <1>0 DEF Found
  <2>2. /\ Oldest(k + 1 .. L) \in Seq(Refs) /\ Len(Oldest(k + 1 .. L)) = L - k
        /\ \A i \in 1 .. L - k : Oldest(k + 1 .. L)[i] = [n |-> Nth(k + 1 .. L, i), id |-> Box[Nth(k + 1 .. L, i)]]
    BY <1>1, <2>1, OldestIs
  <2>3. ASSUME NEW i \in 1 .. L - k PROVE Found[i].n = k + i
    <3>1. Found[i] = [n |-> Nth(k + 1 .. L, i), id |-> Box[Nth(k + 1 .. L, i)]]
      BY <2>1, <2>2
    <3>. QED  BY <1>1, <3>1
  <2>. QED  BY <2>1, <2>2, <2>3
<1>3. /\ new \in Seq(Refs) /\ Len(new) = L - k - c /\ c \in 0 .. L - k
      /\ \A i \in 1 .. L - k - c : new[i] = Found[c + i] /\ c + i \in 1 .. L - k
  <2>. HIDE DEF L
  <2>1. /\ new \in Seq(Refs) /\ c \in 0 .. Len(Found) /\ Len(new) = Len(Found) - c
        /\ \A i \in 1 .. Len(Found) - c : new[i] = Found[c + i] /\ c + i \in 1 .. Len(Found)
    BY <1>0, <1>2, NewestIs
  <2>. HIDE DEF c, new
  <2>. QED  BY <1>2, <2>1
<1>4. k + c = IF k <= Lowest THEN Lowest ELSE k
  <2>1. k \in Nat /\ k <= L
    BY <1>0
  <2>2. c = IF req.limit = 0 \/ L - k <= req.limit THEN 0 ELSE L - k - req.limit
    BY <1>2 DEF Cut
  <2>. HIDE DEF L, c
  <2>. QED  BY <1>0, <2>1, <2>2
<1>. HIDE DEF L, c, new
<1>5. DOMAIN new = 1 .. L - k - c /\ \A i \in 1 .. L - k - c : new[i].n = k + c + i
  <2>1. DOMAIN new = 1 .. L - k - c
    BY <1>3, LenProperties
  <2>2. ASSUME NEW i \in 1 .. L - k - c PROVE new[i].n = k + c + i
    <3>1. new[i].n = k + (c + i)
      BY <1>2, <1>3
    <3>2. k \in Nat /\ c \in Nat /\ i \in Nat
      BY <1>0, <1>3 DEF L
    <3>. QED  BY <3>1, <3>2
  <2>. QED  BY <2>1, <2>2
<1>6. ToShow = {new[i].n : i \in 1 .. L - k - c}
  BY <1>5 DEF ToShow, new
<1>7. {new[i].n : i \in 1 .. L - k - c} = k + c + 1 .. L
  <2>0. k \in Nat /\ c \in Nat /\ L \in Nat
    BY <1>0, <1>3 DEF L
  <2>1. ASSUME NEW i \in 1 .. L - k - c PROVE new[i].n \in k + c + 1 .. L
    BY <1>5, <2>0
  <2>2. ASSUME NEW n \in k + c + 1 .. L PROVE \E i \in 1 .. L - k - c : n = new[i].n
    <3>1. n - (k + c) \in 1 .. L - k - c /\ k + c + (n - (k + c)) = n
      BY <2>0
    <3>. QED  BY <1>5, <3>1
  <2>. QED  BY <2>1, <2>2
<1>. QED  BY <1>4, <1>6, <1>7 DEF L

\* The messages above a number are the whole, if there is no older one to be shown.
LEMMA WholeDown ==
    ASSUME TypeOK, req.uids = <<>>, Dated, NEW a \in 0 .. Len(Box), (a + 1 .. Len(Box)) \cap req.old = {},
           a = Lowest \/ (a \in req.old /\ Lowest <= a)
    PROVE  ToShow = a + 1 .. Len(Box)
<1>0. /\ Len(Box) \in Nat /\ Numbers = 1 .. Len(Box) /\ Lowest \in 0 .. Len(Box)
  BY LowestIs
<1>1. PICK k \in 0 .. Len(Box) : Numbers \ req.old = k + 1 .. Len(Box)
  BY NewerIs
<1>2. ToShow = (IF k <= Lowest THEN Lowest ELSE k) + 1 .. Len(Box)
  BY <1>1, ToShowIs
<1>3. k <= a
  <2>1. ASSUME a < k PROVE FALSE
    <3>1. a + 1 \in a + 1 .. Len(Box) /\ a + 1 \in Numbers
      BY <1>0, <1>1, <2>1
    <3>2. a + 1 \in k + 1 .. Len(Box)
      BY <1>1, <3>1
    <3>. QED  BY <1>0, <2>1, <3>2
  <2>. QED  BY <1>0, <2>1
<1>4. a \in req.old => a = k
  <2>1. ASSUME a \in req.old, k < a PROVE FALSE
    <3>1. a \in k + 1 .. Len(Box)
      BY <1>0, <2>1
    <3>. QED  BY <1>1, <2>1, <3>1
  <2>. QED  BY <1>0, <1>3, <2>1
<1>. QED  BY <1>0, <1>2, <1>3, <1>4

\* One more message has been listed.
LEMMA DownOn ==
    ASSUME TypeOK, NEW s \in Seq(Shows), NEW t \in Seq(Refs), t # <<>>, Down(s, t),
           NEW x, x.n = Head(t).n
    PROVE  /\ Down(Append(s, x), Tail(t)) /\ Head(t).n = Len(Box) - Len(s)
           /\ Len(Append(s, x)) = Len(s) + 1 /\ Len(s) \in Nat /\ Len(Box) - Len(s) > Lowest
<1>. DEFINE L == Len(Box)
<1>0. L \in Nat /\ Lowest \in Nat /\ Len(s) \in Nat
  BY LowestIs, LenProperties
<1>1. /\ Head(t) = t[1] /\ Len(t) >= 1 /\ Len(t) \in Nat /\ Len(Tail(t)) = Len(t) - 1
      /\ \A i \in 1 .. Len(t) - 1 : Tail(t)[i] = t[i + 1] /\ i + 1 \in 1 .. Len(t)
  BY HeadOf
<1>2. /\ Ns(s) = L - Len(s) + 1 .. L /\ Len(t) = L - Len(s) - Lowest
      /\ \A i \in 1 .. Len(t) : t[i].n = L - Len(s) + 1 - i
  BY DEF Down
<1>3. Len(Append(s, x)) = Len(s) + 1
  BY <1>0
<1>4. Head(t).n = L - Len(s) /\ L - Len(s) > Lowest
  <2>1. 1 \in 1 .. Len(t)
    BY <1>1
  <2>. QED  BY <1>0, <1>1, <1>2, <2>1
<1>5. Ns(Append(s, x)) = L - (Len(s) + 1) + 1 .. L
  <2>1. Ns(Append(s, x)) = (L - Len(s) + 1 .. L) \union {L - Len(s)}
    BY <1>2, <1>4, NsMore
  <2>2. L - Len(s) \in Nat
    BY <1>0, <1>4
  <2>3. \A m \in Nat : m <= L => (m + 1 .. L) \union {m} = m .. L
    BY <1>0
  <2>4. L - Len(s) <= L /\ L - (Len(s) + 1) + 1 = L - Len(s)
    BY <1>0
  <2>. QED  BY <2>1, <2>2, <2>3, <2>4
<1>6. Len(Tail(t)) = L - (Len(s) + 1) - Lowest
  BY <1>0, <1>1, <1>2
<1>7. ASSUME NEW i \in 1 .. Len(Tail(t)) PROVE Tail(t)[i].n = L - (Len(s) + 1) + 1 - i
  <2>1. Tail(t)[i] = t[i + 1] /\ i + 1 \in 1 .. Len(t)
    BY <1>1
  <2>2. t[i + 1].n = L - Len(s) + 1 - (i + 1)
    BY <1>2, <2>1
  <2>. QED  BY <1>0, <1>1, <2>1, <2>2
<1>. QED  BY <1>0, <1>3, <1>4, <1>5, <1>6, <1>7 DEF Down

\* The listing is over: at the end, at the limit, or at an old message.
LEMMA DownEnds ==
    ASSUME TypeOK, req.uids = <<>>, NEW s \in Seq(Shows), NEW t \in Seq(Refs), Down(s, t), Ns(s) \cap req.old = {},
           \/ t = <<>>
           \/ req.limit > 0 /\ Len(s) >= req.limit
           \/ t # <<>> /\ Head(t).n \in req.old
    PROVE  Dated => Ns(s) = ToShow
<1>. SUFFICES ASSUME Dated PROVE Ns(s) = ToShow
  OBVIOUS
<1>0. /\ Len(Box) \in Nat /\ Lowest \in 0 .. Len(Box) /\ Len(s) \in Nat /\ Len(t) \in Nat /\ req.limit \in Nat
      /\ Lowest = IF req.limit = 0 \/ Len(Box) <= req.limit THEN 0 ELSE Len(Box) - req.limit
  BY LowestIs, LenProperties
<1>1. Ns(s) = Len(Box) - Len(s) + 1 .. Len(Box) /\ Len(t) = Len(Box) - Len(s) - Lowest
  BY DEF Down
<1>2. Len(Box) - Len(s) \in 0 .. Len(Box) /\ Lowest <= Len(Box) - Len(s)
  <2>1. Len(t) = Len(Box) - Len(s) - Lowest /\ Len(t) >= 0 /\ Lowest \in Nat
    BY <1>0, <1>1
  <2>2. Len(Box) - Len(s) - Lowest >= 0
    BY <2>1
  <2>. QED  BY <1>0, <2>1, <2>2
<1>3. Len(Box) - Len(s) = Lowest \/ Len(Box) - Len(s) \in req.old
  <2>1. CASE t = <<>>
    <3>1. Len(t) = 0
      BY <2>1
    <3>. QED  BY <1>0, <1>1, <3>1
  <2>2. CASE req.limit > 0 /\ Len(s) >= req.limit
    BY <1>0, <1>2, <2>2
  <2>3. CASE t # <<>> /\ Head(t).n \in req.old
    <3>1. Head(t) = t[1] /\ 1 \in 1 .. Len(t)
      BY <2>3, HeadOf
    <3>2. t[1].n = Len(Box) - Len(s) + 1 - 1
      BY <3>1 DEF Down
    <3>. QED  BY <1>0, <2>3, <3>1, <3>2
  <2>. QED  BY <2>1, <2>2, <2>3
<1>. QED  BY <1>1, <1>2, <1>3, WholeDown

\* The same for named messages: one more is listed, or skipped as old.
LEMMA ByNameOn ==
    ASSUME TypeOK, NEW s \in Seq(Shows), NEW t \in Seq(Refs), t # <<>>, ByName(s, t)
    PROVE  /\ Head(t).n \in req.old => ByName(s, Tail(t))
           /\ \A x : x.n = Head(t).n /\ x.n \notin req.old => ByName(Append(s, x), Tail(t))
<1>1. /\ Head(t) = t[1] /\ Len(t) >= 1 /\ Len(t) \in Nat /\ Len(Tail(t)) = Len(t) - 1
      /\ \A i \in 1 .. Len(t) - 1 : Tail(t)[i] = t[i + 1] /\ i + 1 \in 1 .. Len(t)
  BY HeadOf
<1>2. Ns(t) = {Head(t).n} \union Ns(Tail(t))
  BY NsIs
<1>3. Distinct(s) /\ Distinct(t) /\ Ns(s) \cap Ns(t) = {} /\ Ns(s) \union (Ns(t) \ req.old) = ToShow
  BY DEF ByName
<1>4. Distinct(Tail(t))
  <2>1. ASSUME NEW i \in 1 .. Len(Tail(t)), NEW j \in 1 .. Len(Tail(t)), i # j PROVE Tail(t)[i].n # Tail(t)[j].n
    <3>1. Tail(t)[i] = t[i + 1] /\ i + 1 \in 1 .. Len(t) /\ Tail(t)[j] = t[j + 1] /\ j + 1 \in 1 .. Len(t) /\ i + 1 # j + 1
      BY <1>1, <2>1
    <3>. QED  BY <1>3, <3>1 DEF Distinct
  <2>. QED  BY <2>1 DEF Distinct
<1>5. Head(t).n \in req.old => ByName(s, Tail(t))
  BY <1>2, <1>3, <1>4 DEF ByName
<1>6. ASSUME NEW x, x.n = Head(t).n, x.n \notin req.old PROVE ByName(Append(s, x), Tail(t))
  <2>1. Ns(Append(s, x)) = Ns(s) \union {x.n}
    BY NsMore
  <2>2. Head(t).n \notin Ns(Tail(t))
    <3>1. ASSUME NEW i \in 1 .. Len(Tail(t)) PROVE Tail(t)[i].n # Head(t).n
      <4>1. Tail(t)[i] = t[i + 1] /\ i + 1 \in 1 .. Len(t) /\ 1 \in 1 .. Len(t) /\ i + 1 # 1
        BY <1>1
      <4>. QED  BY <1>1, <1>3, <4>1 DEF Distinct
    <3>. QED  BY <3>1 DEF Ns
  <2>3. Head(t).n \notin Ns(s)
    BY <1>2, <1>3
  <2>4. Distinct(Append(s, x))
    <3>1. Len(s) \in Nat /\ Len(Append(s, x)) = Len(s) + 1 /\ Append(s, x)[Len(s) + 1] = x
          /\ \A i \in 1 .. Len(s) : Append(s, x)[i] = s[i]
      BY LenProperties
    <3>2. \A i \in 1 .. Len(s) : s[i].n # x.n
      BY <1>6, <2>3 DEF Ns
    <3>3. ASSUME NEW i \in 1 .. Len(Append(s, x)), NEW j \in 1 .. Len(Append(s, x)), i # j
          PROVE  Append(s, x)[i].n # Append(s, x)[j].n
      <4>1. CASE i \in 1 .. Len(s) /\ j \in 1 .. Len(s)
        BY <1>3, <3>1, <3>3, <4>1 DEF Distinct
      <4>2. CASE i \notin 1 .. Len(s)
        <5>1. i = Len(s) + 1 /\ j \in 1 .. Len(s)
          BY <3>1, <3>3, <4>2
        <5>. QED  BY <3>1, <3>2, <5>1
      <4>3. CASE j \notin 1 .. Len(s)
        <5>1. j = Len(s) + 1 /\ i \in 1 .. Len(s)
          BY <3>1, <3>3, <4>3
        <5>. QED  BY <3>1, <3>2, <5>1
      <4>. QED  BY <4>1, <4>2, <4>3
    <3>. QED  BY <3>3 DEF Distinct
  <2>. QED  BY <1>2, <1>3, <1>4, <1>6, <2>1, <2>2, <2>3, <2>4 DEF ByName
<1>. QED  BY <1>5, <1>6

LEMMA ByNameEnds ==
    ASSUME TypeOK, req.protocol = "pop3", NEW s \in Seq(Shows), NEW t \in Seq(Refs), ByName(s, t),
           t = <<>> \/ (req.limit > 0 /\ Len(s) >= req.limit)
    PROVE  Fits => Ns(s) = ToShow
<1>1. CASE t = <<>>
  BY <1>1, NsNone DEF ByName
<1>2. CASE req.limit > 0 /\ Len(s) >= req.limit
  <2>. SUFFICES ASSUME Fits PROVE Ns(s) = ToShow
    OBVIOUS
  <2>. DEFINE f == [i \in 1 .. Len(s) |-> s[i].n]
  <2>0. /\ Len(s) \in Nat /\ req.limit \in Nat /\ ToShow \subseteq 1 .. Len(Box) /\ Len(Box) \in Nat
    BY LenProperties, LowestIs, Showable
  <2>1. IsFiniteSet(ToShow) /\ Cardinality(ToShow) \in Nat
    <3>1. Within(ToShow, Len(Box))
      BY <2>0, SetOfNumbers
    <3>. QED  BY <2>0, <3>1, UpToFinite
  <2>2. Cardinality(ToShow) <= req.limit
    BY <1>2, <2>0 DEF Fits
  <2>3. Ns(s) \subseteq ToShow /\ Distinct(s)
    BY DEF ByName
  <2>4. f \in Injection(1 .. Len(s), ToShow)
    BY <2>3 DEF Injection, IsInjective, Ns, Distinct
  <2>. HIDE DEF f
  <2>5. /\ Cardinality(1 .. Len(s)) <= Cardinality(ToShow)
        /\ Cardinality(1 .. Len(s)) = Cardinality(ToShow) => f \in Surjection(1 .. Len(s), ToShow)
    BY <2>1, <2>4, FS_Injection
  <2>6. Cardinality(1 .. Len(s)) = Len(s)
    <3>1. 0 \in 0 .. Len(s) /\ 0 + 1 = 1
      BY <2>0
    <3>2. Cardinality(0 + 1 .. Len(s)) = Len(s) - 0
      BY <2>0, <3>1, NthOfInterval
    <3>. QED  BY <2>0, <3>1, <3>2
  <2>7. f \in Surjection(1 .. Len(s), ToShow)
    BY <1>2, <2>0, <2>1, <2>2, <2>5, <2>6
  <2>8. \A n \in ToShow : \E i \in 1 .. Len(s) : s[i].n = n
    BY <2>7 DEF Surjection, f
  <2>. QED  BY <2>3, <2>8 DEF Ns
<1>. QED  BY <1>1, <1>2

\* What a POP3 session will be after the step.
Plain == [n \in Numbers |-> [n |-> n, id |-> 0]]
KnownThen == \A i \in 1 .. Len(todo') :
    todo'[i].n \in Numbers /\ todo'[i] = [n |-> todo'[i].n, id |-> IF unlisted' THEN 0 ELSE Box[todo'[i].n]]
ReadingThen ==
    /\ req.limit = 0 \/ Len(shown') < req.limit
    /\ Ns(shown') \cap req.old = {}
    /\ IF req.uids = <<>> THEN Down(shown', todo') ELSE ~unlisted' => ByName(shown', todo')
WholeThen == (IF req.uids = <<>> THEN Dated ELSE Fits) => Ns(shown') = ToShow

LEMMA POPThen ==
    ASSUME req' = req, legs' = legs,
           /\ step' = "uidl" => todo' = Plain
           /\ step' \in {"top", "retr"} => KnownThen
           /\ step' \in {"top", "retr"} /\ ~gaveUp' => ReadingThen
           /\ Task = "list" /\ step' = "quit" /\ ~gaveUp' /\ ~unlisted' => WholeThen
    PROVE  POPWork'
<1>1. /\ ToShow' = ToShow /\ Dated' = Dated /\ Fits' = Fits /\ Lowest' = Lowest /\ Task' = Task
  BY RequestStays DEF Task
<1>. QED  BY <1>1 DEF POPWork, Plain, KnownThen, ReadingThen, WholeThen, POPWhole, Known, Down, ByName, Distinct, Ns

\* What the listing starts from.
LEMMA Choice ==
    ASSUME TypeOK, NEW R \in Seq(Refs), Len(R) = Len(Box), NEW ok \in BOOLEAN,
           req.protocol = "pop3",
           \A n \in Numbers : R[n] = [n |-> n, id |-> IF ok THEN Box[n] ELSE 0]
    PROVE  /\ \A i \in 1 .. Len(Selected(R)) :
                 /\ Selected(R)[i].n \in Numbers
                 /\ Selected(R)[i] = [n |-> Selected(R)[i].n, id |-> IF ok THEN Box[Selected(R)[i].n] ELSE 0]
           /\ req.uids = <<>> => Down(<<>>, Selected(R))
           /\ req.uids # <<>> /\ ok => ByName(<<>>, Selected(R))
<1>. DEFINE L == Len(Box)
            sel == Selected(R)
<1>0. /\ L \in Nat /\ Numbers = 1 .. L /\ req.limit \in Nat /\ DOMAIN R = 1 .. L
      /\ Lowest = IF req.limit = 0 \/ L <= req.limit THEN 0 ELSE L - req.limit
  BY LowestIs, LenProperties
<1>4. ASSUME NEW n \in Numbers PROVE R[n].n = n
  <2>1. R[n] = [n |-> n, id |-> IF ok THEN Box[n] ELSE 0]
    OBVIOUS
  <2>. QED  BY <2>1
<1>1. ASSUME NEW i \in 1 .. Len(sel)
      PROVE  sel[i].n \in Numbers /\ sel[i] = [n |-> sel[i].n, id |-> IF ok THEN Box[sel[i].n] ELSE 0]
  <2>1. PICK j \in 1 .. L : sel[i] = R[j]
    BY SelectedIs
  <2>2. R[j] = [n |-> j, id |-> IF ok THEN Box[j] ELSE 0]
    BY <1>0, <2>1
  <2>. HIDE DEF sel
  <2>3. sel[i].n = j
    BY <2>1, <2>2
  <2>. QED  BY <1>0, <2>1, <2>2, <2>3
<1>2. ASSUME req.uids = <<>> PROVE Down(<<>>, sel)
  <2>. DEFINE new == Newest(R, req.limit)
  <2>1. sel = Reversed(new) /\ Cut(R, req.limit) = Lowest
    BY <1>0, <1>2 DEF Selected, Cut
  <2>2. /\ new \in Seq(Refs) /\ Len(new) = L - Lowest /\ Lowest \in 0 .. L
        /\ \A i \in 1 .. L - Lowest : new[i] = R[Lowest + i] /\ Lowest + i \in 1 .. L
    <3>1. /\ new \in Seq(Refs) /\ Cut(R, req.limit) \in 0 .. Len(R) /\ Len(new) = Len(R) - Cut(R, req.limit)
          /\ \A i \in 1 .. Len(R) - Cut(R, req.limit) :
                new[i] = R[Cut(R, req.limit) + i] /\ Cut(R, req.limit) + i \in 1 .. Len(R)
      BY <1>0, NewestIs
    <3>. HIDE DEF new
    <3>. QED  BY <2>1, <3>1
  <2>. HIDE DEF new, L
  <2>3. /\ Len(sel) = L - Lowest
        /\ \A i \in 1 .. L - Lowest : sel[i] = new[L - Lowest + 1 - i] /\ L - Lowest + 1 - i \in 1 .. L - Lowest
    BY <2>1, <2>2, ReversedIs
  <2>. HIDE DEF sel
  <2>4. ASSUME NEW i \in 1 .. L - Lowest PROVE sel[i].n = L - 0 + 1 - i
    <3>1. sel[i] = R[Lowest + (L - Lowest + 1 - i)] /\ Lowest + (L - Lowest + 1 - i) \in 1 .. L
      BY <2>2, <2>3
    <3>2. Lowest + (L - Lowest + 1 - i) = L + 1 - i /\ L + 1 - i = L - 0 + 1 - i
      BY <1>0, <2>2
    <3>3. sel[i] = R[L + 1 - i] /\ L + 1 - i \in Numbers
      BY <1>0, <3>1, <3>2
    <3>4. R[L + 1 - i].n = L + 1 - i
      BY <1>4, <3>3
    <3>. QED  BY <3>2, <3>3, <3>4
  <2>5. Len(<<>>) = 0 /\ Ns(<<>>) = L - 0 + 1 .. L /\ L - Lowest = L - 0 - Lowest
    <3>1. \A l, m \in Nat : l - 0 + 1 .. l = {} /\ l - m = l - 0 - m
      OBVIOUS
    <3>2. L - 0 + 1 .. L = {} /\ L - Lowest = L - 0 - Lowest
      BY <1>0, <2>2, <3>1
    <3>. QED  BY <3>2, NsNone
  <2>. QED  BY <2>3, <2>4, <2>5 DEF Down, L
<1>3. ASSUME req.uids # <<>>, ok PROVE ByName(<<>>, sel)
  <2>. DEFINE S == {i \in DOMAIN R : {R[i].id, R[i].n} \intersect Wanted # {}}
  <2>1. sel = Picked(R, S) /\ S \subseteq 1 .. Len(R)
    BY <1>0, <1>3 DEF Selected
  <2>2. S = {n \in Numbers : {n, Box[n]} \intersect Wanted # {}}
    <3>1. ASSUME NEW n \in Numbers PROVE R[n].id = Box[n] /\ R[n].n = n
      <4>1. R[n] = [n |-> n, id |-> Box[n]]
        BY <1>3
      <4>. QED  BY <4>1
    <3>. QED  BY <1>0, <3>1
  <2>. HIDE DEF S
  <2>3. Len(sel) = Cardinality(S) /\ \A i \in 1 .. Cardinality(S) : sel[i] = R[Nth(S, i)]
    <3>1. Len(Picked(R, S)) = Cardinality(S)
      BY <2>1, PickedIs
    <3>2. \A i \in 1 .. Cardinality(S) : Picked(R, S)[i] = R[Nth(S, i)]
      BY DEF Picked
    <3>. QED  BY <2>1, <3>1, <3>2
  <2>4. /\ \A i \in 1 .. Cardinality(S) : Nth(S, i) \in S
        /\ \A n \in S : \E i \in 1 .. Cardinality(S) : Nth(S, i) = n
        /\ \A i, j \in 1 .. Cardinality(S) : i # j => Nth(S, i) # Nth(S, j)
    BY <1>0, <2>1, NthAll
  <2>. HIDE DEF sel
  <2>5. ASSUME NEW i \in 1 .. Len(sel) PROVE sel[i].n = Nth(S, i) /\ i \in 1 .. Cardinality(S)
    <3>1. Nth(S, i) \in Numbers /\ i \in 1 .. Cardinality(S)
      BY <2>2, <2>3, <2>4
    <3>2. R[Nth(S, i)].n = Nth(S, i)
      BY <1>4, <3>1
    <3>. QED  BY <2>3, <3>1, <3>2
  <2>6. Distinct(sel)
    BY <2>4, <2>5 DEF Distinct
  <2>7. Ns(sel) = S
    BY <2>3, <2>4, <2>5 DEF Ns
  <2>8. ToShow = S \ req.old
    <3>1. req.protocol = "pop3" => ToShow = S \ req.old
      BY <1>3, <2>2 DEF ToShow
    <3>. QED  BY <3>1
  <2>9. Distinct(<<>>) /\ Ns(<<>>) = {}
    BY NsNone DEF Distinct
  <2>. QED  BY <2>6, <2>7, <2>8, <2>9 DEF ByName
<1>. QED  BY <1>1, <1>2, <1>3

\* The step after UIDL.
LEMMA POPChosen ==
    ASSUME IInv, NEW ok \in BOOLEAN, NEW g \in Gotten, Completing(ok, g), Going, Chosen(ok)
    PROVE  POPWork'
<1>0. /\ Active /\ Fitting /\ Protocol = "pop3" /\ Task = "list" /\ step = "uidl" /\ TypeOK /\ req' = req /\ legs' = legs
      /\ todo \in Seq(Refs) /\ req.protocol = "pop3" /\ req.limit \in Nat
  BY Completes, TheRequest DEF Completing, Chosen, Going, Goes, outcomeVars, IInv, TypeOK, Fitting
<1>. DEFINE R == IF ok THEN Oldest(Numbers) ELSE todo
<1>1. shown = <<>> /\ unlisted' = ~ok
  <2>1. Unshown
    BY DEF IInv
  <2>2. shown = <<>> /\ ~unlisted
    BY <1>0, <2>1 DEF Unshown
  <2>. QED  BY <1>0, <2>2 DEF Completing
<1>2. R \in Seq(Refs) /\ Len(R) = Len(Box) /\ \A n \in Numbers : R[n] = [n |-> n, id |-> IF ok THEN Box[n] ELSE 0]
  <2>1. CASE ok
    <3>0. Len(Box) \in Nat /\ Numbers = 1 .. Len(Box) /\ 0 \in 0 .. Len(Box) /\ Numbers = 0 + 1 .. Len(Box)
          /\ Len(Box) - 0 = Len(Box)
      BY LowestIs, <1>0
    <3>1. Cardinality(0 + 1 .. Len(Box)) = Len(Box) - 0 /\ \A i \in 1 .. Len(Box) - 0 : Nth(0 + 1 .. Len(Box), i) = 0 + i
      BY <3>0, NthOfInterval
    <3>2. Cardinality(Numbers) = Len(Box) /\ \A i \in Numbers : Nth(Numbers, i) = i
      BY <3>0, <3>1
    <3>3. /\ Oldest(Numbers) \in Seq(Refs) /\ Len(Oldest(Numbers)) = Len(Box)
          /\ \A i \in Numbers : Oldest(Numbers)[i] = [n |-> Nth(Numbers, i), id |-> Box[Nth(Numbers, i)]]
      BY <3>0, <3>2, OldestIs
    <3>. QED  BY <2>1, <3>2, <3>3
  <2>2. CASE ~ok
    <3>1. todo = Plain
      BY <1>0 DEF IInv, POPWork, Plain
    <3>2. Len(todo) = Len(Box)
      BY <3>1, PlainIs DEF Plain
    <3>3. \A n \in Numbers : todo[n] = [n |-> n, id |-> 0]
      BY <3>1 DEF Plain
    <3>. QED  BY <1>0, <2>2, <3>2, <3>3
  <2>. QED  BY <2>1, <2>2
<1>3. Looping(Selected(R)) /\ shown' = <<>>
  BY <1>1 DEF Chosen
<1>. HIDE DEF R
<1>4. /\ \A i \in 1 .. Len(Selected(R)) :
            /\ Selected(R)[i].n \in Numbers
            /\ Selected(R)[i] = [n |-> Selected(R)[i].n, id |-> IF ok THEN Box[Selected(R)[i].n] ELSE 0]
      /\ req.uids = <<>> => Down(<<>>, Selected(R))
      /\ req.uids # <<>> /\ ok => ByName(<<>>, Selected(R))
  BY <1>0, <1>2, Choice
<1>. DEFINE sel == Selected(R)
<1>5. todo' = sel /\ step' = IF sel = <<>> THEN "quit" ELSE "top"
  BY <1>0, <1>3 DEF Looping, Farewell
<1>6. sel \in Seq(Refs) /\ <<>> \in Seq(Shows) /\ Len(<<>>) = 0
  BY <1>0, <1>2, SelectedIs
<1>. HIDE DEF sel
<1>7. KnownThen
  BY <1>1, <1>4, <1>5 DEF KnownThen, sel
<1>8. step' \in {"top", "retr"} => ReadingThen
  <2>1. req.limit = 0 \/ 0 < req.limit
    BY <1>0
  <2>2. IF req.uids = <<>> THEN Down(<<>>, sel) ELSE ok => ByName(<<>>, sel)
    BY <1>4 DEF sel
  <2>. QED  BY <1>1, <1>3, <1>5, <1>6, <2>1, <2>2, NsNone DEF ReadingThen
<1>9. step' = "quit" /\ ~unlisted' => WholeThen
  <2>. SUFFICES ASSUME sel = <<>>, ok PROVE WholeThen
    BY <1>1, <1>5
  <2>1. Ns(<<>>) \cap req.old = {}
    BY NsNone
  <2>2. CASE req.uids = <<>>
    <3>1. Down(<<>>, sel)
      BY <1>4, <2>2 DEF sel
    <3>2. Dated => Ns(<<>>) = ToShow
      BY <1>0, <1>6, <2>1, <2>2, <3>1, DownEnds
    <3>. QED  BY <1>3, <2>2, <3>2 DEF WholeThen
  <2>3. CASE req.uids # <<>>
    <3>1. ByName(<<>>, sel)
      BY <1>4, <2>3 DEF sel
    <3>2. Fits => Ns(<<>>) = ToShow
      BY <1>0, <1>6, <3>1, ByNameEnds
    <3>. QED  BY <1>3, <2>3, <3>2 DEF WholeThen
  <2>. QED  BY <2>2, <2>3
<1>. QED  BY <1>0, <1>5, <1>7, <1>8, <1>9, POPThen

\* A message has been read: listed, or skipped as old.
LEMMA POPRead ==
    ASSUME IInv, NEW ok \in BOOLEAN, NEW g \in Gotten, Completing(ok, g), Going,
           Skipped(ok, g) \/ KeptOne(ok, g)
    PROVE  POPWork'
<1>0. /\ Active /\ Fitting /\ Protocol = "pop3" /\ Task = "list" /\ step \in {"top", "retr"} /\ TypeOK /\ ok
      /\ req' = req /\ legs' = legs /\ todo \in Seq(Refs) /\ shown \in Seq(Shows) /\ todo # <<>>
      /\ unlisted' = unlisted /\ gaveUp' = gaveUp /\ req.protocol = "pop3" /\ req.limit \in Nat /\ POPWork
  <2>1. Protocol = "pop3" /\ Task = "list" /\ step \in {"top", "retr"} /\ ok
    BY DEF Skipped, KeptOne
  <2>2. TypeOK /\ Placed /\ POPWork /\ Active /\ Fitting
    BY Completes DEF IInv
  <2>3. todo # <<>>
    BY <2>1, <2>2 DEF Placed, InLoop
  <2>4. gaveUp' = gaveUp /\ req' = req /\ legs' = legs
    BY <2>1 DEF Completing, Going, Goes, outcomeVars
  <2>5. unlisted' = unlisted
    BY <2>1, <2>2 DEF Completing, TypeOK
  <2>. QED  BY <2>1, <2>2, <2>3, <2>4, <2>5, TheRequest DEF TypeOK, Shows, Fitting
<1>1. \A i \in 1 .. Len(todo) : todo[i].n \in Numbers /\ todo[i] = [n |-> todo[i].n, id |-> IF unlisted THEN 0 ELSE Box[todo[i].n]]
  BY <1>0 DEF POPWork, Known
<1>2. /\ Tail(todo) \in Seq(Refs) /\ Len(Tail(todo)) = Len(todo) - 1 /\ Len(todo) \in Nat
      /\ \A i \in 1 .. Len(todo) - 1 : Tail(todo)[i] = todo[i + 1] /\ i + 1 \in 1 .. Len(todo)
  BY <1>0, HeadOf
<1>3. todo' \in {todo, Tail(todo)}
  BY DEF Skipped, KeptOne, Looping, Going, Close, Goes
<1>4. KnownThen
  <2>1. CASE todo' = todo
    BY <1>0, <1>1, <2>1 DEF KnownThen
  <2>2. CASE todo' = Tail(todo)
    <3>1. ASSUME NEW i \in 1 .. Len(todo')
          PROVE  todo'[i].n \in Numbers /\ todo'[i] = [n |-> todo'[i].n, id |-> IF unlisted' THEN 0 ELSE Box[todo'[i].n]]
      <4>1. todo'[i] = todo[i + 1] /\ i + 1 \in 1 .. Len(todo)
        BY <1>2, <2>2
      <4>. QED  BY <1>0, <1>1, <4>1
    <3>. QED  BY <3>1 DEF KnownThen
  <2>. QED  BY <1>3, <2>1, <2>2
<1>5. ASSUME ~gaveUp
      PROVE  /\ g.ref = Head(todo)
             /\ req.limit = 0 \/ Len(shown) < req.limit
             /\ Ns(shown) \cap req.old = {}
             /\ IF req.uids = <<>> THEN Down(shown, todo) ELSE ~unlisted => ByName(shown, todo)
  <2>1. g.ref = Head(todo)
    BY <1>0, <1>5 DEF Completing, Heard
  <2>. QED  BY <1>0, <1>5, <2>1 DEF POPWork
<1>6. step' \in {"quit", "top"}
  BY <1>0 DEF Skipped, KeptOne, Looping, Farewell, Close, Goto, Going
<1>7. CASE gaveUp
  BY <1>0, <1>4, <1>6, <1>7, POPThen
<1>8. CASE ~gaveUp /\ Skipped(ok, g)
  <2>1. shown' = shown /\ Head(todo).n \in req.old
    BY <1>5, <1>8 DEF Skipped
  <2>2. CASE req.uids = <<>>
    <3>1. step' = "quit"
      BY <1>8, <2>2 DEF Skipped
    <3>2. Dated => Ns(shown) = ToShow
      BY <1>0, <1>5, <1>8, <2>1, <2>2, DownEnds
    <3>3. WholeThen
      BY <2>1, <2>2, <3>2 DEF WholeThen
    <3>. QED  BY <1>0, <3>1, <3>3, POPThen
  <2>3. CASE req.uids # <<>>
    <3>1. todo' = Tail(todo) /\ step' = IF Tail(todo) = <<>> THEN "quit" ELSE "top"
      BY <1>0, <1>8, <2>3 DEF Skipped, Looping, Farewell
    <3>2. ~unlisted => ByName(shown, Tail(todo))
      BY <1>0, <1>5, <1>8, <2>1, <2>3, ByNameOn
    <3>3. ReadingThen
      BY <1>0, <1>5, <1>8, <2>1, <2>3, <3>1, <3>2 DEF ReadingThen
    <3>4. step' = "quit" /\ ~unlisted' => WholeThen
      <4>1. ASSUME Tail(todo) = <<>>, ~unlisted PROVE Fits => Ns(shown) = ToShow
        BY <1>0, <1>2, <3>2, <4>1, ByNameEnds
      <4>. QED  BY <1>0, <2>1, <2>3, <3>1, <4>1 DEF WholeThen
    <3>. QED  BY <1>0, <1>4, <1>6, <3>3, <3>4, POPThen
  <2>. QED  BY <2>2, <2>3
<1>9. CASE ~gaveUp /\ KeptOne(ok, g)
  <2>. DEFINE x == [label |-> IF Head(todo).id = 0 THEN Head(todo).n ELSE Head(todo).id, n |-> g.ref.n, full |-> g.full]
  <2>1. shown' = Append(shown, x) /\ x.n = Head(todo).n /\ x.n \notin req.old
    BY <1>5, <1>9 DEF KeptOne, Shown
  <2>2. shown' \in Seq(Shows)
    BY <1>0, OutcomeTypes DEF Completing
  <2>. HIDE DEF x
  <2>3. Ns(shown') \cap req.old = {}
    <3>1. Ns(shown') = Ns(shown) \union {x.n}
      BY <1>0, <2>1, NsMore
    <3>. QED  BY <1>5, <1>9, <2>1, <3>1
  <2>4. IF req.uids = <<>> THEN Down(shown', Tail(todo)) ELSE ~unlisted => ByName(shown', Tail(todo))
    <3>1. CASE req.uids = <<>>
      BY <1>0, <1>5, <1>9, <2>1, <3>1, DownOn
    <3>2. CASE req.uids # <<>>
      BY <1>0, <1>5, <1>9, <2>1, <3>2, ByNameOn
    <3>. QED  BY <3>1, <3>2
  <2>5. \/ step' = "quit" /\ req.limit > 0 /\ Len(shown') >= req.limit
        \/ /\ ~(req.limit > 0 /\ Len(shown') >= req.limit)
           /\ todo' = Tail(todo) /\ step' = IF Tail(todo) = <<>> THEN "quit" ELSE "top"
    BY <1>0, <1>9 DEF KeptOne, Looping, Farewell, Close, Goto, Going
  <2>6. step' = "quit" => (req.limit > 0 /\ Len(shown') >= req.limit) \/ Tail(todo) = <<>>
    BY <2>5
  <2>7. step' = "quit" /\ ~unlisted' => WholeThen
    <3>. SUFFICES ASSUME step' = "quit", ~unlisted PROVE WholeThen
      BY <1>0
    <3>1. CASE req.uids = <<>>
      <4>1. Dated => Ns(shown') = ToShow
        BY <1>0, <1>2, <2>2, <2>3, <2>4, <2>6, <3>1, DownEnds
      <4>. QED  BY <3>1, <4>1 DEF WholeThen
    <3>2. CASE req.uids # <<>>
      <4>1. Fits => Ns(shown') = ToShow
        BY <1>0, <1>2, <2>2, <2>4, <2>6, <3>2, ByNameEnds
      <4>. QED  BY <3>2, <4>1 DEF WholeThen
    <3>. QED  BY <3>1, <3>2
  <2>8. step' \in {"top", "retr"} => ReadingThen
    <3>. SUFFICES ASSUME step' = "top" PROVE ReadingThen
      BY <1>6
    <3>1. todo' = Tail(todo) /\ ~(req.limit > 0 /\ Len(shown') >= req.limit)
      BY <2>5
    <3>2. req.limit = 0 \/ Len(shown') < req.limit
      <4>1. Len(shown') \in Nat
        BY <2>2, LenProperties
      <4>. QED  BY <1>0, <3>1, <4>1
    <3>. QED  BY <1>0, <2>3, <2>4, <3>1, <3>2 DEF ReadingThen
  <2>. QED  BY <1>0, <1>4, <1>6, <2>7, <2>8, POPThen
<1>. QED  BY <1>7, <1>8, <1>9

LEMMA POPWorkNext ==
    ASSUME IInv, [Next]_vars
    PROVE  POPWork'
<1>0. POPWork /\ TypeOK
  BY DEF IInv
<1>1. CASE Dial
  BY <1>1 DEF Dial, Goto, POPWork, Active
<1>2. ASSUME req' = req, step' = step, legs' = legs, todo' = todo, shown' = shown, gaveUp' = gaveUp, unlisted' = unlisted
      PROVE  POPWork'
  <2>1. CASE Active /\ Protocol = "pop3"
    <3>1. step \in {"top", "retr"} => KnownThen
      BY <1>0, <1>2, <2>1 DEF POPWork, Known, KnownThen
    <3>2. step \in {"top", "retr"} /\ ~gaveUp => ReadingThen
      BY <1>0, <1>2, <2>1 DEF POPWork, ReadingThen
    <3>3. Task = "list" /\ step = "quit" /\ ~gaveUp /\ ~unlisted => WholeThen
      BY <1>0, <1>2, <2>1 DEF POPWork, POPWhole, WholeThen
    <3>4. step = "uidl" => todo = Plain
      BY <1>0, <2>1 DEF POPWork, Plain
    <3>. QED  BY <1>2, <3>1, <3>2, <3>3, <3>4, POPThen
  <2>2. CASE ~(Active /\ Protocol = "pop3")
    <3>1. ~(Active /\ Protocol = "pop3")'
      BY <1>2, <2>2 DEF Active, Protocol
    <3>. QED  BY <3>1 DEF POPWork
  <2>. QED  BY <2>1, <2>2
<1>3. CASE Send \/ ReadingOn \/ Serve \/ Unsolicited \/ HangUp \/ UNCHANGED vars
  <2>1. /\ req' = req /\ step' = step /\ legs' = legs /\ todo' = todo /\ shown' = shown
        /\ gaveUp' = gaveUp /\ unlisted' = unlisted
    BY <1>3 DEF Send, ReadingOn, Serve, Unsolicited, HangUp, vars, clientVars, progressVars, outcomeVars, histVars
  <2>. QED  BY <1>2, <2>1
<1>4. ASSUME NEW ok \in BOOLEAN, NEW g \in Gotten, Completing(ok, g) PROVE POPWork'
  <2>0. /\ Active /\ Fitting /\ step \in Path(legs[1]) /\ Outcome(ok, g) /\ req' = req
        /\ unlisted' = (unlisted \/ (step = "uidl" /\ ~ok)) /\ (gaveUp => gaveUp')
    BY <1>4, Completes DEF Completing
  <2>1. CASE Stopped("error") \/ Stopped("ok") \/ Handed
    BY <2>1 DEF Stopped, Handed, POPWork, Active
  <2>2. CASE Going /\ Protocol = "pop3"
    <3>1. legs' = legs
      BY <2>2 DEF Going, Goes, outcomeVars
    <3>2. CASE Moved(ok)
      <4>1. /\ todo' = todo /\ shown' = shown /\ step' \notin {"uidl", "top"}
            /\ (step' = "quit" => Task # "list") /\ (step' = "retr" => step = "top")
        BY <2>2, <3>2 DEF Moved, Moves, MovesPOP3
      <4>2. CASE step' = "retr"
        <5>1. step = "top" /\ unlisted' = unlisted
          BY <1>0, <2>0, <4>1, <4>2 DEF TypeOK
        <5>2. KnownThen
          BY <1>0, <2>0, <2>2, <4>1, <5>1 DEF POPWork, Known, KnownThen
        <5>3. ~gaveUp' => ReadingThen
          BY <1>0, <2>0, <2>2, <4>1, <5>1 DEF POPWork, ReadingThen
        <5>. QED  BY <2>0, <3>1, <4>2, <5>2, <5>3, POPThen
      <4>3. CASE step' # "retr"
        BY <2>0, <3>1, <4>1, <4>3, POPThen
      <4>. QED  BY <4>2, <4>3
    <3>3. CASE Numbered(ok)
      BY <2>0, <3>1, <3>3, POPThen DEF Numbered, Plain
    <3>4. CASE Chosen(ok)
      BY <1>4, <2>2, <3>4, POPChosen
    <3>5. CASE Skipped(ok, g) \/ KeptOne(ok, g)
      BY <1>4, <2>2, <3>5, POPRead
    <3>. QED  BY <2>0, <2>2, <3>2, <3>3, <3>4, <3>5, GoingHow
  <2>3. CASE Going /\ Protocol # "pop3"
    BY <2>3 DEF Going, Goes, outcomeVars, POPWork, Protocol
  <2>. QED  BY <1>4, <2>1, <2>2, <2>3, Completes
<1>. QED  BY <1>1, <1>3, <1>4, Kinds

-----------------------------------------------------------------------------
(* What is listed, and what an answered request has done *)

LEMMA Extended ==
    ASSUME NEW X, NEW s \in Seq(X), NEW e, NEW i \in 1 .. Len(Append(s, e))
    PROVE  Append(s, e)[i] = e \/ (i \in 1 .. Len(s) /\ Append(s, e)[i] = s[i])
<1>1. Len(s) \in Nat /\ Len(Append(s, e)) = Len(s) + 1 /\ Append(s, e)[Len(s) + 1] = e
      /\ \A j \in 1 .. Len(s) : Append(s, e)[j] = s[j]
  BY LenProperties
<1>2. i = Len(s) + 1 \/ i \in 1 .. Len(s)
  BY <1>1
<1>. QED  BY <1>1, <1>2

LEMMA LabelledNext ==
    ASSUME IInv, [Next]_vars
    PROVE  Labelled'
<1>0. TypeOK /\ Placed /\ Labelled /\ NotUnlisted /\ shown \in Seq(Shows) /\ todo \in Seq(Refs)
  BY DEF IInv, TypeOK, Shows
<1>1. ASSUME req' = req, shown' = shown, unlisted' = unlisted, intruded => intruded', gaveUp => gaveUp'
      PROVE  Labelled'
  BY <1>0, <1>1 DEF Labelled
<1>2. CASE Dial \/ Send \/ ReadingOn \/ Serve \/ HangUp \/ UNCHANGED vars
  BY <1>1, <1>2 DEF Dial, Send, ReadingOn, Serve, HangUp, vars, clientVars, progressVars, histVars
<1>3. CASE Unsolicited
  BY <1>1, <1>3 DEF Unsolicited, clientVars, progressVars
<1>4. ASSUME NEW ok \in BOOLEAN, NEW g \in Gotten, Completing(ok, g) PROVE Labelled'
  <2>0. /\ Active /\ Fitting /\ step \in Path(legs[1]) /\ Outcome(ok, g) /\ Heard(ok, g) /\ req' = req
        /\ unlisted' = (unlisted \/ (step = "uidl" /\ ~ok)) /\ (gaveUp => gaveUp') /\ intruded' = intruded
    BY <1>4, Completes DEF Completing
  <2>1. step \in InLoop => todo # <<>> /\ Head(todo) = todo[1] /\ 1 \in 1 .. Len(todo)
    BY <1>0, HeadOf DEF Placed
  <2>2. CASE FetchedOne(ok, g)
    <3>1. Protocol = "imap" /\ step = "fetch" /\ req.protocol = "imap" /\ ok /\ g.ref.n # 0 /\ ~unlisted /\ ~unlisted'
      BY <1>0, <2>0, <2>2 DEF FetchedOne, Fitting, NotUnlisted
    <3>. DEFINE x == [label |-> g.ref.id, n |-> g.ref.n, full |-> g.full]
    <3>2. shown' = Append(shown, x)
      BY <2>2 DEF FetchedOne, Shown
    <3>. SUFFICES ASSUME ~intruded, NEW i \in 1 .. Len(Append(shown, x))
                  PROVE  /\ Append(shown, x)[i].n \in Numbers
                         /\ Append(shown, x)[i].label = Box[Append(shown, x)[i].n]
      BY <2>0, <3>1, <3>2 DEF Labelled
    <3>3. g.ref = Head(todo)
      BY <2>0, <3>1 DEF Heard
    <3>4. IsRef(Head(todo))
      BY <2>0, <2>1, <3>1 DEF IInv, IMAPWork, InLoop
    <3>5. x.n \in Numbers /\ x.label = Box[x.n]
      BY <3>1, <3>3, <3>4 DEF IsRef
    <3>6. \A j \in 1 .. Len(shown) : shown[j].n \in Numbers /\ shown[j].label = Box[shown[j].n]
      BY <1>0, <3>1 DEF Labelled
    <3>. HIDE DEF x
    <3>. QED  BY <1>0, <3>5, <3>6, Extended
  <2>3. CASE KeptOne(ok, g)
    <3>1. Protocol = "pop3" /\ step \in {"top", "retr"} /\ req.protocol = "pop3" /\ ok /\ unlisted' = unlisted
      BY <1>0, <2>0, <2>3 DEF KeptOne, Fitting, TypeOK
    <3>. DEFINE x == [label |-> IF Head(todo).id = 0 THEN Head(todo).n ELSE Head(todo).id, n |-> g.ref.n, full |-> g.full]
    <3>2. shown' = Append(shown, x)
      BY <2>3 DEF KeptOne, Shown
    <3>. SUFFICES ASSUME ~gaveUp, NEW i \in 1 .. Len(Append(shown, x))
                  PROVE  /\ Append(shown, x)[i].n \in Numbers
                         /\ Append(shown, x)[i].label =
                               IF unlisted THEN Append(shown, x)[i].n ELSE Box[Append(shown, x)[i].n]
      BY <2>0, <3>1, <3>2 DEF Labelled
    <3>3. g.ref = Head(todo)
      BY <2>0, <3>1 DEF Heard
    <3>4. Head(todo).n \in Numbers /\ Head(todo) = Known(Head(todo).n)
      BY <2>0, <2>1, <3>1 DEF IInv, POPWork, InLoop
    <3>5. Head(todo).id = IF unlisted THEN 0 ELSE Box[Head(todo).n]
      BY <3>4 DEF Known
    <3>6. Box[Head(todo).n] # 0
      BY <3>4, TheBox
    <3>7. x.n \in Numbers /\ x.label = IF unlisted THEN x.n ELSE Box[x.n]
      BY <3>3, <3>4, <3>5, <3>6
    <3>8. \A j \in 1 .. Len(shown) :
             shown[j].n \in Numbers /\ shown[j].label = IF unlisted THEN shown[j].n ELSE Box[shown[j].n]
      BY <1>0, <3>1 DEF Labelled
    <3>. HIDE DEF x
    <3>. QED  BY <1>0, <3>7, <3>8, Extended
  <2>4. CASE ~FetchedOne(ok, g) /\ ~KeptOne(ok, g)
    <3>1. shown' = shown
      BY <2>0, <2>4 DEF Outcome, Ended, Left, Moved, Numbered, Chosen, AskedFor, Searched, StoredOne, Skipped, Addressed
    <3>2. CASE step = "uidl"
      <4>1. Protocol = "pop3"
        BY <2>0, <3>2 DEF Path, Protocol
      <4>2. shown = <<>>
        BY <3>2, <4>1 DEF IInv, Unshown
      <4>. QED  BY <3>1, <4>2 DEF Labelled
    <3>3. CASE step # "uidl"
      <4>1. unlisted' = unlisted
        BY <1>0, <2>0, <3>3 DEF TypeOK
      <4>. QED  BY <1>1, <2>0, <3>1, <4>1
    <3>. QED  BY <3>2, <3>3
  <2>. QED  BY <2>2, <2>3, <2>4
<1>. QED  BY <1>2, <1>3, <1>4, Kinds

LEMMA FinishedNext ==
    ASSUME IInv, [Next]_vars
    PROVE  Finished'
<1>0. TypeOK /\ Placed /\ Finished
  BY DEF IInv
<1>1. /\ req' = req /\ seen \subseteq seen' /\ (worded => worded') /\ (mailed = 1 .. Rcpts => mailed' = 1 .. Rcpts)
      /\ ToShow' = ToShow /\ Named' = Named /\ Dated' = Dated /\ Fits' = Fits
  BY ServerSteps, RequestStays
<1>2. ASSUME result' = result, shown' = shown, gaveUp => gaveUp', unlisted => unlisted' PROVE Finished'
  <2>1. POPWhole' = POPWhole /\ Ns(shown)' = Ns(shown)
    BY <1>1, <1>2 DEF POPWhole, Ns
  <2>2. Ns(shown') = Ns(shown)
    BY <1>2
  <2>. QED  BY <1>0, <1>1, <1>2, <2>1, <2>2 DEF Finished
<1>3. CASE Send \/ ReadingOn \/ Serve \/ Unsolicited \/ HangUp \/ UNCHANGED vars
  BY <1>2, <1>3 DEF Send, ReadingOn, Serve, Unsolicited, HangUp, vars, clientVars, progressVars, outcomeVars, histVars
<1>4. ASSUME result' # "ok" PROVE Finished'
  BY <1>4 DEF Finished
<1>5. CASE Dial
  BY <1>2, <1>4, <1>5 DEF Dial, histVars
<1>6. ASSUME NEW ok \in BOOLEAN, NEW g \in Gotten, Completing(ok, g) PROVE Finished'
  <2>0. /\ Active /\ Fitting /\ (gaveUp => gaveUp') /\ unlisted' = (unlisted \/ (step = "uidl" /\ ~ok))
        /\ seen' = seen /\ mailed' = mailed /\ worded' = worded /\ result = "none"
    BY <1>0, <1>6, Completes DEF Completing, TypeOK, Active
  <2>1. CASE Left /\ Stopped("ok")
    <3>1. shown' = shown /\ step = Farewell /\ Len(legs) = 1
      BY <2>1 DEF Left, Stopped
    <3>2. POPWhole' = POPWhole /\ Ns(shown)' = Ns(shown)
      BY <1>1, <3>1 DEF POPWhole, Ns
    <3>3. req.op = "list" /\ req.protocol = "imap" => Ns(shown) = ToShow
      BY <2>0, <3>1 DEF IInv, IMAPWork, Fitting, Farewell
    <3>4. req.op = "list" /\ req.protocol = "pop3" /\ ~gaveUp /\ ~unlisted => POPWhole
      BY <2>0, <3>1 DEF IInv, POPWork, Fitting, Farewell
    <3>5. req.op = "mark" /\ req.protocol = "imap" /\ ~worded => Named \subseteq seen
      BY <2>0, <3>1 DEF IInv, IMAPWork, Fitting, Farewell
    <3>6. req.op = "reply" => mailed = 1 .. Rcpts
      <4>1. req.op = "reply" => Task = "send" /\ Protocol = "smtp"
        BY <2>0, <3>1 DEF Fitting
      <4>. QED  BY <2>0, <3>1, <4>1 DEF IInv, SMTPWork, Farewell
    <3>. QED  BY <1>1, <2>0, <3>2, <3>3, <3>4, <3>5, <3>6 DEF Finished
  <2>2. CASE Stopped("error") \/ Handed \/ Going
    <3>1. result' # "ok"
      BY <2>0, <2>2 DEF Stopped, Handed, Going, Goes, outcomeVars
    <3>. QED  BY <1>4, <3>1
  <2>. QED  BY <1>6, <2>1, <2>2, Completes
<1>. QED  BY <1>3, <1>5, <1>6, Kinds

-----------------------------------------------------------------------------
(* The invariant and what it implies *)

LEMMA LegsTypes ==
    ASSUME NEW r \in Request
    PROVE  /\ Legs(r) \in Seq(Sessions) /\ Len(Legs(r)) \in Nat /\ Len(Legs(r)) <= 2
           /\ Legs(r) = <<>> => r.op = "mark" /\ r.protocol = "pop3"
<1>. DEFINE in(task)  == [protocol |-> r.protocol, task |-> task]
            out(task) == [protocol |-> "smtp", task |-> task]
<1>1. r.op \in {"login", "list", "mark", "reply"} /\ r.protocol \in {"imap", "pop3"}
  BY DEF Request
<1>2. \A t \in {"login", "list", "mark", "send"} : in(t) \in Sessions /\ out(t) \in Sessions
  BY <1>1 DEF Sessions
<1>3. \/ r.op = "login" /\ (Legs(r) = <<in("login")>> \/ Legs(r) = <<in("login"), out("login")>>)
      \/ r.op = "list" /\ Legs(r) = <<in("list")>>
      \/ r.op = "mark" /\ ((r.protocol = "pop3" /\ Legs(r) = <<>>) \/ Legs(r) = <<in("mark")>>)
      \/ r.op = "reply" /\ (Legs(r) = <<out("send")>> \/ Legs(r) = <<in("list"), out("send")>>)
  BY <1>1, LegsOf
<1>7. /\ in("login") \in Sessions /\ in("list") \in Sessions /\ in("mark") \in Sessions
      /\ out("login") \in Sessions /\ out("send") \in Sessions
  BY <1>2
<1>. HIDE DEF in, out
<1>4. ASSUME NEW s \in Sessions, NEW t \in Sessions, Legs(r) = <<s>> \/ Legs(r) = <<s, t>>
      PROVE  Legs(r) \in Seq(Sessions) /\ Len(Legs(r)) \in Nat /\ Len(Legs(r)) <= 2 /\ Legs(r) # <<>>
  <2>1. CASE Legs(r) = <<s>>
    BY <2>1
  <2>2. CASE Legs(r) = <<s, t>>
    BY <2>2
  <2>. QED  BY <1>4, <2>1, <2>2
<1>5. CASE Legs(r) = <<>>
  <2>1. r.op = "mark" /\ r.protocol = "pop3"
    <3>1. ASSUME NEW s \in Sessions, NEW t \in Sessions, Legs(r) = <<s>> \/ Legs(r) = <<s, t>> PROVE FALSE
      BY <1>4, <1>5, <3>1
    <3>. QED  BY <1>3, <1>7, <3>1
  <2>2. <<>> \in Seq(Sessions) /\ Len(<<>>) = 0
    OBVIOUS
  <2>. QED  BY <1>5, <2>1, <2>2
<1>6. CASE Legs(r) # <<>>
  <2>1. PICK s \in Sessions, t \in Sessions : Legs(r) = <<s>> \/ Legs(r) = <<s, t>>
    BY <1>3, <1>6, <1>7
  <2>. QED  BY <1>4, <2>1
<1>. QED  BY <1>5, <1>6

LEMMA InitHolds == Init => IInv
<1>. SUFFICES ASSUME Init PROVE IInv
  OBVIOUS
<1>1. /\ req \in Requests /\ req \in Request /\ legs = Legs(req)
      /\ legs \in Seq(Sessions) /\ Len(legs) <= 2 /\ (legs = <<>> => req.op = "mark" /\ req.protocol = "pop3")
  BY RequestsAssumption, LegsTypes DEF Init
<1>2. /\ conn = "none" /\ wait = "no" /\ tag = 0 /\ got = Nothing /\ caps = {} /\ todo = <<>> /\ shown = <<>>
      /\ queue = <<>> /\ wire = <<>> /\ accepted = {} /\ seen = {} /\ envelope = {} /\ mailed = {} /\ noise = 0
      /\ ~gaveUp /\ ~unlisted /\ ~worded /\ ~intruded
      /\ gaveUp \in BOOLEAN /\ unlisted \in BOOLEAN /\ worded \in BOOLEAN /\ intruded \in BOOLEAN
      /\ step \in {"dial", "over"} /\ ~Active
      /\ (step = "over" <=> legs = <<>>) /\ result = (IF legs = <<>> THEN "ok" ELSE "none")
  BY DEF Init, Active
<1>3. TypeOK
  <2>1. got \in [ref : Refs, full : BOOLEAN, auth : SUBSET Mechs]
    BY <1>2 DEF Nothing, NoRef, Refs
  <2>2. todo \in Seq(Refs) /\ shown \in Seq([label : Nat, n : Nat, full : BOOLEAN]) /\ queue \in Seq(Commands)
        /\ wire \in Seq(Lines)
    BY <1>2
  <2>3. noise \in 0 .. MaxNoise /\ tag \in Nat
    BY <1>2, BoundsAssumption
  <2>. QED  BY <1>1, <1>2, <2>1, <2>2, <2>3 DEF TypeOK, Steps
<1>4. Placed
  <2>1. result = "ok" => Len(legs) <= 1
    BY <1>2
  <2>. QED  BY <1>1, <1>2, <2>1 DEF Placed, InLoop
<1>5. Unshown
  BY <1>2 DEF Unshown
<1>6. LoggedIn
  <2>1. result = "ok" => Len(Legs(req)) = 0
    BY <1>1, <1>2
  <2>2. 1 .. 0 = {}
    OBVIOUS
  <2>. QED  BY <1>1, <1>2, <2>1, <2>2 DEF LoggedIn, Past
<1>7. QueueHarmless
  BY <1>2 DEF QueueHarmless
<1>8. IMAPWork /\ IMAPChannel /\ IMAPGot /\ StepChannel /\ SMTPWork /\ POPWork
  BY <1>2 DEF IMAPWork, IMAPChannel, IMAPGot, StepChannel, InStep, SMTPWork, POPWork
<1>9. NotUnlisted /\ Labelled /\ Traces
  BY <1>2 DEF NotUnlisted, Labelled, Traces
<1>10. Finished
  <2>1. result = "ok" => req.op = "mark" /\ req.protocol = "pop3"
    BY <1>1, <1>2
  <2>. QED  BY <2>1 DEF Finished
<1>. QED  BY <1>3, <1>4, <1>5, <1>6, <1>7, <1>8, <1>9, <1>10 DEF IInv

LEMMA NextHolds == IInv /\ [Next]_vars => IInv'
<1>. SUFFICES ASSUME IInv, [Next]_vars PROVE IInv'
  OBVIOUS
<1>1. TypeOK' /\ Placed' /\ Unshown' /\ LoggedIn' /\ QueueHarmless'
  BY TypeNext, PlacedNext, UnshownNext, LoggedInNext, QueueHarmlessNext
<1>2. IMAPWork' /\ IMAPChannel' /\ IMAPGot' /\ StepChannel' /\ SMTPWork' /\ POPWork'
  BY IMAPWorkNext, IMAPChannelNext, IMAPGotNext, StepChannelNext, SMTPWorkNext, POPWorkNext
<1>3. NotUnlisted' /\ Labelled' /\ Finished' /\ Traces'
  BY NotUnlistedNext, LabelledNext, FinishedNext, TracesNext
<1>. QED  BY <1>1, <1>2, <1>3 DEF IInv

LEMMA IInvHolds == Spec => []IInv
BY InitHolds, NextHolds, PTL DEF Spec

\* TypeOK of every reachable state: an answer is awaited on a connection only, and a
\* request has an outcome exactly when it is over.
THEOREM TypeCorrect == Spec => []TypeOK
<1>1. IInv => TypeOK
  BY DEF IInv
<1>. QED  BY <1>1, IInvHolds, PTL

\* LoginMeansAccepted of every reachable state: whatever is late, unasked or lost, a
\* request only succeeds if each of its servers has accepted the account's credentials,
\* unless a refusal had " OK" in its text.
THEOREM LoginsWereAccepted == Spec => []LoginMeansAccepted
<1>1. IInv => LoginMeansAccepted
  <2>. SUFFICES ASSUME IInv, result = "ok", ~worded, NEW i \in DOMAIN Legs(req)
                PROVE  Legs(req)[i].protocol \in accepted
    BY DEF LoginMeansAccepted
  <2>1. Legs(req) \in Seq(Sessions)
    BY TheRequest, LegsTypes DEF IInv
  <2>2. i \in 1 .. Len(Legs(req))
    BY <2>1, LenProperties
  <2>. QED  BY <2>2 DEF IInv, LoggedIn
<1>. QED  BY <1>1, IInvHolds, PTL

\* ContentUnderItsId of every reachable state: what a listing shows under an id is the
\* message with that id, unless (in IMAP) an unsolicited line named another message or
\* (in POP3) the session went on after an answer it gave up on.
THEOREM MessagesUnderTheirIds == Spec => []ContentUnderItsId
<1>1. IInv => ContentUnderItsId
  <2>. SUFFICES ASSUME IInv PROVE ContentUnderItsId
    OBVIOUS
  <2>1. DOMAIN shown = 1 .. Len(shown)
    BY LenProperties DEF IInv, TypeOK
  <2>. QED  BY <2>1 DEF IInv, Labelled, ContentUnderItsId
<1>. QED  BY <1>1, IInvHolds, PTL

\* SuccessIsComplete of every reachable state: a listing that succeeds shows exactly the
\* messages it is about, marking that succeeds has marked all that were named, and a
\* reply that succeeds was taken for every recipient.
THEOREM SuccessCoversAll == Spec => []SuccessIsComplete
<1>1. IInv => SuccessIsComplete
  <2>. SUFFICES ASSUME IInv, result = "ok", ~worded PROVE SuccessIsComplete
    BY DEF SuccessIsComplete
  <2>1. DOMAIN shown = 1 .. Len(shown)
    BY LenProperties DEF IInv, TypeOK
  <2>2. Ns(shown) = {shown[i].n : i \in DOMAIN shown}
    BY <2>1 DEF Ns
  <2>3. req.protocol \in {"imap", "pop3"}
    BY TheRequest DEF IInv
  <2>4. Finished
    BY DEF IInv
  <2>. QED  BY <2>2, <2>3, <2>4 DEF SuccessIsComplete, Finished, POPWhole, Named
<1>. QED  BY <1>1, IInvHolds, PTL

\* TracesOnlyWhereAsked of every reachable state: also when a request fails, only
\* messages it was to mark are marked, and a reply has gone to all its recipients or none.
THEOREM NothingElseIsTouched == Spec => []TracesOnlyWhereAsked
<1>1. IInv => TracesOnlyWhereAsked
  BY DEF IInv, Traces, MayMark, Named, TracesOnlyWhereAsked
<1>. QED  BY <1>1, IInvHolds, PTL

=============================================================================
