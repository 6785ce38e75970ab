---------------------------- MODULE MCMailSession ----------------------------
(***************************************************************************)
(* Model checking MailSession: the requests that take different paths.     *)
(* The mailbox has an id that is another message's number.                 *)
(***************************************************************************)
EXTENDS MailSession

MCBox == <<2, 5, 9>>

Plain == [op |-> "list", protocol |-> "imap", startTLS |-> FALSE, smtp |-> FALSE, uids |-> <<>>,
          markSeen |-> FALSE, body |-> FALSE, limit |-> 0, old |-> {}]

Imap ==
    {[Plain EXCEPT !.op = "login", !.smtp = TRUE],
     [Plain EXCEPT !.startTLS = TRUE, !.limit = 1, !.old = {1}],
     [Plain EXCEPT !.markSeen = TRUE],
     [Plain EXCEPT !.uids = <<9, 2>>, !.body = TRUE],
     [Plain EXCEPT !.op = "mark", !.uids = <<2, 5>>, !.markSeen = TRUE],
     [Plain EXCEPT !.op = "reply", !.uids = <<5>>]}

Pop3 ==
    {[Plain EXCEPT !.protocol = "pop3", !.op = "login", !.startTLS = TRUE],
     [Plain EXCEPT !.protocol = "pop3", !.limit = 2],
     [Plain EXCEPT !.protocol = "pop3", !.body = TRUE],
     [Plain EXCEPT !.protocol = "pop3", !.uids = <<2>>, !.body = TRUE, !.old = {1}],
     [Plain EXCEPT !.protocol = "pop3", !.op = "mark", !.uids = <<2>>, !.markSeen = TRUE],
     [Plain EXCEPT !.protocol = "pop3", !.op = "reply", !.startTLS = TRUE],
     [Plain EXCEPT !.protocol = "pop3", !.op = "reply", !.uids = <<5>>, !.limit = 1]}
    \union {[Plain EXCEPT !.protocol = "pop3", !.limit = 2, !.old = old] : old \in {{1}, {2}, {1, 2}}}
    \union {[Plain EXCEPT !.protocol = "pop3", !.limit = 2, !.uids = uids] : uids \in {<<2>>, <<2, 9>>}}

MCRequests == Imap \union Pop3

=============================================================================
