--------------------------- MODULE MCSampleRuntime ---------------------------
(***************************************************************************)
(* Model checking SampleRuntime: requests about one kind of thing at a     *)
(* time, each beside the requests that load, unload or only look.          *)
(***************************************************************************)
EXTENDS SampleRuntime

Loading == {"load", "reload", "config", "unload", "change"}

MCOffers ==
    {{"load", "create", "listItems", "change"},
     {"unload", "post", "put"},
     {"reload", "config", "create", "delete"},
     {"post", "create", "update", "remove"},
     {"card", "dropCard", "signal"},
     {"job", "startJob", "unload"},
     {"message", "clear", "stream", "unload"},
     {"auth", "publish", "status", "unload"}}

\* Where nothing else is about the file, it is there and holds no items.
Focus == offer \intersect Loading \in {{}, {"unload"}} => file = [ok |-> TRUE, ids |-> {}]

=============================================================================
