--------------------------- MODULE MCJobPublisher ---------------------------
(* Two goroutines publish through one client per set, the default. *)
EXTENDS JobPublisher
CONSTANTS c1, c2
TwoCallers == {c1, c2}

\* Three channels in a row, a connection after a channel, and one of the rest: enough
\* for the largest number of copies, and for one more.
SomeFaults == [kind \in {"connection", "channel", "context", "nack", "reopen"} |->
                 CASE kind = "channel" -> 3 [] kind = "connection" -> 2 [] OTHER -> 1]
====
