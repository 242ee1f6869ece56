----------------------------- MODULE MCFieldSet -----------------------------
(* Parsers of two or three items, of a stream of 4 units. *)
EXTENDS FieldSet

data(n) == [kind |-> "data", size |-> n]
set == [kind |-> "set", size |-> 0]
error == [kind |-> "error", size |-> 0]

MCRootScripts ==
    {<<data(1), data(2), data(3)>>, <<data(3), error>>, <<data(1), set, data(1)>>,
     <<set, data(2)>>, <<data(5), set>>, <<data(2), set, error>>,
     <<data(0), set, data(0)>>}
MCSubScripts ==
    {<<>>, <<data(1), data(1)>>, <<data(2), data(3)>>, <<data(5)>>, <<data(2), error>>,
     <<data(1), data(2), error>>, <<data(0), data(5)>>, <<data(4), error>>}
=============================================================================
