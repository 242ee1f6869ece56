----------------------------- MODULE MCAutodafe -----------------------------
(* A script of two sends with a receive between them: two strings and one hexadecimal
   fuzz, one of them without cases, in nested blocks that are measured and hashed.     *)
EXTENDS Autodafe

begin(b) == [op |-> "begin", block |-> b]
end(b) == [op |-> "end", block |-> b]
size(b, t) == [op |-> "size", block |-> b, type |-> t]
crc(b, t) == [op |-> "crc", block |-> b, type |-> t]

MCScript == <<
    begin(0), size(1, "l32"), crc(0, "b32"),
    begin(1),
    [op |-> "fuzz", id |-> 0, kind |-> "string", bytes |-> <<1, 1>>,
     cases |-> << <<3>>, <<2, 2, 2, 2, 2>> >>],
    size(0, "b8"), [op |-> "data", bytes |-> <<3>>], size(1, "l16"), size(0, "s10"),
    end(1), end(0),
    begin(2), end(2),
    begin(4), size(1, "b16"),
    [op |-> "fuzz", id |-> 1, kind |-> "hex", bytes |-> <<2>>, cases |-> << >>],
    [op |-> "fuzz", id |-> 2, kind |-> "string", bytes |-> <<2>>, cases |-> << <<1, 2, 3>> >>],
    crc(1, "l32"), size(0, "b32"),
    end(4),
    [op |-> "send", block |-> 0], [op |-> "send", block |-> 2], [op |-> "recv", block |-> 1],
    [op |-> "send", block |-> 4] >>
=============================================================================
