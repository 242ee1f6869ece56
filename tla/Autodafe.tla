------------------------------ MODULE Autodafe ------------------------------
(***************************************************************************)
(* The fuzzer autodafe (autodafe/src/autodafe) and its debugger adbg       *)
(* (autodafe/src/adbg).                                                    *)
(*                                                                         *)
(* The fuzzer runs a compiled script again and again.  A pass fetches the  *)
(* instructions one by one: they fill a buffer and lists of blocks,        *)
(* lengths, hashes and sends.  Then the lengths and hashes are written     *)
(* into the buffer and its blocks are sent.  The first pass is the         *)
(* original; each of the others has one case of one fuzz in the place of   *)
(* its original.  The debugger runs the target, is told the strings to     *)
(* look for before the first pass is sent, and answers with the weight of  *)
(* those that the target uses; a string without weight is not fuzzed.      *)
(***************************************************************************)
EXTENDS Integers, Sequences, FiniteSets, SequencesExt

CONSTANTS
    Script,         \* the compiled script, a sequence of instructions
    Base,           \* values of a byte
    WeightBound     \* number of strings that the target is seen to use

Bytes == Seq(0 .. Base - 1)
Instructions ==
    [op : {"data"}, bytes : Bytes]
    \cup [op : {"fuzz"}, id : Nat, kind : {"string", "hex"}, bytes : Bytes, cases : Seq(Bytes)]
    \cup [op : {"begin", "end", "send", "recv"}, block : Nat]
    \cup [op : {"size"}, block : Nat, type : {"b32", "l32", "b16", "l16", "b8", "s16", "s10"}]
    \cup [op : {"crc"}, block : Nat, type : {"b32", "l32"}]

Ids == {Script[i].id : i \in {j \in DOMAIN Script : Script[j].op = "fuzz"}}
Blocks == {Script[i].block : i \in {j \in DOMAIN Script : Script[j].op = "begin"}}

\* Where they are in the script.
InstrOf == [id \in Ids |->
    CHOOSE i \in DOMAIN Script : Script[i].op = "fuzz" /\ Script[i].id = id]
BeginOf == [b \in Blocks |->
    CHOOSE i \in DOMAIN Script : Script[i].op = "begin" /\ Script[i].block = b]
EndOf == [b \in Blocks |->
    CHOOSE i \in DOMAIN Script : Script[i].op = "end" /\ Script[i].block = b]

\* The compiler numbers the fuzzes in their order; the begins and ends of a block are
\* unique, a block that is measured, hashed or sent exists, a case is not empty.
ASSUME AutodafeAssumption ==
    /\ Script \in Seq(Instructions) /\ Base \in Nat \ {0, 1} /\ WeightBound \in Nat
    /\ Ids = 0 .. Cardinality(Ids) - 1
    /\ \A i, j \in DOMAIN Script :
          i < j => /\ Script[i].op = "fuzz" /\ Script[j].op = "fuzz" => Script[i].id < Script[j].id
                   /\ Script[i].op = Script[j].op /\ Script[i].op \in {"begin", "end"}
                        => Script[i].block # Script[j].block
    /\ \A i \in DOMAIN Script :
          Script[i].op \notin {"data", "fuzz"} =>
              \E j, k \in DOMAIN Script :
                 /\ j < k /\ Script[j].op = "begin" /\ Script[k].op = "end"
                 /\ Script[j].block = Script[i].block /\ Script[k].block = Script[i].block
    /\ \A id \in Ids : \A k \in DOMAIN Script[InstrOf[id]].cases :
          Script[InstrOf[id]].cases[k] # <<>>

VARIABLES
    conf,           \* the arguments: mode, debugger, bruteforce, invert
    pc,             \* what the fuzzer is doing: see Phases
    offset,         \* adc->offset, the next instruction
    buffer,         \* buf_fuzz up to buf_fuzz_size: the bytes, each with the instruction it
                    \* is for, 0 for those of the earlier passes
    block, length, hash, chrono,    \* the lists of the pass
    fuzz,           \* conf->fuzz: the entry of a fuzz that was met
    fuzz_current,   \* the fuzz in turn
    ring_zero,      \* the first pass is over
    count,          \* number of entries done of the list in turn: lengths, hashes or chrono
    result,         \* of start_fuzz: -1 when the run has failed, and 0 for 0, 1 and 2, which
                    \* fuzz_engine does not tell apart
    request,        \* what was written to the debugger and not read
    channel,        \* what the debugger has written and the fuzzer not read
    adbg,           \* "listen", "running", "weight" (between two writes), or gone: "closed",
                    \* "reset" when the connection was reset and no read() has failed yet
    monitored,      \* adbg's conf->string: the fuzzes whose string is looked for
    used,           \* the fuzz whose weight is being sent
    hits,           \* number of weights that were sent
    tried           \* history: the cases that were pushed, in order

lists == <<buffer, block, length, hash, chrono>>
debugger == <<request, channel, adbg, monitored, used, hits>>
progress == <<fuzz, fuzz_current, tried>>
vars == <<conf, pc, offset, lists, progress, ring_zero, count, result, debugger>>

Phases == {"hello", "ack", "started", "fetch", "length", "hash", "connect", "accept", "play",
           "select", "id", "over", "end"}
None == [msg |-> "none"]      \* nothing was requested
Garbage == -1       \* an id that no fuzz has

\* What is in the channel: a word, or the id after a "weight".
Word(word) == [word |-> word]
IdOf(id) == [word |-> "id", id |-> id]

-----------------------------------------------------------------------------
(* The buffer, the blocks and their sizes.                                  *)

\* The powers of the base; a value of 32 bits is below Power[4].
Power[k \in 0 .. 4] == IF k = 0 THEN 1 ELSE Base * Power[k - 1]

\* The bytes of n in 32 bits, most significant first; what is above is lost.
BigEndian(n) == [k \in 1 .. 4 |-> (n \div Power[4 - k]) % Base]

\* Lengths and hashes are cut out of the 32 bits of the value: int_big_endian + 2 for 16
\* bits and + 3 for 8.
Cut(type, n) ==
    LET big == BigEndian(n)
        little == Reverse(big)
    IN CASE type = "b32" -> big
         [] type = "l32" -> little
         [] type = "b16" -> SubSeq(big, 3, 4)
         [] type = "l16" -> SubSeq(little, 3, 4)
         [] type = "b8" -> SubSeq(big, 4, 4)

Width(type) == CASE type \in {"b32", "l32"} -> 4 [] type \in {"b16", "l16"} -> 2
                 [] type = "b8" -> 1 [] OTHER -> 0

\* A digest of bytes in 32 bits, for the CRC of hash.c.
Digest(bytes) ==
    LET check[k \in 0 .. Len(bytes)] ==
            IF k = 0 THEN 0 ELSE (3 * check[k - 1] + bytes[k] + 1) % Power[4]
    IN check[Len(bytes)]

Raw(cells) == [k \in DOMAIN cells |-> cells[k].byte]
Content(b) == SubSeq(buffer, b.offset + 1, b.offset + b.size)

\* The first block with an id: the lists are searched from their head.
Find(id) == block[CHOOSE k \in DOMAIN block :
                     block[k].id = id /\ \A j \in 1 .. k - 1 : block[j].id # id]

\* Mutant of update_block_size: closed blocks grow on.
update_all_blocks(size) == [k \in DOMAIN block |-> [block[k] EXCEPT !.size = @ + size]]

update_block_size(size) ==
    [k \in DOMAIN block |-> IF block[k].open THEN [block[k] EXCEPT !.size = @ + size] ELSE block[k]]

push_data(bytes) ==
    /\ buffer' = buffer \o [k \in DOMAIN bytes |-> [by |-> offset, byte |-> bytes[k]]]
    /\ block' = update_block_size(Len(bytes))

\* The bytes of an entry of the lengths or hashes.
modify_data(entry, bytes) ==
    buffer' = [k \in DOMAIN buffer |->
                 IF k - entry.offset \in DOMAIN bytes
                 THEN [buffer[k] EXCEPT !.byte = bytes[k - entry.offset]] ELSE buffer[k]]

-----------------------------------------------------------------------------
(* The instructions.                                                        *)

Instr == Script[offset]

\* fetch_instruction: the instruction at the offset has one of these opcodes.
Fetch(ops) ==
    /\ pc = "fetch" /\ offset <= Len(Script) /\ Instr.op \in ops
    /\ offset' = offset + 1
    /\ UNCHANGED <<conf, ring_zero, count, result, channel, adbg, monitored, used, hits>>

Data ==
    /\ Fetch({"data"})
    /\ push_data(Instr.bytes)
    /\ UNCHANGED <<pc, length, hash, chrono, progress, request>>

\* opcode_hf_string and opcode_hf_hex for a fuzz that keeps its original: the debugger is
\* told the string in the first pass, and has to acknowledge it.
Original ==
    /\ push_data(Instr.bytes)
    /\ IF Instr.kind = "string" /\ conf.dbg /\ ~ring_zero
       THEN pc' = "ack" /\ request' = [msg |-> "string", id |-> Instr.id]
       ELSE UNCHANGED <<pc, request>>
    /\ UNCHANGED <<length, hash, chrono, tried>>

\* fuzz_core with no entry for the id.
NewFuzz ==
    /\ Fetch({"fuzz"}) /\ Instr.id \notin DOMAIN fuzz
    /\ fuzz' = [id \in DOMAIN fuzz \cup {Instr.id} |->
                  IF id \in DOMAIN fuzz THEN fuzz[id]
                  ELSE [current |-> 0, total |-> Len(Instr.cases),
                        weight |-> IF Instr.kind = "string" THEN 0 ELSE 1]]
    /\ Original
    /\ UNCHANGED fuzz_current

Relevant(id) == conf.dbg /\ ~conf.bruteforce => fuzz[id].weight > 0
Left(id) == Relevant(id) /\ fuzz[id].current < fuzz[id].total

\* Mutant of TryCase: the turn is passed on with the last case.
TryAndPass ==
    /\ Fetch({"fuzz"}) /\ Instr.id \in DOMAIN fuzz
    /\ fuzz_current = Instr.id /\ Left(Instr.id)
    /\ push_data(Instr.cases[fuzz[Instr.id].current + 1])
    /\ fuzz' = [fuzz EXCEPT ![Instr.id].current = @ + 1]
    /\ tried' = Append(tried, <<Instr.id, fuzz[Instr.id].current + 1>>)
    /\ fuzz_current' = IF fuzz[Instr.id].current + 1 = fuzz[Instr.id].total
                       THEN fuzz_current + 1 ELSE fuzz_current
    /\ UNCHANGED <<pc, length, hash, chrono, request>>

\* It is in turn and has a case left, which takes the place of the original.
TryCase ==
    /\ Fetch({"fuzz"}) /\ Instr.id \in DOMAIN fuzz
    /\ fuzz_current = Instr.id /\ Left(Instr.id)
    /\ push_data(Instr.cases[fuzz[Instr.id].current + 1])
    /\ fuzz' = [fuzz EXCEPT ![Instr.id].current = @ + 1]
    /\ tried' = Append(tried, <<Instr.id, fuzz[Instr.id].current + 1>>)
    /\ UNCHANGED <<pc, length, hash, chrono, fuzz_current, request>>

\* It is in turn and has none, or is not relevant: the turn goes to the next one.
NextFuzz ==
    /\ Fetch({"fuzz"}) /\ Instr.id \in DOMAIN fuzz
    /\ fuzz_current = Instr.id /\ ~Left(Instr.id)
    /\ fuzz' = IF Relevant(Instr.id) THEN fuzz
               ELSE [fuzz EXCEPT ![Instr.id].current = fuzz[Instr.id].total]
    /\ fuzz_current' = fuzz_current + 1
    /\ Original

OutOfTurn ==
    /\ Fetch({"fuzz"}) /\ Instr.id \in DOMAIN fuzz /\ fuzz_current # Instr.id
    /\ Original
    /\ UNCHANGED <<fuzz, fuzz_current>>

BlockBegin ==
    /\ Fetch({"begin"})
    /\ block' = Append(block, [id |-> Instr.block, size |-> 0, offset |-> Len(buffer), open |-> TRUE])
    /\ UNCHANGED <<pc, buffer, length, hash, chrono, progress, request>>

BlockEnd ==
    /\ Fetch({"end"})
    /\ LET first == CHOOSE k \in DOMAIN block : block[k] = Find(Instr.block)
       IN block' = [block EXCEPT ![first].open = FALSE]
    /\ UNCHANGED <<pc, buffer, length, hash, chrono, progress, request>>

\* push_length: a dummy of the width of the field; none for the two kinds of strings.
PushLength ==
    /\ Fetch({"size"})
    /\ length' = Append(length, [id |-> Instr.block, type |-> Instr.type, offset |-> Len(buffer)])
    /\ push_data([k \in 1 .. Width(Instr.type) |-> Base - 1])
    /\ UNCHANGED <<pc, hash, chrono, progress, request>>

PushHash ==
    /\ Fetch({"crc"})
    /\ hash' = Append(hash, [id |-> Instr.block, type |-> Instr.type, offset |-> Len(buffer)])
    /\ push_data([k \in 1 .. 4 |-> 0])
    /\ UNCHANGED <<pc, length, chrono, progress, request>>

SendOrRecv ==
    /\ Fetch({"send", "recv"})
    /\ chrono' = Append(chrono, [id |-> Instr.block, send |-> Instr.op = "send"])
    /\ UNCHANGED <<pc, buffer, block, length, hash, progress, request>>

-----------------------------------------------------------------------------
(* A pass after its instructions.                                           *)

\* The lists of the pass are complete; update_length and update_hash go over theirs.
Lists(phase) ==
    /\ pc = phase
    /\ UNCHANGED <<conf, offset, block, length, hash, chrono, progress, ring_zero, result,
                   channel, adbg, monitored, used, hits>>

Parsed ==
    /\ Lists("fetch") /\ offset > Len(Script)
    /\ pc' = "length" /\ count' = 0
    /\ UNCHANGED <<buffer, request>>

UpdateLength ==
    /\ Lists("length") /\ count < Len(length)
    /\ count' = count + 1
    /\ LET l == length[count + 1]
       IN IF Width(l.type) = 0 THEN UNCHANGED buffer
          ELSE modify_data(l, Cut(l.type, Find(l.id).size))
    /\ UNCHANGED <<pc, request>>

LengthsUpdated ==
    /\ Lists("length") /\ count = Len(length)
    /\ pc' = "hash" /\ count' = 0
    /\ UNCHANGED <<buffer, request>>

UpdateHash ==
    /\ Lists("hash") /\ count < Len(hash)
    /\ count' = count + 1
    /\ LET h == hash[count + 1]
       IN \E crc \in {Digest(Raw(Content(Find(h.id))))} : modify_data(h, Cut(h.type, crc))
    /\ UNCHANGED <<pc, request>>

\* In the first pass the debugger is told to start the target.
HashesUpdated ==
    /\ Lists("hash") /\ count = Len(hash)
    /\ IF conf.dbg /\ ~ring_zero
       THEN pc' = "started" /\ request' = [msg |-> "start"]
       ELSE pc' = "connect" /\ UNCHANGED request
    /\ UNCHANGED <<buffer, count>>

InPass(phase) ==
    /\ pc = phase
    /\ UNCHANGED <<conf, offset, lists, fuzz_current, tried, ring_zero>>

Quiet == UNCHANGED <<fuzz, debugger>>

Over(code) == pc' = "over" /\ result' = code /\ UNCHANGED count

\* client_fuzz up to the connection, file_fuzz up to the open file.
Connect ==
    /\ InPass("connect") /\ Quiet /\ conf.mode # "server"
    /\ \/ pc' = "play" /\ count' = 0 /\ UNCHANGED result
       \/ Over(-1)

\* server_fuzz up to accept(): a new socket in each pass.
Listen ==
    /\ InPass("connect") /\ Quiet /\ conf.mode = "server"
    /\ \/ pc' = "accept" /\ UNCHANGED <<count, result>>
       \/ Over(-1)

\* accept() returns.  An error is not looked at: the sends and receives fail then.
Accept ==
    /\ InPass("accept") /\ Quiet
    /\ pc' = "play" /\ count' = 0
    /\ UNCHANGED result

Playing == count < Len(chrono)
Entry == chrono[count + 1]
Sends == Entry.send # conf.invert
Skipped == \/ Find(Entry.id).size = 0
           \/ ~Sends /\ conf.mode = "file"

\* An empty block, or a receive of a file.
PlayNothing ==
    /\ InPass("play") /\ Quiet /\ Playing /\ Skipped
    /\ count' = count + 1
    /\ UNCHANGED <<pc, result>>

\* sendto() returns: sent, broken pipe (1), or another error; with a debugger, a second is
\* waited then.
SendFuzz ==
    /\ InPass("play") /\ Quiet /\ Playing /\ ~Skipped /\ Sends /\ conf.mode # "file"
    /\ \/ /\ pc' = (IF conf.dbg THEN "select" ELSE "play")
          /\ count' = count + 1
          /\ UNCHANGED result
       \/ Over(0)
       \/ Over(-1)

\* The fwrite() of send_fuzz.
WriteFuzz ==
    /\ InPass("play") /\ Quiet /\ Playing /\ ~Skipped /\ Sends /\ conf.mode = "file"
    /\ \/ /\ count' = count + 1
          /\ UNCHANGED <<pc, result>>
       \/ Over(-1)

\* recv_fuzz: data; closed by the peer or nothing in time (2); an error of select.
RecvFuzz ==
    /\ InPass("play") /\ Quiet /\ Playing /\ ~Skipped /\ ~Sends
    /\ \/ /\ count' = count + 1
          /\ UNCHANGED <<pc, result>>
       \/ Over(0)
       \/ Over(-1)

\* The end of the list; a file may fail to be closed.
PlayDone ==
    /\ InPass("play") /\ Quiet /\ ~Playing
    /\ \/ Over(0)
       \/ conf.mode = "file" /\ Over(-1)

fuzz_finished == \A id \in DOMAIN fuzz : fuzz[id].current >= fuzz[id].total

\* The end of the loop: the lists of the pass are freed, and so is the buffer, but its size
\* is kept.  The next pass writes behind it, and nobody reads what is before.  After the
\* first pass the file for the debugger may fail to be closed.
EndPass ==
    /\ pc = "over"
    /\ offset' = 1
    /\ buffer' = [k \in DOMAIN buffer |-> [by |-> 0, byte |-> 0]]
    /\ block' = <<>> /\ length' = <<>> /\ hash' = <<>> /\ chrono' = <<>>
    /\ \/ /\ pc' = IF fuzz_finished \/ result = -1 THEN "end" ELSE "fetch"
          /\ ring_zero' = TRUE
          /\ UNCHANGED result
       \/ /\ conf.mode = "file" /\ ~ring_zero
          /\ pc' = "end" /\ result' = -1
          /\ UNCHANGED ring_zero
    /\ UNCHANGED <<conf, progress, count, debugger>>

-----------------------------------------------------------------------------
(* The fuzzer reads from the debugger.                                      *)

Take ==
    /\ channel # <<>> /\ channel' = Tail(channel)
    /\ UNCHANGED <<request, adbg, monitored, used, hits>>

\* dbg_read at the end of the connection: no bytes, an error; or read() fails, once after a
\* reset.  The -1 is taken for data (the number of bytes is unsigned), and the caller goes on
\* with what was in memory.
Eof == channel = <<>> /\ adbg = "closed" /\ UNCHANGED debugger
ReadFails ==
    /\ channel = <<>> /\ adbg = "reset" /\ adbg' = "closed"
    /\ UNCHANGED <<request, channel, monitored, used, hits>>

\* dbg_connection: the debugger is there and is sent the version, or is not.
Hello ==
    /\ pc = "hello"
    /\ \/ /\ adbg = "listen"
          /\ pc' = "ack" /\ request' = [msg |-> "version"]
          /\ UNCHANGED result
       \/ /\ pc' = "end" /\ result' = -1
          /\ UNCHANGED request
    /\ UNCHANGED <<conf, offset, lists, progress, ring_zero, count, channel, adbg, monitored,
                   used, hits>>

\* dbg_wait_for_ack.  What was in memory is perhaps the last INET_ACK_MSG.
WaitForAck ==
    /\ pc \in {"ack", "started"}
    /\ \E acked \in BOOLEAN :
          /\ \/ Take /\ acked = (Head(channel) = Word("ack"))
             \/ Eof /\ ~acked
             \/ ReadFails
          /\ IF acked THEN pc' = (IF pc = "ack" THEN "fetch" ELSE "connect") /\ UNCHANGED result
             ELSE pc' = "end" /\ result' = -1
    /\ UNCHANGED <<conf, offset, lists, progress, ring_zero, count>>

\* The select of send_fuzz: nothing to read for a second.
NothingSaid ==
    /\ InPass("select") /\ Quiet
    /\ channel = <<>> /\ adbg \notin {"closed", "reset"}
    /\ pc' = "play"
    /\ UNCHANGED <<count, result>>

\* Mutant of ReadMsg: the id of a weight is left in the connection.
ReadMsgOnly ==
    /\ InPass("select")
    /\ \/ Take /\ Head(channel) = Word("weight") /\ pc' = "play" /\ UNCHANGED <<count, result>>
       \/ Take /\ Head(channel) # Word("weight") /\ Over(-1)
       \/ (Eof \/ ReadFails) /\ Over(-1)
    /\ UNCHANGED fuzz

\* dbg_read_msg: a weight, or anything else, after which the run ends.  What was in
\* memory is perhaps the last INET_WEIGHT_MSG.
ReadMsg ==
    /\ InPass("select")
    /\ \/ Take /\ Head(channel) = Word("weight") /\ pc' = "id" /\ UNCHANGED <<count, result>>
       \/ Take /\ Head(channel) # Word("weight") /\ Over(-1)
       \/ Eof /\ Over(-1)
       \/ ReadFails /\ (Over(-1) \/ (pc' = "id" /\ UNCHANGED <<count, result>>))
    /\ UNCHANGED fuzz

\* The id of the weight; an error is not looked at, and the id is anything.
ReadId ==
    /\ InPass("id")
    /\ \E id \in Ids \cup {Garbage} :
          /\ \/ Take /\ Head(channel) = IdOf(id)
             \/ Eof
             \/ ReadFails
          /\ IF id \in DOMAIN fuzz
             THEN /\ fuzz' = [fuzz EXCEPT ![id].weight = @ + 1]
                  /\ pc' = "play" /\ UNCHANGED <<count, result>>
             ELSE Over(-1) /\ UNCHANGED fuzz

-----------------------------------------------------------------------------
(* The debugger.                                                            *)

Say(words) == channel' = channel \o words

Debugs(states) ==
    /\ pc # "end" /\ adbg \in states
    /\ UNCHANGED <<conf, pc, offset, lists, progress, ring_zero, count, result>>

\* Mutant of Answer: the start is not acknowledged ("and no more ack").
AnswerButStart ==
    /\ Debugs({"listen"}) /\ request # None
    /\ Say(IF request.msg = "start" THEN <<>> ELSE <<Word("ack")>>) /\ request' = None
    /\ adbg' = IF request.msg = "start" THEN "running" ELSE adbg
    /\ monitored' = IF request.msg = "string" THEN monitored \cup {request.id} ELSE monitored
    /\ UNCHANGED <<used, hits>>

\* inet_decode_msg; a string that is monitored already is only acknowledged.
Answer ==
    /\ Debugs({"listen"}) /\ request # None
    /\ Say(<<Word("ack")>>) /\ request' = None
    /\ adbg' = IF request.msg = "start" THEN "running" ELSE adbg
    /\ monitored' = IF request.msg = "string" THEN monitored \cup {request.id} ELSE monitored
    /\ UNCHANGED <<used, hits>>

\* gdb_break_string: a function of the target is given one of the strings.
Hit ==
    /\ Debugs({"running"}) /\ hits < WeightBound
    /\ Say(<<Word("weight")>>) /\ used' \in monitored
    /\ adbg' = "weight" /\ hits' = hits + 1
    /\ UNCHANGED <<request, monitored>>

\* The second write of inet_send_msg.
SayId ==
    /\ Debugs({"weight"})
    /\ Say(<<IdOf(used)>>)
    /\ adbg' = "running"
    /\ UNCHANGED <<request, monitored, used, hits>>

\* A segmentation fault or the exit of the target; the debugger ends.
TargetEnds ==
    /\ Debugs({"running"})
    /\ \/ Say(<<Word("sigsegv")>>)
       \/ Say(<<Word("exit")>>)
    /\ adbg' \in {"closed", "reset"}
    /\ UNCHANGED <<request, monitored, used, hits>>

\* CTRL-C on adbg.
Interrupt ==
    /\ Debugs({"listen", "running", "weight"})
    /\ adbg' \in {"closed", "reset"}
    /\ UNCHANGED <<request, channel, monitored, used, hits>>

-----------------------------------------------------------------------------

\* main refuses a file with a debugger.
Init ==
    /\ conf \in [mode : {"client", "server", "file"}, dbg : BOOLEAN, bruteforce : BOOLEAN,
                invert : BOOLEAN]
    /\ conf.dbg => conf.mode # "file"
    /\ pc = IF conf.dbg THEN "hello" ELSE "fetch"
    /\ offset = 1 /\ ring_zero = FALSE /\ count = 0 /\ result = 0
    /\ buffer = <<>> /\ block = <<>> /\ length = <<>> /\ hash = <<>> /\ chrono = <<>>
    /\ fuzz = <<>> /\ fuzz_current = 0 /\ tried = <<>>
    /\ request = None /\ channel = <<>> /\ monitored = {} /\ used = 0 /\ hits = 0
    /\ adbg = IF conf.dbg THEN "listen" ELSE "closed"

\* What the fuzzer does on its own or within the timeout of a select.
Runs ==
    \/ Data \/ NewFuzz \/ TryCase \/ NextFuzz \/ OutOfTurn
    \/ BlockBegin \/ BlockEnd \/ PushLength \/ PushHash \/ SendOrRecv
    \/ Parsed \/ UpdateLength \/ LengthsUpdated \/ UpdateHash \/ HashesUpdated
    \/ Connect \/ Listen \/ PlayNothing \/ WriteFuzz \/ RecvFuzz \/ PlayDone \/ EndPass
    \/ Hello \/ WaitForAck \/ NothingSaid \/ ReadMsg \/ ReadId

\* accept() and sendto() have no timeout: they return when the target connects or reads.
Waits == Accept \/ SendFuzz

Fuzzer == Runs \/ Waits

Adbg == Answer \/ Hit \/ SayId \/ TargetEnds \/ Interrupt

Next == Fuzzer \/ Adbg

\* The fuzzer is never suspended for ever, and the debugger answers what it has read and
\* writes what it has begun; the target may do what it likes, also never connect or read.
Fairness == WF_<<pc, offset, count>>(Runs) /\ WF_vars(Answer) /\ WF_vars(SayId)

Spec == Init /\ [][Next]_vars /\ Fairness

-----------------------------------------------------------------------------
(* Correctness.                                                             *)

\* The state of the run is what its type says.
TypeOK ==
    /\ pc \in Phases /\ offset \in 1 .. Len(Script) + 1 /\ result \in {-1, 0}
    /\ DOMAIN fuzz \subseteq Ids /\ fuzz_current \in 0 .. Cardinality(Ids)
    /\ \A id \in DOMAIN fuzz :
          /\ fuzz[id].total = Len(Script[InstrOf[id]].cases)
          /\ fuzz[id].current \in 0 .. fuzz[id].total /\ fuzz[id].weight \in Nat
    /\ adbg \in {"listen", "running", "weight", "closed", "reset"} /\ monitored \subseteq Ids
    /\ count \in 0 .. Len(Script) /\ hits \in 0 .. WeightBound

CasesOf(id) == DOMAIN Script[InstrOf[id]].cases
TriedOf(id) == {tried[i][2] : i \in {j \in DOMAIN tried : tried[j][1] = id}}
MaySkip(id) == conf.dbg /\ ~conf.bruteforce /\ Script[InstrOf[id]].kind = "string"

\* What a fuzz instruction has put into the buffer of this pass is nothing or its original.
CellsBy(i) == {k \in DOMAIN buffer : buffer[k].by = i}
Kept(id) ==
    LET bytes == Script[InstrOf[id]].bytes
        cells == CellsBy(InstrOf[id])
    IN \/ cells = {}
       \/ \E p \in 0 .. Len(buffer) :
             /\ cells = p + 1 .. p + Len(bytes)
             /\ \A k \in DOMAIN bytes : buffer[p + k].byte = bytes[k]
Changed == {id \in Ids : ~Kept(id)}

\* fuzz_core tries every case of every fuzz once, in the order of the fuzzes and of their
\* sources, and one in a pass: the turn, the counters of the fuzzes and the end of the run
\* are three counts kept in different places.  Only a string that has got no weight may be
\* left out, and then it is left out completely.
EachCaseOnce ==
    /\ TypeOK
    /\ \A i, j \in DOMAIN tried :
          i < j => \/ tried[i][1] < tried[j][1]
                   \/ tried[i][1] = tried[j][1] /\ tried[i][2] < tried[j][2]
    /\ \A id \in Ids :
          /\ \E n \in CasesOf(id) \cup {0} : TriedOf(id) = 1 .. n
          /\ id < fuzz_current \/ (pc = "end" /\ result # -1) =>
                TriedOf(id) = CasesOf(id) \/ (MaySkip(id) /\ TriedOf(id) = {})
    /\ \A id1, id2 \in Changed : id1 = id2

\* The cells for some places of the script, in the order of the buffer.
CellsIn(places) ==
    LET at == {k \in DOMAIN buffer : buffer[k].by \in places}
    IN [n \in 1 .. Cardinality(at) |->
          buffer[CHOOSE k \in at : Cardinality({j \in at : j <= k}) = n]]

\* The cells of a block, from its place in the script and not from its offset and size.
CellsOf(b) == CellsIn(BeginOf[b] + 1 .. EndOf[b] - 1)

\* The number that has these digits, most significant first.
Value(digits) ==
    LET value[k \in 0 .. Len(digits)] == IF k = 0 THEN 0 ELSE value[k - 1] * Base + digits[k]
    IN value[Len(digits)]

\* What a receiver reads in the field of a length or hash instruction.
FieldOf(i) ==
    LET bytes == Raw(CellsIn({i}))
    IN Value(IF Script[i].type = "l32" THEN Reverse(bytes) ELSE bytes)
Blank(cells, i) ==
    [k \in DOMAIN cells |-> IF cells[k].by = i THEN [cells[k] EXCEPT !.byte = 0] ELSE cells[k]]
Holds(b, i) == BeginOf[b] < i /\ i < EndOf[b]
IsHash(i) == Script[i].op = "crc"

\* What is sent is consistent whatever case is in it: a block is sent from its begin to its
\* end, the lengths are those of their blocks and the hashes those of what is sent.  The
\* lengths and hashes are part of blocks themselves, and are written one after the other
\* into the buffer they are computed from.  Left out: l16, which gets the other half of the
\* length (engine.c:361-362); the strings, which are not written; and a hash of a block that
\* holds a later hash, which is still zero then.
FieldsAgree ==
    pc \in {"connect", "accept", "play", "select"} =>
        /\ \A b \in Blocks : Content(Find(b)) = CellsOf(b)
        /\ \A i \in DOMAIN Script :
              /\ Script[i].op = "size" /\ Script[i].type \notin {"l16", "s16", "s10"} =>
                    FieldOf(i) = Len(CellsOf(Script[i].block)) % Power[Width(Script[i].type)]
              /\ IsHash(i) /\ (\A j \in i + 1 .. Len(Script) : IsHash(j) => ~Holds(Script[i].block, j)) =>
                    FieldOf(i) = Digest(Raw(Blank(CellsOf(Script[i].block), i)))

\* The two sides agree on what comes next: an acknowledgement is read where one is waited
\* for and nowhere else, an id after its weight and nowhere else, and the id is one of a
\* string of the script.
DebuggerUnderstood ==
    channel # <<>> =>
        CASE pc \in {"ack", "started"} -> Head(channel) = Word("ack")
          [] pc = "id" -> \E id \in DOMAIN fuzz : Head(channel) = IdOf(id)
          [] pc = "end" -> TRUE
          [] OTHER -> Head(channel).word \in {"weight", "sigsegv", "exit"}

WaitsForTarget ==
    \/ pc = "accept"
    \/ pc = "play" /\ Playing /\ ~Skipped /\ Sends /\ conf.mode # "file"

\* The run ends, or the fuzzer waits for the target in accept() or sendto() for ever, and
\* nowhere else: no pass is without progress, none follows the last one, and the fuzzer
\* never waits for a message of the debugger that does not come.  The debugger and the
\* target may die at any time.
RunEnds == <>(pc = "end") \/ <>[]WaitsForTarget
=============================================================================
