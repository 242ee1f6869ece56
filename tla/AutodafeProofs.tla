---------------------------- MODULE AutodafeProofs ----------------------------
(***************************************************************************)
(* Proofs of DebuggerUnderstood, EachCaseOnce and FieldsAgree for every    *)
(* script.                                                                 *)
(*                                                                         *)
(* ProtoInv says what may be in the connection: an acknowledgement when    *)
(* the fuzzer waits for one, then weights, each with its id, and the end   *)
(* of the target.  TurnInv relates the turn, the counters and the history  *)
(* of the fuzzes; PhaseInv what was met of the script; PassInv where in    *)
(* the buffer the one case of a pass can be.                               *)
(*                                                                         *)
(* BlockInv says that the entry of a block spans the cells for what stands *)
(* between its begin and its end; PlaceInv that the entries of the lengths *)
(* and hashes lie where their instructions put them; FieldInv what has     *)
(* been written in them so far.                                            *)
(***************************************************************************)
EXTENDS Autodafe, SequenceTheorems, FiniteSetTheorems, WellFoundedInduction, TLAPS

Parsing == {"fetch", "length", "hash"}
Sending == {"connect", "accept", "play", "select", "id", "over"}
Words == {Word("ack"), Word("weight"), Word("sigsegv"), Word("exit")} \cup {IdOf(id) : id \in Ids}
Events == {"weight", "sigsegv", "exit"}
Entries == [current : Nat, total : Nat, weight : Nat]

\* The steps of a pass that is sent, up to what is said by the debugger.
Plays ==
    \/ Connect \/ Listen \/ Accept \/ PlayNothing \/ SendFuzz \/ WriteFuzz \/ RecvFuzz \/ PlayDone
    \/ NothingSaid

\* What TypeOK needs of the lists of a pass, and the types that the proofs need.
Typed ==
    /\ conf.dbg \in BOOLEAN /\ conf.bruteforce \in BOOLEAN /\ ring_zero \in BOOLEAN
    /\ fuzz \in [DOMAIN fuzz -> Entries]
    /\ tried \in Seq(Ids \X Nat)
    /\ channel \in Seq(Words)
    /\ Len(length) < offset /\ Len(hash) < offset /\ Len(chrono) < offset

IsList(s) == \E S : s \in Seq(S)
IsBuffer(s) == \E S : s \in Seq([by : Nat, byte : S])

\* The lists of a pass are sequences.
SeqInv == IsBuffer(buffer) /\ IsList(length) /\ IsList(hash) /\ IsList(chrono)

\* An id comes after its weight; the fuzzer may have read the weight.
AfterWeight(k) == IF k = 1 THEN pc = "id" ELSE channel[k - 1].word = "weight"
Expected(k) ==
    IF k = 1 /\ pc \in {"ack", "started"} THEN channel[k].word = "ack"
    ELSE IF AfterWeight(k) THEN \E id \in monitored : channel[k] = IdOf(id)
    ELSE channel[k].word \in Events

\* The debugger is between the two writes of a weight.
HalfSaid == AfterWeight(Len(channel) + 1)

ProtoInv ==
    /\ ~conf.dbg => adbg = "closed" /\ channel = <<>>
    /\ monitored \subseteq DOMAIN fuzz
    /\ request # None /\ request.msg = "string" => request.id \in DOMAIN fuzz
    /\ pc # "end" =>
          /\ \A k \in DOMAIN channel : Expected(k)
          /\ pc = "ack" => Len(channel) <= 1 /\ ~ring_zero
          /\ ~ring_zero /\ pc \in Parsing \cup {"hello"} => channel = <<>>
          /\ adbg = "listen" =>
                /\ ~ring_zero /\ pc \notin Sending
                /\ pc \in Parsing \cup {"hello"} => request = None
                /\ pc \in {"ack", "started"} => (request = None <=> channel # <<>>)
                /\ pc = "started" => request # None /\ request.msg = "start"
                /\ pc = "ack" /\ request # None => request.msg # "start"
          /\ adbg \in {"running", "weight"} =>
                /\ pc \notin {"hello", "ack"}
                /\ pc \in Parsing => ring_zero
                /\ pc = "started" => channel # <<>>
                /\ HalfSaid <=> adbg = "weight"
                /\ adbg = "weight" => used \in monitored

\* What was tried of a fuzz: nothing before its turn, the cases counted by its entry in its
\* turn, and after it all of them, or none of a string without weight.
EntryInv(id) ==
    /\ fuzz[id].weight = 0 => Script[InstrOf[id]].kind = "string"
    /\ id < fuzz_current => fuzz[id].current = fuzz[id].total
    /\ id > fuzz_current => fuzz[id].current = 0
    /\ \/ TriedOf(id) = 1 .. fuzz[id].current
       \/ id < fuzz_current /\ MaySkip(id) /\ TriedOf(id) = {}
    /\ id = fuzz_current /\ fuzz[id].current > 0 => Relevant(id)

Before(t, u) == t[1] < u[1] \/ (t[1] = u[1] /\ t[2] < u[2])

TurnInv ==
    /\ \A id \in DOMAIN fuzz : EntryInv(id)
    /\ \A id \in Ids \ DOMAIN fuzz : TriedOf(id) = {} /\ id >= fuzz_current
    /\ \A i, j \in DOMAIN tried : i < j => Before(tried[i], tried[j])
    /\ \A i \in DOMAIN tried : tried[i][1] <= fuzz_current

\* A pass meets every fuzz, and the run ends with the last one.
PhaseInv ==
    /\ pc \in {"length", "hash", "started"} \cup Sending => offset = Len(Script) + 1
    /\ ring_zero => DOMAIN fuzz = Ids
    /\ \A i \in 1 .. offset - 1 : Script[i].op = "fuzz" => Script[i].id \in DOMAIN fuzz
    /\ pc = "end" /\ result # -1 => DOMAIN fuzz = Ids /\ fuzz_finished

\* An entry of the lengths or hashes stands for the bytes of its own instruction.
EntryOf(cells, next, l, op, width) ==
    /\ l.offset \in Nat
    /\ \E i \in 1 .. next - 1 :
          /\ Script[i].op = op
          /\ \A k \in 1 .. width : l.offset + k \in DOMAIN cells /\ cells[l.offset + k].by = i
EntryOK(l, op, width) == EntryOf(buffer, offset, l, op, width)

PassInv ==
    /\ \A k \in DOMAIN buffer : buffer[k].by < offset
    /\ \A k \in DOMAIN length : EntryOK(length[k], "size", Width(length[k].type))
    /\ \A k \in DOMAIN hash : EntryOK(hash[k], "crc", 4) /\ hash[k].type \in {"b32", "l32"}
    /\ \A id \in Ids : Kept(id) \/ (id = fuzz_current /\ InstrOf[id] < offset)

-----------------------------------------------------------------------------
(* The script.                                                              *)

\* What is at a place of the script.
LEMMA Instruction ==
    ASSUME NEW i \in DOMAIN Script
    PROVE  /\ Script[i] \in Instructions
           /\ i \in 1 .. Len(Script) /\ Len(Script) \in Nat
BY AutodafeAssumption

\* What the fields of a fuzz are.
LEMMA FuzzInstruction ==
    ASSUME NEW i \in DOMAIN Script, Script[i].op = "fuzz"
    PROVE  /\ Script[i].id \in Ids /\ Script[i].id \in Nat
           /\ Script[i].kind \in {"string", "hex"}
           /\ Script[i].bytes \in Bytes /\ Script[i].cases \in Seq(Bytes)
<1>1. Script[i].id \in Ids
  BY DEF Ids
<1>2. Script[i] \in [op : {"fuzz"}, id : Nat, kind : {"string", "hex"}, bytes : Bytes,
                     cases : Seq(Bytes)]
  BY Instruction DEF Instructions
<1>3. QED
  BY <1>1, <1>2

\* A fuzz is found where it is.
LEMMA InstrOfId ==
    ASSUME NEW id \in Ids
    PROVE  /\ InstrOf[id] \in DOMAIN Script
           /\ Script[InstrOf[id]].op = "fuzz" /\ Script[InstrOf[id]].id = id
<1>1. \E i \in DOMAIN Script : Script[i].op = "fuzz" /\ Script[i].id = id
  BY DEF Ids
<1>2. QED
  BY <1>1 DEF InstrOf

\* An instruction is where its fuzz is found.
LEMMA IdOfInstr ==
    ASSUME NEW i \in DOMAIN Script, Script[i].op = "fuzz"
    PROVE  InstrOf[Script[i].id] = i
<1> DEFINE id == Script[i].id
           j == InstrOf[id]
<1>1. id \in Ids /\ id \in Nat
  BY FuzzInstruction
<1>2. j \in DOMAIN Script /\ Script[j].op = "fuzz" /\ Script[j].id = id
  BY <1>1, InstrOfId
<1>3. i \in Nat /\ j \in Nat
  BY <1>2, Instruction
<1>4. \A a, b \in DOMAIN Script :
          a < b /\ Script[a].op = "fuzz" /\ Script[b].op = "fuzz" => Script[a].id < Script[b].id
  BY AutodafeAssumption
<1>5. ~(i < j) /\ ~(j < i)
  BY <1>1, <1>2, <1>4
<1>6. QED
  BY <1>3, <1>5

\* The fuzzes are numbered from 0.
LEMMA IdsAreNumbers ==
    /\ Cardinality(Ids) \in Nat
    /\ Ids = 0 .. Cardinality(Ids) - 1
<1> DEFINE fuzzes == {j \in DOMAIN Script : Script[j].op = "fuzz"}
           pick == [i \in fuzzes |-> Script[i].id]
<1>0. Len(Script) \in Int /\ 1 \in Int /\ DOMAIN Script = 1 .. Len(Script)
  BY AutodafeAssumption
<1>1. IsFiniteSet(1 .. Len(Script)) /\ fuzzes \in SUBSET (1 .. Len(Script))
  BY ONLY <1>0, FS_Interval
<1>2. IsFiniteSet(fuzzes)
  BY ONLY <1>1, FS_Subset
<1>3. pick \in Surjection(fuzzes, Ids)
  BY DEF Surjection, Ids
<1>4. IsFiniteSet(Ids)
  BY ONLY <1>2, <1>3, FS_Surjection
<1>5. Cardinality(Ids) \in Nat
  BY ONLY <1>4, FS_CardinalityType
<1>6. QED
  BY <1>5, AutodafeAssumption

\* The instruction that is fetched.
LEMMA Fetched ==
    ASSUME NEW ops, Fetch(ops), TypeOK
    PROVE  /\ offset \in DOMAIN Script /\ Instr \in Instructions /\ Instr.op \in ops
           /\ offset' = offset + 1 /\ offset \in 1 .. Len(Script) /\ Len(Script) \in Nat
           /\ offset \in Nat
BY Instruction, AutodafeAssumption DEF Fetch, TypeOK, Instr

\* The fuzz that is fetched.
LEMMA FetchedFuzz ==
    ASSUME Fetch({"fuzz"}), TypeOK
    PROVE  /\ Instr.id \in Ids /\ Instr.id \in Nat /\ Instr.kind \in {"string", "hex"}
           /\ Instr.bytes \in Bytes /\ Instr.cases \in Seq(Bytes)
           /\ InstrOf[Instr.id] = offset /\ Instr = Script[offset] /\ Instr.op = "fuzz"
BY Fetched, FuzzInstruction, IdOfInstr DEF Instr

-----------------------------------------------------------------------------
(* Types.                                                                   *)

\* What the control variables are, after any step.
LEMMA ControlType ==
    ASSUME TypeOK, Next
    PROVE  /\ pc' \in Phases /\ result' \in {-1, 0}
           /\ adbg' \in {"listen", "running", "weight", "closed", "reset"}
           /\ hits' \in 0 .. WeightBound
           /\ ring_zero \in BOOLEAN => ring_zero' \in BOOLEAN
           /\ conf' = conf
<1> USE DEF TypeOK, Phases
<1>1. CASE Data \/ BlockBegin \/ BlockEnd \/ PushLength \/ PushHash \/ SendOrRecv \/ TryCase
  BY <1>1 DEF Data, BlockBegin, BlockEnd, PushLength, PushHash, SendOrRecv, TryCase, Fetch
<1>2. CASE NewFuzz \/ NextFuzz \/ OutOfTurn
  BY <1>2 DEF NewFuzz, NextFuzz, OutOfTurn, Fetch, Original
<1>3. CASE Parsed \/ UpdateLength \/ LengthsUpdated \/ UpdateHash \/ HashesUpdated
  BY <1>3 DEF Parsed, UpdateLength, LengthsUpdated, UpdateHash, HashesUpdated, Lists
<1>4. CASE Plays
  BY <1>4 DEF Plays, Connect, Listen, Accept, PlayNothing, SendFuzz, WriteFuzz, RecvFuzz, PlayDone,
     NothingSaid, InPass, Quiet, Over, debugger
<1>5. CASE EndPass \/ Hello
  BY <1>5 DEF EndPass, Hello, debugger
<1>6. CASE WaitForAck \/ ReadMsg \/ ReadId
  BY <1>6 DEF WaitForAck, ReadMsg, ReadId, InPass, Take, Eof, ReadFails, Over, debugger
<1>7. CASE Answer \/ Hit \/ SayId \/ TargetEnds \/ Interrupt
  BY <1>7, AutodafeAssumption DEF Answer, Hit, SayId, TargetEnds, Interrupt, Debugs
<1>8. QED
  BY <1>1, <1>2, <1>3, <1>4, <1>5, <1>6, <1>7 DEF Next, Fuzzer, Runs, Waits, Plays, Adbg

\* Sequences of any elements.
LEMMA SeqFacts ==
    ASSUME NEW A, NEW s \in Seq(A)
    PROVE  /\ Len(s) \in Nat /\ DOMAIN s = 1 .. Len(s)
           /\ \A k \in DOMAIN s : s[k] \in A
OBVIOUS

\* A sequence over a set is one over a larger set.
LEMMA SeqWiden ==
    ASSUME NEW A, NEW B, A \subseteq B, NEW s \in Seq(A)
    PROVE  s \in Seq(B)
OBVIOUS

\* The elements of a concatenation.
LEMMA ConcatFacts ==
    ASSUME NEW A, NEW s \in Seq(A), NEW t \in Seq(A)
    PROVE  /\ s \o t \in Seq(A) /\ Len(s \o t) = Len(s) + Len(t)
           /\ \A k \in 1 .. Len(s) : (s \o t)[k] = s[k]
           /\ \A k \in 1 .. Len(t) : (s \o t)[Len(s) + k] = t[k]
OBVIOUS

\* push_data appends the bytes, each with the instruction it is for.
LEMMA PushData ==
    ASSUME offset \in Nat, NEW S, buffer \in Seq([by : Nat, byte : S]),
           NEW V, NEW bytes \in Seq(V), push_data(bytes)
    PROVE  /\ buffer' \in Seq([by : Nat, byte : S \cup V])
           /\ Len(buffer') = Len(buffer) + Len(bytes)
           /\ \A k \in 1 .. Len(buffer) : buffer'[k] = buffer[k]
           /\ \A k \in 1 .. Len(bytes) : buffer'[Len(buffer) + k] = [by |-> offset, byte |-> bytes[k]]
<1> DEFINE new == [k \in DOMAIN bytes |-> [by |-> offset, byte |-> bytes[k]]]
           Cell == [by : Nat, byte : S \cup V]
<1>1. DOMAIN bytes = 1 .. Len(bytes) /\ Len(bytes) \in Nat /\ \A k \in DOMAIN bytes : bytes[k] \in V
  OBVIOUS
<1>2. new \in Seq(Cell) /\ Len(new) = Len(bytes)
  BY <1>1
<1>3. buffer \in Seq(Cell)
  <2>1. [by : Nat, byte : S] \subseteq Cell
    OBVIOUS
  <2>2. QED
    BY ONLY <2>1, SeqWiden, buffer \in Seq([by : Nat, byte : S])
<1>4. buffer' = buffer \o new
  BY DEF push_data
<1>5. \A k \in 1 .. Len(bytes) : new[k] = [by |-> offset, byte |-> bytes[k]]
  BY <1>1
<1>9. Len(buffer) \in Nat
  BY ONLY SeqFacts, buffer \in Seq([by : Nat, byte : S])
<1> HIDE DEF new, Cell
<1>6. /\ buffer' \in Seq(Cell) /\ Len(buffer') = Len(buffer) + Len(bytes)
      /\ \A k \in 1 .. Len(buffer) : buffer'[k] = buffer[k]
      /\ \A k \in 1 .. Len(bytes) : buffer'[Len(buffer) + k] = new[k]
  <2>1. /\ buffer \o new \in Seq(Cell) /\ Len(buffer \o new) = Len(buffer) + Len(new)
        /\ \A k \in 1 .. Len(buffer) : (buffer \o new)[k] = buffer[k]
        /\ \A k \in 1 .. Len(new) : (buffer \o new)[Len(buffer) + k] = new[k]
    BY ONLY <1>2, <1>3
  <2>2. Len(new) = Len(bytes) /\ buffer' = buffer \o new
    BY ONLY <1>2, <1>4
  <2>3. QED
    BY ONLY <2>1, <2>2
<1>7. buffer' \in Seq([by : Nat, byte : S \cup V])
  BY ONLY <1>6 DEF Cell
<1>8. \A k \in 1 .. Len(bytes) : buffer'[Len(buffer) + k] = [by |-> offset, byte |-> bytes[k]]
  <2>1. TAKE k \in 1 .. Len(bytes)
  <2>2. buffer'[Len(buffer) + k] = new[k]
    BY ONLY <1>6, <1>9, <1>1, k \in 1 .. Len(bytes)
  <2>3. new[k] = [by |-> offset, byte |-> bytes[k]]
    BY ONLY <1>5, k \in 1 .. Len(bytes)
  <2>4. QED
    BY ONLY <2>2, <2>3
<1>10. QED
  BY ONLY <1>6, <1>7, <1>8

\* A dummy is a sequence.
LEMMA Dummy ==
    ASSUME NEW n \in Nat, NEW v
    PROVE  /\ [k \in 1 .. n |-> v] \in Seq({v}) /\ Len([k \in 1 .. n |-> v]) = n
OBVIOUS

\* modify_data changes bytes only, and only those of the entry.
LEMMA ModifyData ==
    ASSUME NEW S, buffer \in Seq([by : Nat, byte : S]), NEW entry, NEW bytes,
           modify_data(entry, bytes)
    PROVE  /\ IsBuffer(buffer')
           /\ Len(buffer') = Len(buffer)
           /\ \A k \in DOMAIN buffer : buffer'[k].by = buffer[k].by
           /\ \A k \in DOMAIN buffer : k - entry.offset \notin DOMAIN bytes => buffer'[k] = buffer[k]
<1> DEFINE T == S \cup {bytes[j] : j \in DOMAIN bytes}
           cell(k) == IF k - entry.offset \in DOMAIN bytes
                      THEN [buffer[k] EXCEPT !.byte = bytes[k - entry.offset]] ELSE buffer[k]
<1>1. \A k \in DOMAIN buffer : buffer[k] \in [by : Nat, byte : S]
  BY ONLY SeqFacts, buffer \in Seq([by : Nat, byte : S])
<1>2. \A k \in DOMAIN buffer : cell(k) \in [by : Nat, byte : T] /\ cell(k).by = buffer[k].by
  <2>1. TAKE k \in DOMAIN buffer
  <2>2. CASE k - entry.offset \in DOMAIN bytes
    <3> DEFINE new == bytes[k - entry.offset]
    <3>1. new \in T
      BY <2>2
    <3>2. [buffer[k] EXCEPT !.byte = new] \in [by : Nat, byte : T]
          /\ [buffer[k] EXCEPT !.byte = new].by = buffer[k].by
      BY <1>1, <3>1
    <3>3. QED
      BY <2>2, <3>2
  <2>3. CASE k - entry.offset \notin DOMAIN bytes
    BY <1>1, <2>3
  <2>4. QED
    BY <2>2, <2>3
<1>3. buffer' = [k \in DOMAIN buffer |-> cell(k)]
  BY DEF modify_data
<1>4. \A k \in DOMAIN buffer : k - entry.offset \notin DOMAIN bytes => cell(k) = buffer[k]
  OBVIOUS
<1>5. DOMAIN buffer = 1 .. Len(buffer) /\ Len(buffer) \in Nat
  BY ONLY SeqFacts, buffer \in Seq([by : Nat, byte : S])
<1> HIDE DEF T, cell
<1>6. buffer' \in Seq([by : Nat, byte : T]) /\ Len(buffer') = Len(buffer)
  BY <1>2, <1>3, <1>5
<1>7. IsBuffer(buffer')
  BY <1>6 DEF IsBuffer
<1>8. QED
  BY <1>2, <1>3, <1>4, <1>6, <1>7

\* Data and the fields of an instruction.
LEMMA OtherInstructions ==
    ASSUME NEW i \in DOMAIN Script
    PROVE  /\ Script[i].op = "data" => Script[i].bytes \in Bytes
           /\ Script[i].op = "size" => Width(Script[i].type) \in Nat
           /\ Script[i].op = "crc" => Script[i].type \in {"b32", "l32"}
<1>1. Script[i] \in Instructions
  BY Instruction
<1>2. ASSUME Script[i].op = "data" PROVE Script[i].bytes \in Bytes
  <2>1. Script[i] \in [op : {"data"}, bytes : Bytes]
    BY <1>1, <1>2 DEF Instructions
  <2>2. QED
    BY <2>1
<1>3. Width(Script[i].type) \in Nat
  BY DEF Width
<1>4. ASSUME Script[i].op = "crc" PROVE Script[i].type \in {"b32", "l32"}
  <2>1. Script[i] \in [op : {"crc"}, block : Nat, type : {"b32", "l32"}]
    BY <1>1, <1>4 DEF Instructions
  <2>2. QED
    BY <2>1
<1>5. QED
  BY <1>2, <1>3, <1>4

\* What is pushed keeps the buffer a sequence of cells.
LEMMA BufferGrows ==
    ASSUME offset \in Nat, SeqInv, NEW V, NEW bytes \in Seq(V), push_data(bytes)
    PROVE  IsBuffer(buffer')
<1>1. PICK S : buffer \in Seq([by : Nat, byte : S])
  BY DEF SeqInv, IsBuffer
<1>2. buffer' \in Seq([by : Nat, byte : S \cup V])
  BY ONLY offset \in Nat, bytes \in Seq(V), push_data(bytes), <1>1, PushData
<1>3. QED
  BY <1>2 DEF IsBuffer

\* The original and a case are bytes.
LEMMA OriginalBytes ==
    ASSUME TypeOK, Fetch({"fuzz"}), Original
    PROVE  /\ push_data(Instr.bytes) /\ Instr.bytes \in Seq(0 .. Base - 1)
           /\ UNCHANGED <<length, hash, chrono, tried>>
BY FetchedFuzz DEF Original, Bytes

\* What TryCase pushes is a case of the fuzz in turn.
LEMMA CaseBytes ==
    ASSUME TypeOK, Typed, TryCase
    PROVE  /\ Fetch({"fuzz"}) /\ Instr.id \in DOMAIN fuzz /\ fuzz_current = Instr.id
           /\ push_data(Instr.cases[fuzz[Instr.id].current + 1])
           /\ Instr.cases[fuzz[Instr.id].current + 1] \in Seq(0 .. Base - 1)
           /\ fuzz[Instr.id].current \in Nat /\ fuzz[Instr.id].current < Len(Instr.cases)
           /\ fuzz[Instr.id].total = Len(Instr.cases)
<1>1. Fetch({"fuzz"}) /\ Instr.id \in DOMAIN fuzz /\ Left(Instr.id) /\ fuzz_current = Instr.id
      /\ push_data(Instr.cases[fuzz[Instr.id].current + 1])
  BY DEF TryCase
<1>2. Instr.cases \in Seq(Bytes) /\ Script[InstrOf[Instr.id]] = Instr
  BY ONLY <1>1, TypeOK, FetchedFuzz
<1>3. fuzz[Instr.id].current \in Nat /\ fuzz[Instr.id].current < fuzz[Instr.id].total
      /\ fuzz[Instr.id].total = Len(Instr.cases)
  BY <1>1, <1>2 DEF TypeOK, Left
<1>4. fuzz[Instr.id].current + 1 \in 1 .. Len(Instr.cases)
  BY <1>2, <1>3
<1>5. Instr.cases[fuzz[Instr.id].current + 1] \in Bytes
  BY <1>2, <1>4
<1>6. QED
  BY <1>1, <1>3, <1>5 DEF Bytes

\* A list with an element of any kind at its end.
LEMMA AppendFacts ==
    ASSUME NEW A, NEW s \in Seq(A), NEW e
    PROVE  /\ IsList(Append(s, e))
           /\ Len(Append(s, e)) = Len(s) + 1 /\ Len(s) \in Nat
           /\ \A k \in 1 .. Len(s) : Append(s, e)[k] = s[k]
           /\ Append(s, e)[Len(s) + 1] = e
<1>1. s \in Seq(A \cup {e}) /\ e \in A \cup {e}
  BY SeqWiden
<1> DEFINE B == A \cup {e}
<1> HIDE DEF B
<1>2. /\ Append(s, e) \in Seq(B)
      /\ Len(Append(s, e)) = Len(s) + 1 /\ Len(s) \in Nat
      /\ \A k \in 1 .. Len(s) : Append(s, e)[k] = s[k]
      /\ Append(s, e)[Len(s) + 1] = e
  BY <1>1 DEF B
<1>3. IsList(Append(s, e))
  BY ONLY <1>2 DEF IsList
<1>4. QED
  BY ONLY <1>2, <1>3

\* An append to a list of the pass.
LEMMA AppendList ==
    ASSUME NEW s, IsList(s), NEW e
    PROVE  IsList(Append(s, e)) /\ Len(Append(s, e)) = Len(s) + 1 /\ Len(s) \in Nat
<1>1. PICK A : s \in Seq(A)
  BY DEF IsList
<1>2. QED
  BY ONLY <1>1, AppendFacts

\* A sequence of one element in the place of another sequence.
LEMMA Overwritten ==
    ASSUME NEW A, NEW s \in Seq(A), NEW B, NEW e \in B
    PROVE  [k \in DOMAIN s |-> e] \in Seq(B)
OBVIOUS

\* The buffer behind a pass.
LEMMA PastBuffer ==
    ASSUME IsBuffer(buffer)
    PROVE  IsBuffer([k \in DOMAIN buffer |-> [by |-> 0, byte |-> 0]])
<1>1. PICK S : buffer \in Seq([by : Nat, byte : S])
  BY DEF IsBuffer
<1>2. [by |-> 0, byte |-> 0] \in [by : Nat, byte : {0}]
  OBVIOUS
<1>3. [k \in DOMAIN buffer |-> [by |-> 0, byte |-> 0]] \in Seq([by : Nat, byte : {0}])
  BY ONLY <1>1, <1>2, Overwritten
<1>4. QED
  BY <1>3 DEF IsBuffer

\* The lists at the start of a pass.
LEMMA EmptyLists == IsBuffer(<<>>) /\ IsList(<<>>) /\ Len(<<>>) = 0
<1>1. <<>> \in Seq({}) /\ <<>> \in Seq([by : Nat, byte : {}]) /\ Len(<<>>) = 0
  OBVIOUS
<1>2. QED
  BY <1>1 DEF IsList, IsBuffer

\* The lists of a pass are sequences that grow with the instructions.
LEMMA ListStep ==
    ASSUME TypeOK, Typed, SeqInv, Next
    PROVE  /\ SeqInv'
           /\ offset' \in 1 .. Len(Script) + 1
           /\ Len(length') < offset' /\ Len(hash') < offset' /\ Len(chrono') < offset'
           /\ count' \in 0 .. Len(Script)
<1>1. offset \in Nat /\ Len(Script) \in Nat /\ offset \in 1 .. Len(Script) + 1
      /\ count \in 0 .. Len(Script)
  BY AutodafeAssumption DEF TypeOK
<1>2. Len(length) \in Nat /\ Len(hash) \in Nat /\ Len(chrono) \in Nat
      /\ Len(length) < offset /\ Len(hash) < offset /\ Len(chrono) < offset
  BY DEF SeqInv, IsList, Typed
<1> DEFINE Keep == UNCHANGED <<length, hash, chrono>>
           Goal == /\ SeqInv' /\ offset' \in 1 .. Len(Script) + 1
                   /\ Len(length') < offset' /\ Len(hash') < offset' /\ Len(chrono') < offset'
                   /\ count' \in 0 .. Len(Script)
<1>3. ASSUME NEW ops, Fetch(ops) PROVE offset' = offset + 1 /\ offset' \in 1 .. Len(Script) + 1
                                       /\ count' = count
  BY <1>1, <1>3, Fetched DEF Fetch
<1>4. ASSUME NEW V, NEW bytes \in Seq(V), NEW ops, Fetch(ops), push_data(bytes), Keep
      PROVE  Goal
  <2>1. IsBuffer(buffer')
    BY <1>1, <1>4, BufferGrows
  <2>2. QED
    BY <1>1, <1>2, <1>3, <1>4, <2>1 DEF SeqInv
<1>5. CASE Data
  <2>1. Fetch({"data"}) /\ push_data(Instr.bytes) /\ Keep
    BY <1>5 DEF Data
  <2>2. Instr.bytes \in Seq(0 .. Base - 1)
    BY <2>1, Fetched, OtherInstructions DEF Instr, Bytes
  <2>3. QED
    BY ONLY <2>1, <2>2, <1>4
<1>6. CASE NewFuzz \/ NextFuzz \/ OutOfTurn
  <2>1. Fetch({"fuzz"}) /\ Original
    BY <1>6 DEF NewFuzz, NextFuzz, OutOfTurn
  <2>2. push_data(Instr.bytes) /\ Instr.bytes \in Seq(0 .. Base - 1) /\ Keep
    BY <2>1, OriginalBytes
  <2>3. QED
    BY ONLY <2>1, <2>2, <1>4
<1>7. CASE TryCase
  <2>1. Keep
    BY <1>7 DEF TryCase
  <2>2. QED
    BY ONLY <1>4, <1>7, <2>1, TypeOK, Typed, CaseBytes
<1>8. CASE BlockBegin \/ BlockEnd
  <2>1. (\E ops : Fetch(ops)) /\ UNCHANGED buffer /\ Keep
    BY <1>8 DEF BlockBegin, BlockEnd
  <2>2. QED
    BY <2>1, <1>1, <1>2, <1>3 DEF SeqInv
<1>9. CASE PushLength
  <2> DEFINE n == Width(Instr.type)
             entry == [id |-> Instr.block, type |-> Instr.type, offset |-> Len(buffer)]
  <2>1. Fetch({"size"}) /\ push_data([k \in 1 .. n |-> Base - 1])
        /\ length' = Append(length, entry) /\ UNCHANGED <<hash, chrono>>
    BY <1>9 DEF PushLength
  <2>2. n \in Nat
    BY <2>1, Fetched, OtherInstructions DEF Instr
  <2>3. [k \in 1 .. n |-> Base - 1] \in Seq({Base - 1})
    BY <2>2, Dummy
  <2>4. IsBuffer(buffer')
    BY ONLY <2>1, <2>3, <1>1, SeqInv, BufferGrows
  <2>5. IsList(length') /\ Len(length') = Len(length) + 1
    BY <2>1, AppendList DEF SeqInv
  <2>6. QED
    BY <2>1, <2>4, <2>5, <1>1, <1>2, <1>3 DEF SeqInv
<1>10. CASE PushHash
  <2> DEFINE entry == [id |-> Instr.block, type |-> Instr.type, offset |-> Len(buffer)]
  <2>1. Fetch({"crc"}) /\ push_data([k \in 1 .. 4 |-> 0])
        /\ hash' = Append(hash, entry) /\ UNCHANGED <<length, chrono>>
    BY <1>10 DEF PushHash
  <2>3. [k \in 1 .. 4 |-> 0] \in Seq({0})
    BY Dummy
  <2>4. IsBuffer(buffer')
    BY ONLY <2>1, <2>3, <1>1, SeqInv, BufferGrows
  <2>5. IsList(hash') /\ Len(hash') = Len(hash) + 1
    BY <2>1, AppendList DEF SeqInv
  <2>6. QED
    BY <2>1, <2>4, <2>5, <1>1, <1>2, <1>3 DEF SeqInv
<1>11. CASE SendOrRecv
  <2> DEFINE entry == [id |-> Instr.block, send |-> Instr.op = "send"]
  <2>1. Fetch({"send", "recv"}) /\ UNCHANGED <<buffer, length, hash>>
        /\ chrono' = Append(chrono, entry)
    BY <1>11 DEF SendOrRecv
  <2>5. IsList(chrono') /\ Len(chrono') = Len(chrono) + 1
    BY <2>1, AppendList DEF SeqInv
  <2>6. QED
    BY <2>1, <2>5, <1>1, <1>2, <1>3 DEF SeqInv
<1>12. CASE UpdateLength \/ UpdateHash
  <2>1. /\ (\E entry, bytes : modify_data(entry, bytes)) \/ UNCHANGED buffer
        /\ UNCHANGED <<offset, length, hash, chrono>>
        /\ count' = count + 1 /\ (count < Len(length) \/ count < Len(hash))
    BY <1>12 DEF UpdateLength, UpdateHash, Lists
  <2>2. IsBuffer(buffer')
    <3>1. PICK S : buffer \in Seq([by : Nat, byte : S])
      BY DEF SeqInv, IsBuffer
    <3>2. ASSUME NEW entry, NEW bytes, modify_data(entry, bytes)
          PROVE  IsBuffer(buffer')
      BY ONLY <3>1, <3>2, ModifyData
    <3>3. QED
      BY <2>1, <3>2 DEF SeqInv
  <2>3. QED
    BY <2>1, <2>2, <1>1, <1>2 DEF SeqInv
<1>13. CASE Parsed \/ LengthsUpdated \/ HashesUpdated
  BY <1>13, <1>1, <1>2 DEF Parsed, LengthsUpdated, HashesUpdated, Lists, SeqInv
<1>14. CASE Plays
            \/ ReadMsg \/ ReadId
  <2>1. UNCHANGED <<offset, buffer, length, hash, chrono>>
    BY <1>14 DEF Plays, Connect, Listen, Accept, PlayNothing, SendFuzz, WriteFuzz, RecvFuzz, PlayDone,
     NothingSaid, ReadMsg, ReadId, InPass, lists
  <2>2. count' \in {count, 0} \/ (count' = count + 1 /\ count < Len(chrono))
    BY <1>14 DEF Plays, Connect, Listen, Accept, PlayNothing, SendFuzz, WriteFuzz, RecvFuzz, PlayDone,
     NothingSaid, ReadMsg, ReadId, Over, Playing
  <2>3. QED
    BY <2>1, <2>2, <1>1, <1>2 DEF SeqInv
<1>15. CASE EndPass
  <2>1. /\ offset' = 1 /\ count' = count
        /\ buffer' = [k \in DOMAIN buffer |-> [by |-> 0, byte |-> 0]]
        /\ length' = <<>> /\ hash' = <<>> /\ chrono' = <<>>
    BY <1>15 DEF EndPass
  <2>2. IsBuffer(buffer')
    BY <2>1, PastBuffer DEF SeqInv
  <2>3. QED
    BY <2>1, <2>2, <1>1, EmptyLists DEF SeqInv
<1>16. CASE Hello \/ WaitForAck \/ Adbg
  <2>1. UNCHANGED <<offset, count, buffer, length, hash, chrono>>
    BY <1>16 DEF Hello, WaitForAck, Adbg, Answer, Hit, SayId, TargetEnds, Interrupt, Debugs, lists
  <2>2. QED
    BY <2>1, <1>1, <1>2 DEF SeqInv
<1>17. QED
  BY <1>5, <1>6, <1>7, <1>8, <1>9, <1>10, <1>11, <1>12, <1>13, <1>14, <1>15, <1>16 DEF Next, Fuzzer, Runs, Waits, Plays

\* The entries of the fuzzes: a part of TypeOK and Typed.
FuzzTyped ==
    /\ DOMAIN fuzz \subseteq Ids /\ fuzz \in [DOMAIN fuzz -> Entries]
    /\ fuzz_current \in 0 .. Cardinality(Ids)
    /\ \A id \in DOMAIN fuzz :
          fuzz[id].total = Len(Script[InstrOf[id]].cases) /\ fuzz[id].current <= fuzz[id].total
    /\ tried \in Seq(Ids \X Nat)

\* The types of the fuzzes follow from those of the state.
LEMMA FuzzTypes ==
    ASSUME TypeOK, Typed
    PROVE  FuzzTyped
BY DEF TypeOK, Typed, FuzzTyped

\* A new entry.
LEMMA NewFuzzEffect ==
    ASSUME TypeOK, Typed, NewFuzz
    PROVE  /\ DOMAIN fuzz' = DOMAIN fuzz \cup {Instr.id}
           /\ \A id \in DOMAIN fuzz : fuzz'[id] = fuzz[id]
           /\ fuzz' \in [DOMAIN fuzz' -> Entries]
           /\ fuzz'[Instr.id].current = 0 /\ fuzz'[Instr.id].total = Len(Instr.cases)
           /\ fuzz'[Instr.id].weight = 0 => Instr.kind = "string"
           /\ UNCHANGED <<fuzz_current, tried>>
<1> DEFINE entry == [current |-> 0, total |-> Len(Instr.cases),
                     weight |-> IF Instr.kind = "string" THEN 0 ELSE 1]
<1>1. Fetch({"fuzz"}) /\ Instr.id \notin DOMAIN fuzz /\ UNCHANGED <<fuzz_current, tried>>
  BY DEF NewFuzz, Original
<1>2. fuzz' = [id \in DOMAIN fuzz \cup {Instr.id} |->
                 IF id \in DOMAIN fuzz THEN fuzz[id] ELSE entry]
  BY DEF NewFuzz
<1>3. Len(Instr.cases) \in Nat
  BY <1>1, FetchedFuzz
<1>4. entry \in Entries
  BY <1>3 DEF Entries
<1>5. fuzz \in [DOMAIN fuzz -> Entries]
  BY DEF Typed
<1>6. entry.current = 0 /\ entry.total = Len(Instr.cases) /\ (entry.weight = 0 => Instr.kind = "string")
  OBVIOUS
<1> HIDE DEF entry
<1>7. QED
  BY <1>1, <1>2, <1>4, <1>5, <1>6

\* An entry that is changed, in one of its numbers.
LEMMA EntryEffect ==
    ASSUME FuzzTyped, NEW id \in DOMAIN fuzz, NEW n \in Nat,
           \/ fuzz' = [fuzz EXCEPT ![id].current = n]
           \/ fuzz' = [fuzz EXCEPT ![id].weight = n]
    PROVE  /\ DOMAIN fuzz' = DOMAIN fuzz /\ fuzz' \in [DOMAIN fuzz' -> Entries]
           /\ \A other \in DOMAIN fuzz : other # id => fuzz'[other] = fuzz[other]
           /\ fuzz'[id].total = fuzz[id].total
           /\ \/ /\ fuzz' = [fuzz EXCEPT ![id].current = n]
                 /\ fuzz'[id].current = n /\ fuzz'[id].weight = fuzz[id].weight
              \/ /\ fuzz' = [fuzz EXCEPT ![id].weight = n]
                 /\ fuzz'[id].weight = n /\ fuzz'[id].current = fuzz[id].current
<1>1. fuzz \in [DOMAIN fuzz -> Entries] /\ fuzz[id] \in Entries
  BY DEF FuzzTyped
<1>2. CASE fuzz' = [fuzz EXCEPT ![id].current = n]
  <2> DEFINE entry == [fuzz[id] EXCEPT !.current = n]
  <2>1. /\ entry \in Entries /\ entry.current = n /\ entry.weight = fuzz[id].weight
        /\ entry.total = fuzz[id].total
    BY <1>1 DEF Entries
  <2>2. fuzz' = [fuzz EXCEPT ![id] = entry]
    BY <1>2
  <2> HIDE DEF entry
  <2>3. QED
    BY <1>1, <1>2, <2>1, <2>2
<1>3. CASE fuzz' = [fuzz EXCEPT ![id].weight = n]
  <2> DEFINE entry == [fuzz[id] EXCEPT !.weight = n]
  <2>1. /\ entry \in Entries /\ entry.weight = n /\ entry.current = fuzz[id].current
        /\ entry.total = fuzz[id].total
    BY <1>1 DEF Entries
  <2>2. fuzz' = [fuzz EXCEPT ![id] = entry]
    BY <1>3
  <2> HIDE DEF entry
  <2>3. QED
    BY <1>1, <1>3, <2>1, <2>2
<1>4. QED
  BY <1>2, <1>3

\* What TryCase changes.
LEMMA TryCaseEffect ==
    ASSUME TypeOK, Typed, TryCase
    PROVE  LET id == Instr.id
           IN /\ id \in DOMAIN fuzz /\ id = fuzz_current /\ Left(id)
              /\ DOMAIN fuzz' = DOMAIN fuzz /\ fuzz' \in [DOMAIN fuzz' -> Entries]
              /\ \A other \in DOMAIN fuzz : other # id => fuzz'[other] = fuzz[other]
              /\ fuzz'[id].total = fuzz[id].total /\ fuzz'[id].weight = fuzz[id].weight
              /\ fuzz[id].current < fuzz[id].total
              /\ fuzz[id].current \in Nat /\ fuzz[id].total \in Nat
              /\ fuzz'[id].current = fuzz[id].current + 1
              /\ tried' = Append(tried, <<id, fuzz[id].current + 1>>)
              /\ UNCHANGED fuzz_current
<1> DEFINE id == Instr.id
           n == fuzz[id].current + 1
<1>1. /\ id \in DOMAIN fuzz /\ id = fuzz_current /\ Left(id)
      /\ fuzz' = [fuzz EXCEPT ![id].current = n]
      /\ tried' = Append(tried, <<id, n>>)
      /\ UNCHANGED fuzz_current
  BY DEF TryCase
<1>2. FuzzTyped
  BY FuzzTypes
<1>3. fuzz[id].current \in Nat /\ fuzz[id].total \in Nat /\ fuzz[id].weight \in Nat
      /\ fuzz[id].current < fuzz[id].total
  BY <1>1, <1>2 DEF FuzzTyped, Entries, Left
<1>4. n \in Nat
  BY <1>3
<1>5. fuzz' = [fuzz EXCEPT ![id].current = n] => fuzz'[id].current = n /\ fuzz'[id].weight = fuzz[id].weight
  BY <1>1, <1>2 DEF FuzzTyped, Entries
<1>6. /\ DOMAIN fuzz' = DOMAIN fuzz /\ fuzz' \in [DOMAIN fuzz' -> Entries]
      /\ \A other \in DOMAIN fuzz : other # id => fuzz'[other] = fuzz[other]
      /\ fuzz'[id].total = fuzz[id].total
  BY ONLY <1>1, <1>2, <1>4, EntryEffect
<1>7. QED
  BY <1>1, <1>3, <1>5, <1>6

\* What NextFuzz changes.
LEMMA NextFuzzEffect ==
    ASSUME TypeOK, Typed, NextFuzz
    PROVE  LET id == Instr.id
           IN /\ id \in DOMAIN fuzz /\ id = fuzz_current /\ ~Left(id)
              /\ DOMAIN fuzz' = DOMAIN fuzz /\ fuzz' \in [DOMAIN fuzz' -> Entries]
              /\ \A other \in DOMAIN fuzz : other # id => fuzz'[other] = fuzz[other]
              /\ fuzz'[id].total = fuzz[id].total /\ fuzz'[id].weight = fuzz[id].weight
              /\ fuzz'[id].current = fuzz[id].total
              /\ Relevant(id) => fuzz[id].current = fuzz[id].total
              /\ fuzz_current' = fuzz_current + 1 /\ UNCHANGED tried
<1> DEFINE id == Instr.id
           n == fuzz[id].total
<1>1. /\ id \in DOMAIN fuzz /\ id = fuzz_current /\ ~Left(id)
      /\ fuzz' = IF Relevant(id) THEN fuzz ELSE [fuzz EXCEPT ![id].current = n]
      /\ fuzz_current' = fuzz_current + 1 /\ UNCHANGED tried
  BY DEF NextFuzz, Original
<1>2. FuzzTyped
  BY FuzzTypes
<1>3. fuzz[id].current \in Nat /\ n \in Nat /\ fuzz[id].current <= n
  BY <1>1, <1>2 DEF FuzzTyped, Entries
<1>4. CASE Relevant(id)
  <2>1. fuzz[id].current = n /\ fuzz' = fuzz
    BY <1>1, <1>3, <1>4 DEF Left
  <2>2. QED
    BY <1>1, <1>2, <2>1 DEF FuzzTyped
<1>5. CASE ~Relevant(id)
  <2>1. fuzz' = [fuzz EXCEPT ![id].current = n]
    BY <1>1, <1>5
  <2>2. fuzz'[id].current = n /\ fuzz'[id].weight = fuzz[id].weight
    BY <1>1, <1>2, <2>1 DEF FuzzTyped, Entries
  <2>3. /\ DOMAIN fuzz' = DOMAIN fuzz /\ fuzz' \in [DOMAIN fuzz' -> Entries]
        /\ \A other \in DOMAIN fuzz : other # id => fuzz'[other] = fuzz[other]
        /\ fuzz'[id].total = fuzz[id].total
    BY ONLY <1>1, <1>2, <1>3, <2>1, EntryEffect
  <2>4. QED
    BY <1>1, <1>5, <2>2, <2>3
<1>6. QED
  BY <1>4, <1>5

\* A weight is counted for the fuzz that it names.
LEMMA ReadIdEffect ==
    ASSUME TypeOK, Typed, ReadId
    PROVE  /\ UNCHANGED <<fuzz_current, tried>>
           /\ \/ fuzz' = fuzz
              \/ \E id \in DOMAIN fuzz :
                    /\ DOMAIN fuzz' = DOMAIN fuzz /\ fuzz' \in [DOMAIN fuzz' -> Entries]
                    /\ \A other \in DOMAIN fuzz : other # id => fuzz'[other] = fuzz[other]
                    /\ fuzz'[id].total = fuzz[id].total /\ fuzz'[id].current = fuzz[id].current
                    /\ fuzz[id].weight \in Nat /\ fuzz'[id].weight = fuzz[id].weight + 1
<1>1. UNCHANGED <<fuzz_current, tried>>
  BY DEF ReadId, InPass
<1>2. fuzz' = fuzz \/ \E id \in DOMAIN fuzz : fuzz' = [fuzz EXCEPT ![id].weight = fuzz[id].weight + 1]
  BY DEF ReadId
<1>3. ASSUME NEW id \in DOMAIN fuzz, fuzz' = [fuzz EXCEPT ![id].weight = fuzz[id].weight + 1]
      PROVE  /\ DOMAIN fuzz' = DOMAIN fuzz /\ fuzz' \in [DOMAIN fuzz' -> Entries]
             /\ \A other \in DOMAIN fuzz : other # id => fuzz'[other] = fuzz[other]
             /\ fuzz'[id].total = fuzz[id].total /\ fuzz'[id].current = fuzz[id].current
             /\ fuzz[id].weight \in Nat /\ fuzz'[id].weight = fuzz[id].weight + 1
  <2>1. FuzzTyped
    BY FuzzTypes
  <2>2. fuzz[id].weight \in Nat /\ fuzz[id].weight + 1 \in Nat
    BY <1>3, <2>1 DEF FuzzTyped, Entries
  <2>3. fuzz'[id].weight = fuzz[id].weight + 1 /\ fuzz'[id].current = fuzz[id].current
    BY <1>3, <2>1 DEF FuzzTyped, Entries
  <2>4. /\ DOMAIN fuzz' = DOMAIN fuzz /\ fuzz' \in [DOMAIN fuzz' -> Entries]
        /\ \A other \in DOMAIN fuzz : other # id => fuzz'[other] = fuzz[other]
        /\ fuzz'[id].total = fuzz[id].total
    BY ONLY <1>3, <2>1, <2>2, EntryEffect
  <2>5. QED
    BY <2>2, <2>3, <2>4
<1>4. QED
  BY <1>1, <1>2, <1>3

\* Nothing else touches the fuzzes.
LEMMA FuzzSteps ==
    ASSUME Next
    PROVE  \/ NewFuzz \/ TryCase \/ NextFuzz \/ ReadId
           \/ UNCHANGED <<fuzz, fuzz_current, tried>>
<1>1. CASE Data \/ OutOfTurn \/ BlockBegin \/ BlockEnd \/ PushLength \/ PushHash \/ SendOrRecv
  BY <1>1 DEF Data, OutOfTurn, BlockBegin, BlockEnd, PushLength, PushHash, SendOrRecv, Original,
              progress
<1>2. CASE Parsed \/ UpdateLength \/ LengthsUpdated \/ UpdateHash \/ HashesUpdated
  BY <1>2 DEF Parsed, UpdateLength, LengthsUpdated, UpdateHash, HashesUpdated, Lists, progress
<1>3. CASE Plays \/ ReadMsg
  BY <1>3 DEF Plays, Connect, Listen, Accept, PlayNothing, SendFuzz, WriteFuzz, RecvFuzz, PlayDone,
     NothingSaid, ReadMsg, InPass, Quiet
<1>4. CASE EndPass \/ Hello \/ WaitForAck
  BY <1>4 DEF EndPass, Hello, WaitForAck, progress
<1>5. CASE Adbg
  BY <1>5 DEF Adbg, Answer, Hit, SayId, TargetEnds, Interrupt, Debugs, progress
<1>6. QED
  BY <1>1, <1>2, <1>3, <1>4, <1>5 DEF Next, Fuzzer, Runs, Waits, Plays

\* An append within a set.
LEMMA SeqAppend ==
    ASSUME NEW A, NEW s \in Seq(A), NEW e \in A
    PROVE  /\ Append(s, e) \in Seq(A) /\ Len(Append(s, e)) = Len(s) + 1 /\ Len(s) \in Nat
           /\ \A k \in 1 .. Len(s) : Append(s, e)[k] = s[k]
           /\ Append(s, e)[Len(s) + 1] = e
OBVIOUS

\* Every step keeps the types of the fuzzes, and no entry is lost.
LEMMA FuzzTypeStep ==
    ASSUME TypeOK, Typed, Next
    PROVE  FuzzTyped' /\ DOMAIN fuzz \subseteq DOMAIN fuzz'
<1>0. FuzzTyped
  BY FuzzTypes
<1>1. CASE NewFuzz
  <2>1. Fetch({"fuzz"})
    BY <1>1 DEF NewFuzz
  <2>2. Instr.id \in Ids /\ Script[InstrOf[Instr.id]] = Instr /\ Len(Instr.cases) \in Nat
    BY <2>1, FetchedFuzz
  <2>3. QED
    BY ONLY <1>0, <1>1, <2>2, TypeOK, Typed, NewFuzzEffect DEF FuzzTyped
<1>2. CASE TryCase
  <2> DEFINE id == Instr.id
  <2>1. /\ id \in DOMAIN fuzz /\ DOMAIN fuzz' = DOMAIN fuzz /\ fuzz' \in [DOMAIN fuzz' -> Entries]
        /\ \A other \in DOMAIN fuzz : other # id => fuzz'[other] = fuzz[other]
        /\ fuzz'[id].total = fuzz[id].total /\ fuzz[id].current < fuzz[id].total
        /\ fuzz[id].current \in Nat /\ fuzz[id].total \in Nat
        /\ fuzz'[id].current = fuzz[id].current + 1
        /\ tried' = Append(tried, <<id, fuzz[id].current + 1>>)
        /\ UNCHANGED fuzz_current
    BY ONLY <1>2, TypeOK, Typed, TryCaseEffect
  <2> HIDE DEF id
  <2>2. tried' \in Seq(Ids \X Nat)
    <3>1. <<id, fuzz[id].current + 1>> \in Ids \X Nat /\ tried \in Seq(Ids \X Nat)
      BY <1>0, <2>1 DEF FuzzTyped
    <3>2. QED
      BY ONLY <2>1, <3>1, SeqAppend
  <2>3. ASSUME NEW other \in DOMAIN fuzz'
        PROVE  /\ fuzz'[other].total = Len(Script[InstrOf[other]].cases)
               /\ fuzz'[other].current <= fuzz'[other].total
    <3>1. other \in DOMAIN fuzz /\ fuzz[other].total = Len(Script[InstrOf[other]].cases)
          /\ fuzz[other].current <= fuzz[other].total
      BY ONLY <1>0, <2>1, <2>3 DEF FuzzTyped
    <3>2. CASE other = id
      BY ONLY <2>1, <3>1, <3>2
    <3>3. CASE other # id
      BY ONLY <2>1, <3>1, <3>3
    <3>4. QED
      BY <3>2, <3>3
  <2>4. QED
    BY ONLY <1>0, <2>1, <2>2, <2>3 DEF FuzzTyped
<1>3. CASE NextFuzz
  <2>1. fuzz_current' \in 0 .. Cardinality(Ids)
    BY <1>0, <1>3, NextFuzzEffect, IdsAreNumbers DEF FuzzTyped
  <2> DEFINE id == Instr.id
  <2>2. /\ id \in DOMAIN fuzz /\ DOMAIN fuzz' = DOMAIN fuzz /\ fuzz' \in [DOMAIN fuzz' -> Entries]
        /\ \A other \in DOMAIN fuzz : other # id => fuzz'[other] = fuzz[other]
        /\ fuzz'[id].total = fuzz[id].total /\ fuzz'[id].current = fuzz[id].total
        /\ tried' = tried
    BY ONLY <1>3, TypeOK, Typed, NextFuzzEffect
  <2>3. fuzz[id].total \in Nat
    BY <1>0, <2>2 DEF FuzzTyped, Entries
  <2> HIDE DEF id
  <2>4. QED
    BY ONLY <1>0, <2>1, <2>2, <2>3 DEF FuzzTyped
<1>4. CASE ReadId
  BY <1>0, <1>4, ReadIdEffect DEF FuzzTyped
<1>5. CASE UNCHANGED <<fuzz, fuzz_current, tried>>
  BY <1>0, <1>5 DEF FuzzTyped
<1>6. QED
  BY <1>1, <1>2, <1>3, <1>4, <1>5, FuzzSteps

-----------------------------------------------------------------------------
(* What is in the connection.                                               *)

\* The words are told apart by their first field.
LEMMA WordFacts ==
    /\ \A w \in Words : /\ w.word = "weight" => w = Word("weight")
                        /\ w.word \in {"ack", "weight", "sigsegv", "exit", "id"}
    /\ \A id : IdOf(id).word = "id"
    /\ \A word : Word(word).word = word
    /\ \A word \in {"ack", "weight", "sigsegv", "exit"} : Word(word) \in Words
    /\ \A id \in Ids : IdOf(id) \in Words
<1>1. \A word : Word(word).word = word
  BY DEF Word
<1>2. \A id : IdOf(id).word = "id"
  BY DEF IdOf
<1>3. \A w \in Words : w \in {Word("ack"), Word("weight"), Word("sigsegv"), Word("exit")}
                      \/ \E id \in Ids : w = IdOf(id)
  BY DEF Words
<1>4. /\ \A word \in {"ack", "weight", "sigsegv", "exit"} : Word(word) \in Words
      /\ \A id \in Ids : IdOf(id) \in Words
  BY DEF Words
<1>5. QED
  BY <1>1, <1>2, <1>3, <1>4

\* A word is put at the end of the channel.
LEMMA SayOne ==
    ASSUME Typed, NEW w \in Words, Say(<<w>>)
    PROVE  /\ channel' \in Seq(Words) /\ Len(channel') = Len(channel) + 1 /\ Len(channel) \in Nat
           /\ \A k \in 1 .. Len(channel) : channel'[k] = channel[k]
           /\ channel'[Len(channel) + 1] = w
           /\ DOMAIN channel' = 1 .. Len(channel) + 1 /\ DOMAIN channel = 1 .. Len(channel)
<1>1. channel \in Seq(Words) /\ channel' = channel \o <<w>>
  BY DEF Typed, Say
<1>2. channel' = Append(channel, w)
  BY <1>1
<1>3. QED
  BY <1>1, <1>2

\* A word is taken from the head of the channel.
LEMMA TakeOne ==
    ASSUME Typed, Take
    PROVE  /\ channel' \in Seq(Words) /\ Len(channel') = Len(channel) - 1 /\ Len(channel) \in Nat \ {0}
           /\ \A k \in 1 .. Len(channel) - 1 : channel'[k] = channel[k + 1]
           /\ Head(channel) = channel[1] /\ channel[1] \in Words
           /\ DOMAIN channel' = 1 .. Len(channel) - 1 /\ DOMAIN channel = 1 .. Len(channel)
BY DEF Typed, Take

\* A step of the fuzzer that reads nothing.
LEMMA ExpectedStays ==
    ASSUME Typed, UNCHANGED <<channel, monitored>>, pc = "id" <=> pc' = "id",
           pc \in {"ack", "started"} <=> pc' \in {"ack", "started"},
           \A k \in DOMAIN channel : Expected(k)
    PROVE  /\ \A k \in DOMAIN channel' : Expected(k)'
           /\ HalfSaid' <=> HalfSaid
<1>1. \A k : AfterWeight(k)' <=> AfterWeight(k)
  BY DEF AfterWeight
<1>2. HalfSaid' <=> HalfSaid
  BY DEF HalfSaid, AfterWeight
<1>3. QED
  BY <1>1, <1>2 DEF Expected

\* A step of the fuzzer that reads one word.
LEMMA ExpectedShifts ==
    ASSUME Typed, Take, pc' \notin {"ack", "started"},
           pc' = "id" <=> channel[1].word = "weight",
           \A k \in DOMAIN channel : Expected(k)
    PROVE  /\ \A k \in DOMAIN channel' : Expected(k)'
           /\ HalfSaid' <=> HalfSaid
           /\ UNCHANGED <<request, adbg, monitored, used>>
<1>1. /\ Len(channel') = Len(channel) - 1 /\ Len(channel) \in Nat \ {0}
      /\ \A k \in 1 .. Len(channel) - 1 : channel'[k] = channel[k + 1]
      /\ DOMAIN channel' = 1 .. Len(channel) - 1 /\ DOMAIN channel = 1 .. Len(channel)
  BY TakeOne
<1>2. UNCHANGED <<request, adbg, monitored, used>>
  BY DEF Take
<1>3. \A k \in 1 .. Len(channel) : AfterWeight(k)' <=> AfterWeight(k + 1)
  <2>1. TAKE k \in 1 .. Len(channel)
  <2>2. CASE k = 1
    BY <2>2 DEF AfterWeight
  <2>3. CASE k # 1
    <3>1. k - 1 \in 1 .. Len(channel) - 1
      BY <1>1, <2>3
    <3>2. channel'[k - 1] = channel[k]
      BY <1>1, <3>1
    <3>3. QED
      BY <2>3, <3>2, <1>1 DEF AfterWeight
  <2>4. QED
    BY <2>2, <2>3
<1>4. \A k \in DOMAIN channel' : Expected(k)'
  <2>1. TAKE k \in DOMAIN channel'
  <2>2. k \in 1 .. Len(channel) /\ k + 1 \in DOMAIN channel /\ k + 1 # 1 /\ channel'[k] = channel[k + 1]
    BY <1>1
  <2>3. Expected(k + 1) /\ (AfterWeight(k)' <=> AfterWeight(k + 1))
    BY <1>3, <2>2
  <2>4. QED
    BY <1>2, <2>2, <2>3 DEF Expected
<1>5. HalfSaid' <=> HalfSaid
  <2> DEFINE n == Len(channel)
  <2>1. n \in Nat \ {0} /\ Len(channel') = n - 1
    BY <1>1
  <2>2. HalfSaid <=> channel[n].word = "weight"
    BY <2>1 DEF HalfSaid, AfterWeight
  <2>3. CASE n = 1
    BY <2>1, <2>2, <2>3 DEF HalfSaid, AfterWeight
  <2>4. CASE n # 1
    <3>1. n - 1 \in 1 .. n - 1 /\ (n - 1) + 1 = n
      BY <2>1, <2>4
    <3>2. channel'[n - 1] = channel[n]
      BY <1>1, <3>1
    <3>3. HalfSaid' <=> channel'[n - 1].word = "weight"
      BY <2>1, <2>4 DEF HalfSaid, AfterWeight
    <3>4. QED
      BY <2>2, <3>2, <3>3
  <2>5. QED
    BY <2>3, <2>4
<1>6. QED
  BY <1>2, <1>4, <1>5

\* A step of the debugger that says one word, in its place.
LEMMA ExpectedGrows ==
    ASSUME Typed, NEW w \in Words, Say(<<w>>), UNCHANGED pc, monitored \subseteq monitored',
           IF channel = <<>> /\ pc \in {"ack", "started"} THEN w.word = "ack"
           ELSE IF HalfSaid THEN \E id \in monitored : w = IdOf(id)
           ELSE w.word \in Events,
           \A k \in DOMAIN channel : Expected(k)
    PROVE  /\ \A k \in DOMAIN channel' : Expected(k)'
           /\ HalfSaid' <=> w.word = "weight"
           /\ channel' # <<>>
<1> DEFINE n == Len(channel) + 1
<1>1. /\ Len(channel') = n /\ Len(channel) \in Nat
      /\ \A k \in 1 .. Len(channel) : channel'[k] = channel[k]
      /\ channel'[n] = w
      /\ DOMAIN channel' = 1 .. n /\ DOMAIN channel = 1 .. Len(channel)
      /\ channel' \in Seq(Words)
  BY SayOne
<1>2. \A k \in 1 .. n : AfterWeight(k)' <=> AfterWeight(k)
  <2>1. TAKE k \in 1 .. n
  <2>2. CASE k = 1
    BY <2>2 DEF AfterWeight
  <2>3. CASE k # 1
    <3>1. k - 1 \in 1 .. Len(channel)
      BY <1>1, <2>3
    <3>2. QED
      BY <2>3, <3>1, <1>1 DEF AfterWeight
  <2>4. QED
    BY <2>2, <2>3
<1>3. \A k \in 1 .. Len(channel) : Expected(k)'
  BY <1>1, <1>2 DEF Expected
<1>4. ASSUME NEW k \in 1 .. n, k = n PROVE Expected(k)'
  <2>1. k = 1 <=> channel = <<>>
    BY <1>1, <1>4 DEF Typed
  <2>2. HalfSaid <=> AfterWeight(k)'
    <3>1. HalfSaid <=> AfterWeight(k)
      BY <1>4 DEF HalfSaid
    <3>2. QED
      BY <3>1, <1>2
  <2>3. channel'[k] = w
    BY <1>1, <1>4
  <2>4. QED
    BY <2>1, <2>2, <2>3 DEF Expected
<1>5. HalfSaid' <=> w.word = "weight"
  <2>1. n + 1 # 1 /\ n + 1 - 1 = n
    BY <1>1
  <2>2. QED
    BY <1>1, <2>1 DEF HalfSaid, AfterWeight
<1>6. channel' # <<>>
  BY <1>1
<1>7. \A k \in DOMAIN channel' : Expected(k)'
  <2>1. TAKE k \in DOMAIN channel'
  <2>2. k \in 1 .. n /\ (k = n \/ k \in 1 .. Len(channel))
    BY <1>1
  <2>3. QED
    BY <2>2, <1>3, <1>4
<1>8. QED
  BY <1>5, <1>6, <1>7

\* A request is not None.
LEMMA RequestFacts ==
    /\ None.msg = "none"
    /\ \A id : [msg |-> "string", id |-> id] # None
    /\ [msg |-> "version"] # None /\ [msg |-> "start"] # None
<1>1. None.msg = "none"
  BY DEF None
<1>2. \A id : [msg |-> "string", id |-> id].msg = "string"
  OBVIOUS
<1>3. [msg |-> "version"].msg = "version" /\ [msg |-> "start"].msg = "start"
  OBVIOUS
<1>4. QED
  BY <1>1, <1>2, <1>3

\* The fuzzer goes on, without the debugger.
LEMMA ProtoFrame ==
    ASSUME TypeOK, Typed, ProtoInv, UNCHANGED <<conf, ring_zero, request, channel, adbg, monitored, used>>,
           DOMAIN fuzz \subseteq DOMAIN fuzz',
           \/ pc' = pc
           \/ pc \in Parsing /\ pc' \in Parsing
           \/ pc \in Sending \ {"id"} /\ pc' \in Sending \ {"id"}
           \/ pc = "hash" /\ pc' = "connect" /\ (~conf.dbg \/ ring_zero)
           \/ pc' = "end"
    PROVE  ProtoInv'
<1>1. CASE pc' = "end"
  BY <1>1 DEF ProtoInv
<1>2. CASE pc' # "end"
  <2>1. (pc = "id" <=> pc' = "id") /\ (pc \in {"ack", "started"} <=> pc' \in {"ack", "started"})
        /\ pc # "end"
    BY <1>2 DEF Parsing, Sending
  <2>2. (\A k \in DOMAIN channel' : Expected(k)') /\ (HalfSaid' <=> HalfSaid)
    BY <1>2, <2>1, ExpectedStays DEF ProtoInv
  <2>3. CASE pc' = pc
    BY <2>1, <2>2, <2>3 DEF ProtoInv
  <2>4. CASE pc \in Parsing /\ pc' \in Parsing
    BY <2>1, <2>2, <2>4 DEF ProtoInv, Parsing, Sending
  <2>5. CASE pc \in Sending \ {"id"} /\ pc' \in Sending \ {"id"}
    BY <2>1, <2>2, <2>5 DEF ProtoInv, Parsing, Sending
  <2>6. CASE pc = "hash" /\ pc' = "connect" /\ (~conf.dbg \/ ring_zero)
    BY <2>1, <2>2, <2>6 DEF ProtoInv, Parsing, Sending
  <2>7. QED
    BY <1>2, <2>3, <2>4, <2>5, <2>6
<1>3. QED
  BY <1>1, <1>2

\* An instruction that asks nothing of the debugger is fetched while nothing is said.
LEMMA ProtoFetch ==
    ASSUME TypeOK, Typed, ProtoInv, Next,
           Data \/ TryCase \/ BlockBegin \/ BlockEnd \/ PushLength \/ PushHash \/ SendOrRecv
    PROVE  ProtoInv'
<1>1. UNCHANGED <<conf, pc, ring_zero, request, channel, adbg, monitored, used>>
  BY DEF Data, TryCase, BlockBegin, BlockEnd, PushLength, PushHash, SendOrRecv, Fetch
<1>2. DOMAIN fuzz \subseteq DOMAIN fuzz'
  BY FuzzTypeStep
<1>3. QED
  BY ONLY TypeOK, Typed, ProtoInv, <1>1, <1>2, ProtoFrame

\* A string that the debugger is told: only in the first pass, when it is not running.
LEMMA ProtoOriginal ==
    ASSUME TypeOK, Typed, ProtoInv, Next, NewFuzz \/ NextFuzz \/ OutOfTurn
    PROVE  ProtoInv'
<1>1. Fetch({"fuzz"}) /\ Original
  BY DEF NewFuzz, NextFuzz, OutOfTurn
<1>2. DOMAIN fuzz \subseteq DOMAIN fuzz' /\ Instr.id \in DOMAIN fuzz'
  BY FuzzTypeStep, NewFuzzEffect DEF NewFuzz, NextFuzz, OutOfTurn
<1>3. UNCHANGED <<conf, ring_zero, channel, adbg, monitored, used>> /\ pc = "fetch"
  BY <1>1 DEF Fetch
<1>4. CASE UNCHANGED <<pc, request>>
  BY ONLY TypeOK, Typed, ProtoInv, <1>2, <1>3, <1>4, ProtoFrame
<1>5. CASE /\ conf.dbg /\ ~ring_zero /\ pc' = "ack"
           /\ request' = [msg |-> "string", id |-> Instr.id]
  <2>1. channel = <<>> /\ adbg \notin {"running", "weight"}
    BY <1>3, <1>5 DEF ProtoInv, Parsing
  <2>2. request' # None /\ request'.id = Instr.id /\ request'.msg = "string"
    BY <1>5, RequestFacts
  <2>3. DOMAIN channel' = {} /\ Len(channel') = 0 /\ channel' = <<>>
    BY <1>3, <2>1
  <2>4. QED
    BY <1>2, <1>3, <1>5, <2>1, <2>2, <2>3 DEF ProtoInv, Parsing, Sending
<1>6. QED
  BY <1>1, <1>4, <1>5 DEF Original

\* The lists are worked on while nothing is said; the start is asked for after them.
LEMMA ProtoLists ==
    ASSUME TypeOK, Typed, ProtoInv, Next,
           Parsed \/ UpdateLength \/ LengthsUpdated \/ UpdateHash \/ HashesUpdated
    PROVE  ProtoInv'
<1>1. UNCHANGED <<conf, ring_zero, fuzz, channel, adbg, monitored, used>>
  BY DEF Parsed, UpdateLength, LengthsUpdated, UpdateHash, HashesUpdated, Lists, progress
<1>2. CASE Parsed \/ UpdateLength \/ LengthsUpdated \/ UpdateHash
  <2>1. pc \in Parsing /\ pc' \in Parsing /\ UNCHANGED request
    BY <1>2 DEF Parsed, UpdateLength, LengthsUpdated, UpdateHash, Lists, Parsing
  <2>2. QED
    BY ONLY TypeOK, Typed, ProtoInv, <1>1, <2>1, ProtoFrame
<1>3. CASE HashesUpdated /\ conf.dbg /\ ~ring_zero
  <2>1. pc = "hash" /\ pc' = "started" /\ request' = [msg |-> "start"]
    BY <1>3 DEF HashesUpdated, Lists
  <2>2. channel = <<>> /\ adbg \notin {"running", "weight"}
    BY <1>3, <2>1 DEF ProtoInv, Parsing
  <2>3. request' # None /\ request'.msg = "start"
    BY <2>1, RequestFacts
  <2>4. DOMAIN channel' = {} /\ Len(channel') = 0 /\ channel' = <<>>
    BY <1>1, <2>2
  <2>5. QED
    BY <1>1, <1>3, <2>1, <2>2, <2>3, <2>4 DEF ProtoInv, Parsing, Sending
<1>4. CASE HashesUpdated /\ ~(conf.dbg /\ ~ring_zero)
  <2>1. pc = "hash" /\ pc' = "connect" /\ UNCHANGED request /\ (~conf.dbg \/ ring_zero)
    BY <1>4 DEF HashesUpdated, Lists, Typed
  <2>2. QED
    BY ONLY TypeOK, Typed, ProtoInv, <1>1, <2>1, ProtoFrame
<1>5. QED
  BY <1>2, <1>3, <1>4

\* A pass is sent while the target runs.
LEMMA ProtoPlay ==
    ASSUME TypeOK, Typed, ProtoInv, Next,
           Plays
    PROVE  ProtoInv'
<1>1. UNCHANGED <<conf, ring_zero, fuzz, request, channel, adbg, monitored, used>>
  BY DEF Plays, Connect, Listen, Accept, PlayNothing, SendFuzz, WriteFuzz, RecvFuzz, PlayDone,
     NothingSaid, InPass, Quiet, debugger
<1>2. pc \in Sending \ {"id"} /\ pc' \in Sending \ {"id"}
  BY DEF Plays, Connect, Listen, Accept, PlayNothing, SendFuzz, WriteFuzz, RecvFuzz, PlayDone,
     NothingSaid, InPass, Over, Sending
<1>3. QED
  BY ONLY TypeOK, Typed, ProtoInv, <1>1, <1>2, ProtoFrame

\* A pass ends between two reads.
LEMMA ProtoEndPass ==
    ASSUME TypeOK, Typed, ProtoInv, EndPass
    PROVE  ProtoInv'
<1>1. /\ pc = "over" /\ pc' \in {"end", "fetch"} /\ (pc' = "fetch" => ring_zero' = TRUE)
      /\ UNCHANGED <<conf, fuzz, request, channel, adbg, monitored, used>>
  BY DEF EndPass, debugger, progress
<1>2. (\A k \in DOMAIN channel' : Expected(k)') /\ (HalfSaid' <=> HalfSaid)
  BY <1>1, ExpectedStays DEF ProtoInv
<1>3. QED
  BY <1>1, <1>2 DEF ProtoInv, Sending, Parsing

\* The debugger is connected to or is not there.
LEMMA ProtoHello ==
    ASSUME TypeOK, Typed, ProtoInv, Hello
    PROVE  ProtoInv'
<1>1. CASE pc' = "end"
  BY <1>1 DEF Hello, progress, ProtoInv
<1>2. CASE pc' # "end"
  <2>1. /\ pc = "hello" /\ adbg = "listen" /\ pc' = "ack" /\ request' = [msg |-> "version"]
        /\ UNCHANGED <<conf, fuzz, ring_zero, channel, adbg, monitored, used>>
    BY <1>2 DEF Hello, progress
  <2>2. channel = <<>> /\ ~ring_zero
    BY <2>1 DEF ProtoInv, Parsing
  <2>3. request' # None /\ request'.msg = "version"
    BY <2>1, RequestFacts
  <2>4. DOMAIN channel' = {} /\ Len(channel') = 0 /\ channel' = <<>>
    BY <2>1, <2>2
  <2>5. QED
    BY <2>1, <2>2, <2>3, <2>4 DEF ProtoInv, Parsing, Sending
<1>3. QED
  BY <1>1, <1>2

\* What is read is what is waited for; nothing is left of the first pass after it.
LEMMA ProtoWaitForAck ==
    ASSUME TypeOK, Typed, ProtoInv, WaitForAck
    PROVE  ProtoInv'
<1>1. /\ pc \in {"ack", "started"} /\ UNCHANGED <<conf, fuzz, ring_zero>>
      /\ \/ pc' = (IF pc = "ack" THEN "fetch" ELSE "connect")
         \/ pc' = "end"
      /\ \/ Take
         \/ Eof \/ ReadFails
  BY DEF WaitForAck, progress
<1>2. /\ UNCHANGED <<request, monitored, used>>
      /\ Take => UNCHANGED adbg
      /\ Eof \/ ReadFails =>
            channel = <<>> /\ channel' = <<>> /\ adbg \in {"closed", "reset"} /\ adbg' = "closed"
  BY <1>1 DEF Take, Eof, ReadFails, debugger
<1>3. CASE pc' = "end"
  BY <1>1, <1>2, <1>3 DEF ProtoInv, Take, Eof, ReadFails, debugger
<1>4. CASE pc' # "end" /\ (Eof \/ ReadFails)
  <2>1. channel = <<>> /\ channel' = <<>> /\ adbg \in {"closed", "reset"} /\ adbg' = "closed"
    BY <1>2, <1>4
  <2>2. DOMAIN channel' = {} /\ pc' \in {"fetch", "connect"}
    BY <1>1, <1>4, <2>1
  <2>3. QED
    BY <1>1, <1>2, <2>1, <2>2 DEF ProtoInv
<1>5. CASE pc' # "end" /\ Take
  <2>1. /\ Len(channel') = Len(channel) - 1 /\ Len(channel) \in Nat \ {0} /\ 1 \in DOMAIN channel
        /\ channel' \in Seq(Words) /\ channel \in Seq(Words)
    BY <1>5, TakeOne DEF Typed
  <2>2. channel[1].word = "ack"
    BY <1>1, <2>1 DEF ProtoInv, Expected
  <2>3. (\A k \in DOMAIN channel' : Expected(k)') /\ (HalfSaid' <=> HalfSaid)
    BY <1>1, <1>5, <2>2, ExpectedShifts DEF ProtoInv
  <2>4. CASE pc = "ack"
    <3>1. channel' = <<>> /\ pc' = "fetch"
      BY <1>1, <1>5, <2>1, <2>4 DEF ProtoInv
    <3>2. adbg \notin {"running", "weight"} /\ ~ring_zero
      BY <2>4 DEF ProtoInv
    <3>3. adbg = "listen" => request = None
      BY <2>1, <2>4 DEF ProtoInv
    <3>4. QED
      BY <1>1, <1>2, <2>3, <2>4, <3>1, <3>2, <3>3 DEF ProtoInv, Parsing, Sending
  <2>5. CASE pc = "started"
    <3>1. pc' = "connect" /\ adbg # "listen"
      BY <1>1, <1>5, <2>1, <2>5 DEF ProtoInv
    <3>2. conf.dbg
      BY <1>5 DEF ProtoInv, Take, Typed
    <3>3. QED
      BY <1>1, <1>2, <2>3, <2>5, <3>1, <3>2 DEF ProtoInv, Parsing, Sending
  <2>6. QED
    BY <1>1, <2>4, <2>5
<1>6. QED
  BY <1>1, <1>3, <1>4, <1>5

\* A weight and its id are read, each where the other was not.
LEMMA ProtoRead ==
    ASSUME TypeOK, Typed, ProtoInv, Next, ReadMsg \/ ReadId
    PROVE  ProtoInv'
<1>1. /\ UNCHANGED <<conf, ring_zero>> /\ DOMAIN fuzz \subseteq DOMAIN fuzz'
      /\ pc \in {"select", "id"}
  BY FuzzTypeStep DEF ReadMsg, ReadId, InPass
<1>2. CASE /\ UNCHANGED <<request, channel, monitored, used>> /\ channel = <<>>
           /\ adbg \in {"closed", "reset"} /\ adbg' = "closed"
  <2>1. pc' \in {"id", "over", "play"} /\ DOMAIN channel' = {}
    BY <1>2 DEF ReadMsg, ReadId, InPass, Over, Take
  <2>2. QED
    BY <1>1, <1>2, <2>1 DEF ProtoInv, Parsing, Sending
<1>3. CASE Take
  <2>1. /\ Head(channel) = channel[1] /\ channel[1] \in Words /\ 1 \in DOMAIN channel
        /\ channel # <<>>
    BY <1>3, TakeOne DEF Take
  <2>2. pc' \in {"id", "over", "play"} /\ (pc' = "id" <=> channel[1].word = "weight")
    <3>1. CASE ReadMsg
      <4>1. /\ pc = "select"
            /\ \/ Head(channel) = Word("weight") /\ pc' = "id"
               \/ Head(channel) # Word("weight") /\ pc' = "over"
        BY <1>3, <2>1, <3>1 DEF ReadMsg, InPass, Over, Eof, ReadFails, debugger
      <4>2. QED
        BY <2>1, <4>1, WordFacts
    <3>2. CASE ReadId
      <4>1. pc = "id" /\ pc' \in {"over", "play"}
        BY <3>2 DEF ReadId, InPass, Over
      <4>2. \E id \in monitored : channel[1] = IdOf(id)
        BY <2>1, <4>1 DEF ProtoInv, Expected, AfterWeight
      <4>3. QED
        BY <4>1, <4>2, WordFacts
    <3>3. QED
      BY <3>1, <3>2
  <2>3. /\ \A k \in DOMAIN channel' : Expected(k)'
        /\ HalfSaid' <=> HalfSaid
        /\ UNCHANGED <<request, adbg, monitored, used>>
    BY <1>1, <1>3, <2>2, ExpectedShifts DEF ProtoInv
  <2>4. adbg # "listen" /\ pc # "end"
    BY <1>1 DEF ProtoInv, Sending
  <2>5. conf.dbg
    BY <2>1 DEF ProtoInv, Typed
  <2>6. QED
    BY <1>1, <2>2, <2>3, <2>4, <2>5 DEF ProtoInv, Parsing
<1>4. QED
  <2>1. Take \/ Eof \/ ReadFails
    BY DEF ReadMsg, ReadId
  <2>2. Eof \/ ReadFails =>
            /\ UNCHANGED <<request, channel, monitored, used>> /\ channel = <<>>
            /\ adbg \in {"closed", "reset"} /\ adbg' = "closed"
    BY DEF Eof, ReadFails, debugger
  <2>3. QED
    BY <1>2, <1>3, <2>1, <2>2

\* The debugger acknowledges what was asked, once.
LEMMA ProtoAnswer ==
    ASSUME TypeOK, Typed, ProtoInv, Answer
    PROVE  ProtoInv'
<1>1. /\ UNCHANGED <<conf, pc, fuzz, ring_zero, used>> /\ pc # "end" /\ adbg = "listen"
      /\ request # None /\ Say(<<Word("ack")>>) /\ request' = None
      /\ adbg' = IF request.msg = "start" THEN "running" ELSE adbg
      /\ monitored' = IF request.msg = "string" THEN monitored \cup {request.id} ELSE monitored
  BY DEF Answer, Debugs, progress
<1>2. /\ conf.dbg /\ ~ring_zero /\ pc \in {"ack", "started"} /\ channel = <<>>
      /\ pc = "started" <=> request.msg = "start"
  BY <1>1 DEF ProtoInv, TypeOK, Phases, Parsing, Sending
<1>3. Word("ack") \in Words /\ Word("ack").word = "ack"
  BY WordFacts
<1>4. /\ \A k \in DOMAIN channel' : Expected(k)'
      /\ HalfSaid' <=> Word("ack").word = "weight"
      /\ channel' # <<>>
  BY <1>1, <1>2, <1>3, ExpectedGrows DEF ProtoInv
<1>5. Len(channel') = 1
  BY <1>1, <1>2, <1>3, SayOne
<1>6. monitored' \subseteq DOMAIN fuzz'
  BY <1>1 DEF ProtoInv
<1>7. ~HalfSaid'
  BY <1>3, <1>4
<1>8. CASE pc = "ack"
  <2>1. adbg' = "listen"
    BY <1>1, <1>2, <1>8
  <2>2. QED
    BY <1>1, <1>2, <1>4, <1>5, <1>6, <1>8, <2>1 DEF ProtoInv, Parsing, Sending
<1>9. CASE pc = "started"
  <2>1. adbg' = "running"
    BY <1>1, <1>2, <1>9
  <2>2. QED
    BY <1>1, <1>2, <1>4, <1>5, <1>6, <1>7, <1>9, <2>1 DEF ProtoInv, Parsing, Sending
<1>10. QED
  BY <1>2, <1>8, <1>9

\* The debugger of a target that runs: what holds of the fuzzer then, see ProtoInv.
LEMMA ProtoSays ==
    ASSUME TypeOK, Typed, ProtoInv, NEW w \in Words, Say(<<w>>),
           adbg \in {"running", "weight"}, pc # "end",
           UNCHANGED <<conf, pc, fuzz, ring_zero, request, monitored>>,
           IF HalfSaid THEN \E id \in monitored : w = IdOf(id) ELSE w.word \in Events,
           \/ adbg' \in {"closed", "reset"}
           \/ adbg' = "weight" /\ w.word = "weight" /\ used' \in monitored
           \/ adbg' = "running" /\ w.word # "weight"
    PROVE  ProtoInv'
<1>1. /\ pc \notin {"hello", "ack"} /\ (pc \in Parsing => ring_zero) /\ conf.dbg
      /\ pc = "started" => channel # <<>>
  BY DEF ProtoInv, Typed
<1>2. /\ \A k \in DOMAIN channel' : Expected(k)'
      /\ HalfSaid' <=> w.word = "weight"
      /\ channel' # <<>>
  BY <1>1, ExpectedGrows DEF ProtoInv
<1>3. adbg' # "listen"
  OBVIOUS
<1>4. CASE adbg' \in {"closed", "reset"}
  BY <1>1, <1>2, <1>4 DEF ProtoInv
<1>5. CASE adbg' = "weight" /\ w.word = "weight" /\ used' \in monitored
  BY <1>1, <1>2, <1>5 DEF ProtoInv
<1>6. CASE adbg' = "running" /\ w.word # "weight"
  BY <1>1, <1>2, <1>6 DEF ProtoInv
<1>7. QED
  BY <1>4, <1>5, <1>6

\* The debugger says a weight, its id or the end of the target.
LEMMA ProtoTarget ==
    ASSUME TypeOK, Typed, ProtoInv, Hit \/ SayId \/ TargetEnds
    PROVE  ProtoInv'
<1>1. /\ UNCHANGED <<conf, pc, fuzz, ring_zero, request, monitored>> /\ pc # "end"
      /\ adbg \in {"running", "weight"}
  BY DEF Hit, SayId, TargetEnds, Debugs, progress
<1>2. HalfSaid <=> adbg = "weight"
  BY <1>1 DEF ProtoInv
<1>3. CASE Hit
  <2>1. /\ adbg = "running" /\ Say(<<Word("weight")>>) /\ adbg' = "weight" /\ used' \in monitored
    BY <1>3 DEF Hit, Debugs
  <2>2. Word("weight") \in Words /\ Word("weight").word = "weight"
    BY WordFacts
  <2>3. ~HalfSaid /\ "weight" \in Events
    BY <1>2, <2>1 DEF Events
  <2>4. QED
    BY <1>1, <2>1, <2>2, <2>3, ProtoSays
<1>4. CASE SayId
  <2>1. /\ adbg = "weight" /\ Say(<<IdOf(used)>>) /\ adbg' = "running"
    BY <1>4 DEF SayId, Debugs
  <2>2. HalfSaid /\ used \in monitored
    BY <1>1, <1>2, <2>1 DEF ProtoInv
  <2>3. used \in Ids
    BY <2>2 DEF TypeOK
  <2>4. IdOf(used) \in Words /\ IdOf(used).word = "id"
    BY <2>3, WordFacts
  <2>5. QED
    BY <1>1, <2>1, <2>2, <2>4, ProtoSays
<1>5. CASE TargetEnds
  <2>1. PICK word \in {"sigsegv", "exit"} : Say(<<Word(word)>>)
    BY <1>5 DEF TargetEnds
  <2>2. adbg = "running" /\ adbg' \in {"closed", "reset"}
    BY <1>5 DEF TargetEnds, Debugs
  <2>3. Word(word) \in Words /\ Word(word).word = word /\ word \in Events
    BY WordFacts DEF Events
  <2>4. ~HalfSaid
    BY <1>2, <2>2
  <2>5. QED
    BY <1>1, <2>1, <2>2, <2>3, <2>4, ProtoSays
<1>6. QED
  BY <1>3, <1>4, <1>5

\* The debugger dies at any time.
LEMMA ProtoInterrupt ==
    ASSUME TypeOK, Typed, ProtoInv, Interrupt
    PROVE  ProtoInv'
<1>1. /\ UNCHANGED <<conf, pc, fuzz, ring_zero, request, channel, monitored, used>>
      /\ adbg' \in {"closed", "reset"} /\ adbg # "closed" /\ pc # "end"
  BY DEF Interrupt, Debugs, progress
<1>2. (\A k \in DOMAIN channel' : Expected(k)') /\ (HalfSaid' <=> HalfSaid)
  BY <1>1, ExpectedStays DEF ProtoInv
<1>3. QED
  BY <1>1, <1>2 DEF ProtoInv

\* Every step keeps ProtoInv.
LEMMA ProtoStep ==
    ASSUME TypeOK, Typed, ProtoInv, Next
    PROVE  ProtoInv'
BY ProtoFetch, ProtoOriginal, ProtoLists, ProtoPlay, ProtoEndPass, ProtoHello, ProtoWaitForAck,
   ProtoRead, ProtoAnswer, ProtoTarget, ProtoInterrupt
   DEF Next, Fuzzer, Runs, Waits, Plays, Adbg

\* What the debugger is told and says has the ids of the script.
LEMMA TalkTypeStep ==
    ASSUME TypeOK, Typed, ProtoInv, Next
    PROVE  channel' \in Seq(Words) /\ monitored' \subseteq Ids
<1>1. monitored' \subseteq Ids
  <2>1. ProtoInv' /\ FuzzTyped'
    BY ProtoStep, FuzzTypeStep
  <2>2. QED
    BY <2>1 DEF ProtoInv, FuzzTyped
<1>2. channel \in Seq(Words)
  BY DEF Typed
<1>3. CASE Take
  BY <1>1, <1>3, TakeOne
<1>4. CASE \E w \in Words : Say(<<w>>)
  BY <1>1, <1>4, SayOne
<1>5. CASE UNCHANGED channel
  BY <1>1, <1>2, <1>5
<1>6. Take \/ (\E w \in Words : Say(<<w>>)) \/ UNCHANGED channel
  <2>1. CASE Data \/ NewFuzz \/ TryCase \/ NextFuzz \/ OutOfTurn \/ BlockBegin \/ BlockEnd \/ PushLength
             \/ PushHash \/ SendOrRecv
    BY <2>1 DEF Data, NewFuzz, TryCase, NextFuzz, OutOfTurn, BlockBegin, BlockEnd, PushLength,
                PushHash, SendOrRecv, Fetch
  <2>2. CASE Parsed \/ UpdateLength \/ LengthsUpdated \/ UpdateHash \/ HashesUpdated
    BY <2>2 DEF Parsed, UpdateLength, LengthsUpdated, UpdateHash, HashesUpdated, Lists
  <2>3. CASE Plays
    BY <2>3 DEF Plays, Connect, Listen, Accept, PlayNothing, SendFuzz, WriteFuzz, RecvFuzz, PlayDone,
     NothingSaid, Quiet, debugger
  <2>4. CASE EndPass \/ Hello
    BY <2>4 DEF EndPass, Hello, debugger
  <2>5. CASE WaitForAck \/ ReadMsg \/ ReadId
    BY <2>5 DEF WaitForAck, ReadMsg, ReadId, Eof, ReadFails, debugger
  <2>6. CASE Answer \/ Interrupt
    BY <2>6, WordFacts DEF Answer, Interrupt
  <2>7. CASE SayId
    <3>1. used \in Ids /\ Say(<<IdOf(used)>>)
      BY <2>7 DEF SayId, Debugs, ProtoInv, TypeOK
    <3>2. QED
      BY <3>1, WordFacts
  <2>8. CASE Hit \/ TargetEnds
    BY <2>8, WordFacts DEF Hit, TargetEnds
  <2>9. QED
    BY <2>1, <2>2, <2>3, <2>4, <2>5, <2>6, <2>7, <2>8 DEF Next, Fuzzer, Runs, Waits, Plays, Adbg
<1>7. QED
  BY <1>1, <1>3, <1>4, <1>5, <1>6

\* Every step keeps the types and the protocol.
LEMMA TypeStep ==
    ASSUME TypeOK, Typed, SeqInv, ProtoInv, Next
    PROVE  TypeOK' /\ Typed' /\ SeqInv' /\ ProtoInv'
<1>1. /\ SeqInv' /\ offset' \in 1 .. Len(Script) + 1 /\ count' \in 0 .. Len(Script)
      /\ Len(length') < offset' /\ Len(hash') < offset' /\ Len(chrono') < offset'
  BY ListStep
<1>2. FuzzTyped'
  BY FuzzTypeStep
<1>3. channel' \in Seq(Words) /\ monitored' \subseteq Ids
  BY TalkTypeStep
<1>4. ProtoInv'
  BY ProtoStep
<1>5. /\ pc' \in Phases /\ result' \in {-1, 0} /\ conf' = conf
      /\ adbg' \in {"listen", "running", "weight", "closed", "reset"} /\ hits' \in 0 .. WeightBound
      /\ ring_zero' \in BOOLEAN
  BY ControlType DEF Typed
<1>6. Typed'
  BY <1>1, <1>2, <1>3, <1>5 DEF Typed, FuzzTyped
<1>7. TypeOK'
  <2>1. ASSUME NEW id \in DOMAIN fuzz'
        PROVE  /\ fuzz'[id].total = Len(Script[InstrOf[id]].cases)
               /\ fuzz'[id].current \in 0 .. fuzz'[id].total /\ fuzz'[id].weight \in Nat
    <3>1. fuzz'[id] \in Entries /\ fuzz'[id].current <= fuzz'[id].total
          /\ fuzz'[id].total = Len(Script[InstrOf[id]].cases)
      BY ONLY <1>2, id \in DOMAIN fuzz' DEF FuzzTyped
    <3>2. QED
      BY ONLY <3>1 DEF Entries
  <2>2. DOMAIN fuzz' \subseteq Ids /\ fuzz_current' \in 0 .. Cardinality(Ids)
    BY ONLY <1>2 DEF FuzzTyped
  <2>3. QED
    BY ONLY <1>1, <1>3, <1>5, <2>1, <2>2 DEF TypeOK
<1>8. QED
  BY <1>1, <1>4, <1>6, <1>7

\* The types and the protocol hold at the start.
LEMMA InitTypes ==
    ASSUME Init
    PROVE  TypeOK /\ Typed /\ SeqInv /\ ProtoInv
<1>1. DOMAIN fuzz = {} /\ fuzz \in [DOMAIN fuzz -> Entries]
  BY DEF Init
<1>2. <<>> \in Seq(Ids \X Nat) /\ <<>> \in Seq(Words) /\ Len(<<>>) = 0
  OBVIOUS
<1>3. Len(Script) \in Nat /\ WeightBound \in Nat
  BY AutodafeAssumption
<1>4. TypeOK
  BY <1>1, <1>3, IdsAreNumbers DEF Init, TypeOK, Phases
<1>5. Typed
  <2>1. conf.dbg \in BOOLEAN /\ conf.bruteforce \in BOOLEAN /\ ring_zero \in BOOLEAN
    BY DEF Init
  <2>2. /\ tried = <<>> /\ channel = <<>> /\ length = <<>> /\ hash = <<>> /\ chrono = <<>>
        /\ offset = 1
    BY DEF Init
  <2>3. QED
    BY <1>1, <1>2, <2>1, <2>2 DEF Typed
<1>6. SeqInv
  BY EmptyLists DEF Init, SeqInv
<1>7. ProtoInv
  <2>1. request = None /\ channel = <<>> /\ DOMAIN channel = {} /\ monitored = {} /\ ~ring_zero
        /\ (conf.dbg => pc = "hello" /\ adbg = "listen") /\ (~conf.dbg => pc = "fetch" /\ adbg = "closed")
    BY DEF Init
  <2>2. QED
    BY <1>1, <2>1 DEF ProtoInv, Parsing, Sending
<1>8. QED
  BY <1>4, <1>5, <1>6, <1>7

\* A stutter keeps the types and the protocol.
LEMMA StutterTypes ==
    ASSUME TypeOK, Typed, SeqInv, ProtoInv, UNCHANGED vars
    PROVE  TypeOK' /\ Typed' /\ SeqInv' /\ ProtoInv'
<1>1. TypeOK'
  BY DEF TypeOK, vars, lists, progress, debugger
<1>2. Typed' /\ SeqInv'
  BY DEF Typed, SeqInv, vars, lists, progress, debugger
<1>3. UNCHANGED <<conf, pc, fuzz, ring_zero, request, channel, adbg, monitored, used>>
  BY DEF vars, lists, progress, debugger
<1>4. ProtoInv'
  BY ONLY <1>3, TypeOK, Typed, ProtoInv, ProtoFrame
<1>5. QED
  BY <1>1, <1>2, <1>4

\* The inductive invariant of the protocol.
THEOREM ProtocolInvariant == Spec => [](TypeOK /\ Typed /\ SeqInv /\ ProtoInv)
<1>1. Init => TypeOK /\ Typed /\ SeqInv /\ ProtoInv
  BY InitTypes
<1>2. TypeOK /\ Typed /\ SeqInv /\ ProtoInv /\ [Next]_vars => (TypeOK /\ Typed /\ SeqInv /\ ProtoInv)'
  BY TypeStep, StutterTypes
<1>3. QED
  BY <1>1, <1>2, PTL DEF Spec

\* The two sides of the debugger protocol (dbg_wait_for_ack and dbg_read_msg of the fuzzer,
\* inet_decode_msg and inet_send_msg of adbg) agree on what comes next.
THEOREM DebuggerIsUnderstood == Spec => []DebuggerUnderstood
<1>1. TypeOK /\ Typed /\ SeqInv /\ ProtoInv => DebuggerUnderstood
  <2> SUFFICES ASSUME TypeOK, Typed, ProtoInv, channel # <<>>, pc # "end"
               PROVE  CASE pc \in {"ack", "started"} -> Head(channel) = Word("ack")
                        [] pc = "id" -> \E id \in DOMAIN fuzz : Head(channel) = IdOf(id)
                        [] pc = "end" -> TRUE
                        [] OTHER -> Head(channel).word \in {"weight", "sigsegv", "exit"}
    BY DEF DebuggerUnderstood
  <2>1. 1 \in DOMAIN channel /\ Head(channel) = channel[1] /\ channel[1] \in Words
    BY DEF Typed
  <2>2. Expected(1) /\ monitored \subseteq DOMAIN fuzz
    BY <2>1 DEF ProtoInv
  <2>3. CASE pc \in {"ack", "started"}
    <3>1. channel[1].word = "ack"
      BY <2>2, <2>3 DEF Expected
    <3>2. channel[1] = Word("ack")
      <4>1. channel[1] \in {Word("ack"), Word("weight"), Word("sigsegv"), Word("exit")}
            \/ \E id \in Ids : channel[1] = IdOf(id)
        BY <2>1 DEF Words
      <4>2. QED
        BY <3>1, <4>1, WordFacts
    <3>3. QED
      BY <2>1, <2>3, <3>2
  <2>4. CASE pc = "id"
    BY <2>1, <2>2, <2>4 DEF Expected, AfterWeight
  <2>5. CASE pc \notin {"ack", "started", "id"}
    BY <2>1, <2>2, <2>5 DEF Expected, AfterWeight, Events
  <2>6. QED
    BY <2>3, <2>4, <2>5
<1>2. QED
  BY <1>1, ProtocolInvariant, PTL

-----------------------------------------------------------------------------
(* The turn of the fuzzes.                                                  *)

\* The numbers of the fuzzes and of the cases that were tried.
LEMMA TurnTypes ==
    ASSUME TypeOK, Typed
    PROVE  /\ fuzz_current \in Nat /\ \A id \in Ids : id \in Nat
           /\ \A id \in DOMAIN fuzz :
                 /\ id \in Ids /\ fuzz[id].current \in Nat /\ fuzz[id].total \in Nat
                 /\ fuzz[id].weight \in Nat /\ fuzz[id].current <= fuzz[id].total
           /\ tried \in Seq(Ids \X Nat) /\ DOMAIN tried = 1 .. Len(tried) /\ Len(tried) \in Nat
           /\ \A i \in DOMAIN tried : tried[i][1] \in Nat /\ tried[i][2] \in Nat
<1>1. FuzzTyped /\ Ids = 0 .. Cardinality(Ids) - 1 /\ Cardinality(Ids) \in Nat
  BY FuzzTypes, IdsAreNumbers
<1>2. tried \in Seq(Ids \X Nat)
  BY DEF Typed
<1>3. DOMAIN tried = 1 .. Len(tried) /\ Len(tried) \in Nat /\ \A i \in DOMAIN tried : tried[i] \in Ids \X Nat
  BY ONLY <1>2, SeqFacts
<1>4. \A id \in Ids : id \in Nat
  BY ONLY <1>1
<1>5. \A i \in DOMAIN tried : tried[i][1] \in Nat /\ tried[i][2] \in Nat
  BY ONLY <1>3, <1>4
<1>6. \A id \in DOMAIN fuzz :
         /\ id \in Ids /\ fuzz[id].current \in Nat /\ fuzz[id].total \in Nat
         /\ fuzz[id].weight \in Nat /\ fuzz[id].current <= fuzz[id].total
  BY ONLY <1>1 DEF FuzzTyped, Entries
<1>7. fuzz_current \in Nat
  BY ONLY <1>1 DEF FuzzTyped
<1>8. QED
  BY ONLY <1>2, <1>3, <1>4, <1>5, <1>6, <1>7

\* A case that is pushed is added to the history of its fuzz.
LEMMA TriedGrows ==
    ASSUME TypeOK, Typed, NEW id, NEW n, id \in Ids, n \in Nat, tried' = Append(tried, <<id, n>>)
    PROVE  /\ \A other \in Ids : other # id => TriedOf(other)' = TriedOf(other)
           /\ TriedOf(id)' = TriedOf(id) \cup {n}
           /\ DOMAIN tried' = 1 .. Len(tried) + 1
           /\ \A i \in DOMAIN tried : tried'[i] = tried[i]
           /\ tried'[Len(tried) + 1] = <<id, n>>
<1>1. tried \in Seq(Ids \X Nat) /\ DOMAIN tried = 1 .. Len(tried) /\ Len(tried) \in Nat
  BY TurnTypes
<1>2. <<id, n>> \in Ids \X Nat
  OBVIOUS
<1>3. /\ tried' \in Seq(Ids \X Nat) /\ Len(tried') = Len(tried) + 1
      /\ \A k \in 1 .. Len(tried) : tried'[k] = tried[k]
      /\ tried'[Len(tried) + 1] = <<id, n>>
  BY ONLY <1>1, <1>2, SeqAppend, tried' = Append(tried, <<id, n>>)
<1>4. DOMAIN tried' = 1 .. Len(tried) + 1
  BY ONLY <1>1, <1>3, SeqFacts
<1> DEFINE m == Len(tried) + 1
<1>5. m \in Nat /\ DOMAIN tried' = DOMAIN tried \cup {m} /\ m \notin DOMAIN tried
  BY ONLY <1>1, <1>4
<1>6. \A i \in DOMAIN tried : tried'[i] = tried[i]
  BY ONLY <1>1, <1>3
<1> HIDE DEF m
<1>7. tried'[m][1] = id /\ tried'[m][2] = n
  BY ONLY <1>3 DEF m
<1>8. ASSUME NEW other \in Ids
      PROVE  TriedOf(other)' = IF other = id THEN TriedOf(other) \cup {n} ELSE TriedOf(other)
  BY ONLY <1>5, <1>6, <1>7 DEF TriedOf
<1>9. QED
  BY <1>3, <1>4, <1>6, <1>8

\* A fuzz that is met for the first time was not tried.
LEMMA TurnNewFuzz ==
    ASSUME TypeOK, Typed, TurnInv, Next, NewFuzz
    PROVE  TurnInv'
<1> DEFINE new == Instr.id
<1>1. /\ DOMAIN fuzz' = DOMAIN fuzz \cup {new} /\ \A id \in DOMAIN fuzz : fuzz'[id] = fuzz[id]
      /\ fuzz'[new].current = 0 /\ (fuzz'[new].weight = 0 => Instr.kind = "string")
      /\ UNCHANGED <<fuzz_current, tried>>
  BY NewFuzzEffect
<1>2. Fetch({"fuzz"}) /\ new \notin DOMAIN fuzz
  BY DEF NewFuzz
<1>3. new \in Ids /\ Script[InstrOf[new]] = Instr
  BY <1>2, FetchedFuzz
<1>4. conf' = conf
  BY ControlType
<1>5. \A id : TriedOf(id)' = TriedOf(id) /\ (MaySkip(id)' <=> MaySkip(id))
  BY <1>1, <1>4 DEF TriedOf, MaySkip
<1> HIDE DEF new
<1>6. \A id \in DOMAIN fuzz : Relevant(id)' <=> Relevant(id)
  BY <1>1, <1>4 DEF Relevant
<1>7. ASSUME NEW id \in DOMAIN fuzz
      PROVE  EntryInv(id)'
  <2>1. EntryInv(id)
    BY DEF TurnInv
  <2>2. QED
    BY <1>1, <1>5, <1>6, <2>1 DEF EntryInv
<1>8. ASSUME NEW id, id = new
      PROVE  EntryInv(id)'
  <2>1. TriedOf(id) = {} /\ id >= fuzz_current /\ id \in Nat /\ fuzz_current \in Nat
    BY <1>2, <1>3, <1>8, TurnTypes DEF new, TurnInv
  <2>2. 1 .. 0 = {}
    OBVIOUS
  <2>3. fuzz'[id].current = 0 /\ (fuzz'[id].weight = 0 => Script[InstrOf[id]].kind = "string")
    BY <1>1, <1>3, <1>8
  <2>4. TriedOf(id)' = 1 .. fuzz'[id].current
    BY <1>5, <2>1, <2>2, <2>3
  <2>5. ~(id < fuzz_current')
    BY <1>1, <2>1
  <2>6. QED
    BY <2>3, <2>4, <2>5 DEF EntryInv
<1>9. QED
  BY <1>1, <1>5, <1>7, <1>8 DEF TurnInv, Before

\* The case that is tried is the next of the fuzz in turn.
LEMMA TurnTryCase ==
    ASSUME TypeOK, Typed, TurnInv, Next, TryCase
    PROVE  TurnInv'
<1> DEFINE id == Instr.id
           n == fuzz[id].current
<1>1. /\ id \in DOMAIN fuzz /\ id = fuzz_current /\ Left(id)
      /\ DOMAIN fuzz' = DOMAIN fuzz
      /\ \A other \in DOMAIN fuzz : other # id => fuzz'[other] = fuzz[other]
      /\ fuzz'[id].total = fuzz[id].total /\ fuzz'[id].weight = fuzz[id].weight
      /\ fuzz'[id].current = n + 1
      /\ tried' = Append(tried, <<id, n + 1>>)
      /\ UNCHANGED fuzz_current
  BY TryCaseEffect
<1>2. conf' = conf
  BY ControlType
<1> HIDE DEF id
<1>3. id \in Ids /\ id \in Nat /\ n \in Nat /\ n + 1 \in Nat
  BY <1>1, TurnTypes
<1> HIDE DEF n
<1>4. /\ \A other \in Ids : other # id => TriedOf(other)' = TriedOf(other)
      /\ DOMAIN tried' = 1 .. Len(tried) + 1
      /\ \A i \in DOMAIN tried : tried'[i] = tried[i]
      /\ tried'[Len(tried) + 1] = <<id, n + 1>>
  BY ONLY TypeOK, Typed, <1>1, <1>3, TriedGrows
<1>5. \A other \in {id} : TriedOf(other)' = TriedOf(other) \cup {n + 1}
  BY ONLY TypeOK, Typed, <1>1, <1>3, TriedGrows DEF TriedOf
<1>6. \A other : MaySkip(other)' <=> MaySkip(other)
  BY <1>2 DEF MaySkip
<1>7. Relevant(id) /\ TriedOf(id) = 1 .. n
  BY <1>1, <1>3 DEF Left, TurnInv, EntryInv, n
<1>8. ASSUME NEW other \in DOMAIN fuzz
      PROVE  EntryInv(other)'
  <2>0. EntryInv(other) /\ other \in Ids
    BY TurnTypes DEF TurnInv
  <2>1. CASE other # id
    <3>1. fuzz'[other] = fuzz[other] /\ TriedOf(other)' = TriedOf(other)
          /\ (Relevant(other)' <=> Relevant(other))
      BY <1>1, <1>2, <1>4, <2>0, <2>1 DEF Relevant
    <3>2. QED
      BY <1>1, <1>6, <2>0, <3>1 DEF EntryInv
  <2>2. CASE other = id
    <3>1. TriedOf(other)' = 1 .. n + 1
      <4>1. (1 .. n) \cup {n + 1} = 1 .. n + 1
        BY <1>3
      <4>2. other \in {id}
        BY <2>2
      <4>3. TriedOf(other)' = TriedOf(other) \cup {n + 1}
        BY ONLY <1>5, <4>2
      <4>4. TriedOf(other) = 1 .. n
        BY <1>7, <2>2
      <4>5. QED
        BY ONLY <4>1, <4>3, <4>4
    <3>2. Relevant(other)'
      BY <1>1, <1>2, <1>7, <2>2 DEF Relevant
    <3>3. ~(id < fuzz_current') /\ ~(id > fuzz_current')
      BY <1>1, <1>3
    <3>4. QED
      BY <1>1, <2>0, <2>2, <3>1, <3>2, <3>3 DEF EntryInv
  <2>3. QED
    BY <2>1, <2>2
<1>9. \A other \in Ids \ DOMAIN fuzz' : TriedOf(other)' = {} /\ other >= fuzz_current'
  BY <1>1, <1>4 DEF TurnInv
<1>10. /\ Len(tried) \in Nat /\ DOMAIN tried = 1 .. Len(tried)
       /\ \A i \in DOMAIN tried : tried[i][1] \in Nat /\ tried[i][2] \in Nat
  BY TurnTypes
<1>11. \A i \in DOMAIN tried : Before(tried[i], <<id, n + 1>>)
  <2>1. TAKE i \in DOMAIN tried
  <2>2. tried[i][1] <= id
    BY <1>1 DEF TurnInv
  <2>3. ASSUME tried[i][1] = id PROVE tried[i][2] < n + 1
    <3>1. tried[i][2] \in TriedOf(id)
      BY <2>3 DEF TriedOf
    <3>2. QED
      BY <1>3, <1>7, <3>1
  <2>4. QED
    BY <1>3, <1>10, <2>2, <2>3 DEF Before
<1>12. \A i, j \in DOMAIN tried' : i < j => Before(tried'[i], tried'[j])
  <2>1. TAKE i, j \in DOMAIN tried'
  <2>2. SUFFICES ASSUME i < j PROVE Before(tried'[i], tried'[j])
    OBVIOUS
  <2>3. i \in DOMAIN tried /\ (j \in DOMAIN tried \/ j = Len(tried) + 1)
    BY <1>4, <1>10, <2>2
  <2>4. CASE j \in DOMAIN tried
    BY <1>4, <2>2, <2>3, <2>4 DEF TurnInv
  <2>5. CASE j = Len(tried) + 1
    BY <1>4, <1>11, <2>3, <2>5
  <2>6. QED
    BY <2>3, <2>4, <2>5
<1>13. \A i \in DOMAIN tried' : tried'[i][1] <= fuzz_current'
  <2>1. TAKE i \in DOMAIN tried'
  <2>2. CASE i \in DOMAIN tried
    BY <1>1, <1>4, <2>2 DEF TurnInv
  <2>3. CASE i = Len(tried) + 1
    BY <1>1, <1>3, <1>4, <2>3
  <2>4. QED
    BY <1>4, <1>10, <2>2, <2>3
<1>14. QED
  BY <1>1, <1>8, <1>9, <1>12, <1>13 DEF TurnInv

\* The turn leaves a fuzz that is done, or is a string without weight.
LEMMA TurnNextFuzz ==
    ASSUME TypeOK, Typed, TurnInv, Next, NextFuzz
    PROVE  TurnInv'
<1> DEFINE id == Instr.id
<1>1. /\ id \in DOMAIN fuzz /\ id = fuzz_current
      /\ DOMAIN fuzz' = DOMAIN fuzz
      /\ \A other \in DOMAIN fuzz : other # id => fuzz'[other] = fuzz[other]
      /\ fuzz'[id].total = fuzz[id].total /\ fuzz'[id].weight = fuzz[id].weight
      /\ fuzz'[id].current = fuzz[id].total
      /\ Relevant(id) => fuzz[id].current = fuzz[id].total
      /\ fuzz_current' = fuzz_current + 1 /\ UNCHANGED tried
  BY NextFuzzEffect
<1>2. conf' = conf
  BY ControlType
<1> HIDE DEF id
<1>3. /\ id \in Ids /\ id \in Nat /\ fuzz[id].current \in Nat /\ fuzz[id].total \in Nat
      /\ fuzz[id].weight \in Nat /\ fuzz[id].current <= fuzz[id].total
  BY <1>1, TurnTypes
<1>4. \A other : TriedOf(other)' = TriedOf(other) /\ (MaySkip(other)' <=> MaySkip(other))
  BY <1>1, <1>2 DEF TriedOf, MaySkip
<1>5. EntryInv(id)
  BY <1>1 DEF TurnInv
<1>6. TriedOf(id) = 1 .. fuzz[id].total \/ (MaySkip(id) /\ TriedOf(id) = {})
  <2>1. TriedOf(id) = 1 .. fuzz[id].current
    BY <1>1, <1>3, <1>5 DEF EntryInv
  <2>2. CASE Relevant(id)
    BY <1>1, <2>1, <2>2
  <2>3. CASE ~Relevant(id)
    <3>1. fuzz[id].current = 0
      BY <1>1, <1>3, <1>5, <2>3 DEF EntryInv
    <3>2. conf.dbg /\ ~conf.bruteforce /\ fuzz[id].weight = 0
      BY <1>3, <2>3 DEF Relevant
    <3>3. MaySkip(id)
      BY <1>5, <3>2 DEF MaySkip, EntryInv
    <3>4. 1 .. 0 = {}
      OBVIOUS
    <3>5. QED
      BY <2>1, <3>1, <3>3, <3>4
  <2>4. QED
    BY <2>2, <2>3
<1>7. ASSUME NEW other \in DOMAIN fuzz
      PROVE  EntryInv(other)'
  <2>0. EntryInv(other) /\ other \in Nat /\ fuzz_current \in Nat
    BY TurnTypes DEF TurnInv
  <2>1. CASE other # id
    <3>1. fuzz'[other] = fuzz[other] /\ (Relevant(other)' <=> Relevant(other))
      BY <1>1, <1>2, <2>1 DEF Relevant
    <3>2. /\ other < fuzz_current' <=> other < fuzz_current
          /\ other > fuzz_current' => other > fuzz_current
          /\ other = fuzz_current' => other > fuzz_current
      BY <1>1, <2>0, <2>1
    <3>3. other > fuzz_current => fuzz[other].current = 0
      BY <2>0 DEF EntryInv
    <3>4. QED
      BY <1>4, <2>0, <3>1, <3>2, <3>3 DEF EntryInv
  <2>2. CASE other = id
    <3>1. other < fuzz_current' /\ ~(other > fuzz_current') /\ other # fuzz_current'
      BY <1>1, <2>0, <2>2
    <3>2. QED
      BY <1>1, <1>4, <1>6, <2>0, <2>2, <3>1 DEF EntryInv
  <2>3. QED
    BY <2>1, <2>2
<1>8. \A other \in Ids \ DOMAIN fuzz' : TriedOf(other)' = {} /\ other >= fuzz_current'
  <2>1. TAKE other \in Ids \ DOMAIN fuzz'
  <2>2. TriedOf(other) = {} /\ other >= fuzz_current /\ other # fuzz_current /\ other \in Nat
        /\ fuzz_current \in Nat
    BY <1>1, TurnTypes DEF TurnInv
  <2>3. QED
    BY <1>1, <1>4, <2>2
<1>9. \A i \in DOMAIN tried' : tried'[i][1] <= fuzz_current'
  <2>1. \A i \in DOMAIN tried : tried[i][1] \in Nat /\ tried[i][1] <= fuzz_current
    BY TurnTypes DEF TurnInv
  <2>2. QED
    BY <1>1, <1>3, <2>1
<1>10. QED
  BY <1>1, <1>7, <1>8, <1>9 DEF TurnInv, Before

\* A weight makes its string relevant; those before it stay done.
LEMMA TurnReadId ==
    ASSUME TypeOK, Typed, TurnInv, Next, ReadId
    PROVE  TurnInv'
<1>1. conf' = conf /\ UNCHANGED <<fuzz_current, tried>>
  BY ControlType, ReadIdEffect
<1>2. \A other : TriedOf(other)' = TriedOf(other) /\ (MaySkip(other)' <=> MaySkip(other))
  BY <1>1 DEF TriedOf, MaySkip
<1>3. CASE fuzz' = fuzz
  <2>1. \A other : EntryInv(other)' <=> EntryInv(other)
    BY <1>1, <1>2, <1>3 DEF EntryInv, Relevant
  <2>2. QED
    BY <1>1, <1>2, <1>3, <2>1 DEF TurnInv, Before
<1>4. ASSUME NEW id \in DOMAIN fuzz,
             DOMAIN fuzz' = DOMAIN fuzz,
             \A other \in DOMAIN fuzz : other # id => fuzz'[other] = fuzz[other],
             fuzz'[id].total = fuzz[id].total, fuzz'[id].current = fuzz[id].current,
             fuzz[id].weight \in Nat, fuzz'[id].weight = fuzz[id].weight + 1
      PROVE  TurnInv'
  <2>1. ASSUME NEW other \in DOMAIN fuzz
        PROVE  EntryInv(other)'
    <3>0. EntryInv(other)
      BY DEF TurnInv
    <3>1. CASE other # id
      <4>1. fuzz'[other] = fuzz[other] /\ (Relevant(other)' <=> Relevant(other))
        BY <1>1, <1>4, <3>1 DEF Relevant
      <4>2. QED
        BY <1>1, <1>2, <3>0, <4>1 DEF EntryInv
    <3>2. CASE other = id
      <4>1. Relevant(other)' /\ fuzz'[other].weight # 0
        BY <1>1, <1>4, <3>2 DEF Relevant
      <4>2. QED
        BY <1>1, <1>2, <1>4, <3>0, <3>2, <4>1 DEF EntryInv
    <3>3. QED
      BY <3>1, <3>2
  <2>2. QED
    BY <1>1, <1>2, <1>4, <2>1 DEF TurnInv, Before
<1>5. QED
  BY <1>3, <1>4, ReadIdEffect

\* Every step keeps TurnInv.
LEMMA TurnStep ==
    ASSUME TypeOK, Typed, TurnInv, Next
    PROVE  TurnInv'
<1>1. CASE UNCHANGED <<fuzz, fuzz_current, tried>>
  <2>1. conf' = conf
    BY ControlType
  <2>2. \A other : TriedOf(other)' = TriedOf(other) /\ (MaySkip(other)' <=> MaySkip(other))
    BY <1>1, <2>1 DEF TriedOf, MaySkip
  <2>3. \A other : EntryInv(other)' <=> EntryInv(other)
    BY <1>1, <2>1, <2>2 DEF EntryInv, Relevant
  <2>4. QED
    BY <1>1, <2>2, <2>3 DEF TurnInv, Before
<1>2. QED
  BY <1>1, FuzzSteps, TurnNewFuzz, TurnTryCase, TurnNextFuzz, TurnReadId

-----------------------------------------------------------------------------
(* The phases of a pass.                                                    *)

AfterParsing == {"length", "hash", "started"} \cup Sending

\* How the phase changes: an instruction is fetched, all of them were, the pass or the run
\* ends, or the lists are worked on.
LEMMA PhaseSteps ==
    ASSUME TypeOK, Next
    PROVE  \/ /\ \E ops : Fetch(ops) /\ ops \cap {"fuzz"} = {} /\ UNCHANGED fuzz
              /\ UNCHANGED <<pc, ring_zero>>
           \/ /\ NewFuzz \/ TryCase \/ NextFuzz \/ OutOfTurn
              /\ pc' \in {"fetch", "ack"} /\ UNCHANGED ring_zero
           \/ /\ pc' = "length" /\ offset > Len(Script)
              /\ UNCHANGED <<offset, fuzz, ring_zero>>
           \/ EndPass
           \/ /\ UNCHANGED <<offset, ring_zero>> /\ pc # "end" /\ pc' = "end" /\ result' = -1
           \/ /\ UNCHANGED <<offset, ring_zero>> /\ pc # "end" /\ pc' # "end"
              /\ pc' \in AfterParsing => pc \in AfterParsing
<1> USE DEF AfterParsing, Sending
<1>1. CASE Data \/ BlockBegin \/ BlockEnd \/ PushLength \/ PushHash \/ SendOrRecv
  <2>1. UNCHANGED <<pc, ring_zero, fuzz>>
    BY <1>1 DEF Data, BlockBegin, BlockEnd, PushLength, PushHash, SendOrRecv, Fetch, progress
  <2>2. Fetch({"data"}) \/ Fetch({"begin"}) \/ Fetch({"end"}) \/ Fetch({"size"}) \/ Fetch({"crc"})
        \/ Fetch({"send", "recv"})
    BY <1>1 DEF Data, BlockBegin, BlockEnd, PushLength, PushHash, SendOrRecv
  <2>3. /\ {"data"} \cap {"fuzz"} = {} /\ {"begin"} \cap {"fuzz"} = {} /\ {"end"} \cap {"fuzz"} = {}
        /\ {"size"} \cap {"fuzz"} = {} /\ {"crc"} \cap {"fuzz"} = {}
        /\ {"send", "recv"} \cap {"fuzz"} = {}
    OBVIOUS
  <2>4. \E ops : Fetch(ops) /\ ops \cap {"fuzz"} = {}
    BY <2>2, <2>3
  <2>5. QED
    BY <2>1, <2>4
<1>2. CASE NewFuzz \/ TryCase \/ NextFuzz \/ OutOfTurn
  BY <1>2 DEF NewFuzz, TryCase, NextFuzz, OutOfTurn, Fetch, Original
<1>3. CASE Parsed
  BY <1>3 DEF Parsed, Lists, progress
<1>4. CASE UpdateLength \/ LengthsUpdated \/ UpdateHash \/ HashesUpdated
  BY <1>4 DEF UpdateLength, LengthsUpdated, UpdateHash, HashesUpdated, Lists
<1>5. CASE Plays
  BY <1>5 DEF Plays, Connect, Listen, Accept, PlayNothing, SendFuzz, WriteFuzz, RecvFuzz, PlayDone,
     NothingSaid, InPass, Over
<1>6. CASE ReadMsg \/ ReadId
  BY <1>6 DEF ReadMsg, ReadId, InPass, Over
<1>7. CASE Hello \/ WaitForAck
  BY <1>7 DEF Hello, WaitForAck
<1>8. CASE Adbg
  BY <1>8 DEF Adbg, Answer, Hit, SayId, TargetEnds, Interrupt, Debugs
<1>9. QED
  BY <1>1, <1>2, <1>3, <1>4, <1>5, <1>6, <1>7, <1>8 DEF Next, Fuzzer, Runs, Waits, Plays

\* Every step keeps PhaseInv: a pass that ends has met every fuzz of the script.
LEMMA PhaseStep ==
    ASSUME TypeOK, Typed, PhaseInv, Next
    PROVE  PhaseInv'
<1>1. DOMAIN fuzz \subseteq DOMAIN fuzz' /\ DOMAIN fuzz' \subseteq Ids /\ DOMAIN fuzz \subseteq Ids
  BY FuzzTypeStep DEF FuzzTyped, TypeOK
<1>2. /\ pc \in AfterParsing => offset = Len(Script) + 1
      /\ ring_zero => DOMAIN fuzz = Ids
      /\ \A i \in 1 .. offset - 1 : Script[i].op = "fuzz" => Script[i].id \in DOMAIN fuzz
  BY DEF PhaseInv, AfterParsing
<1>3. /\ offset \in Nat /\ Len(Script) \in Nat /\ offset <= Len(Script) + 1
      /\ DOMAIN Script = 1 .. Len(Script)
  BY AutodafeAssumption DEF TypeOK
<1>4. SUFFICES /\ pc' \in AfterParsing => offset' = Len(Script) + 1
               /\ ring_zero' => DOMAIN fuzz' = Ids
               /\ \A i \in 1 .. offset' - 1 : Script[i].op = "fuzz" => Script[i].id \in DOMAIN fuzz'
               /\ pc' = "end" /\ result' # -1 => DOMAIN fuzz' = Ids /\ fuzz_finished'
  BY DEF PhaseInv, AfterParsing
<1>5. ASSUME NEW ops, Fetch(ops)
      PROVE  offset' = offset + 1 /\ pc = "fetch" /\ offset \in DOMAIN Script /\ Script[offset].op \in ops
  BY <1>5, Fetched DEF Fetch, Instr
<1>6. CASE (\E ops : Fetch(ops) /\ ops \cap {"fuzz"} = {} /\ UNCHANGED fuzz) /\ UNCHANGED <<pc, ring_zero>>
  <2>1. /\ offset' = offset + 1 /\ pc = "fetch" /\ Script[offset].op # "fuzz"
        /\ UNCHANGED <<fuzz, pc, ring_zero>>
    BY <1>5, <1>6
  <2>2. \A i \in 1 .. offset' - 1 : i \in 1 .. offset - 1 \/ i = offset
    BY <1>3, <2>1
  <2>3. pc' \notin AfterParsing /\ pc' # "end"
    BY <2>1 DEF AfterParsing, Sending
  <2>4. QED
    BY <1>2, <2>1, <2>2, <2>3
<1>7. CASE (NewFuzz \/ TryCase \/ NextFuzz \/ OutOfTurn) /\ pc' \in {"fetch", "ack"} /\ UNCHANGED ring_zero
  <2>1. Fetch({"fuzz"}) /\ Instr.id \in DOMAIN fuzz'
    BY <1>1, <1>7, NewFuzzEffect DEF NewFuzz, TryCase, NextFuzz, OutOfTurn
  <2>2. offset' = offset + 1 /\ Script[offset].id \in DOMAIN fuzz'
    BY <1>5, <2>1 DEF Instr
  <2>3. \A i \in 1 .. offset' - 1 : i \in 1 .. offset - 1 \/ i = offset
    BY <1>3, <2>2
  <2>4. pc' \notin AfterParsing /\ pc' # "end"
    BY <1>7 DEF AfterParsing, Sending
  <2>5. ring_zero' => DOMAIN fuzz' = Ids
    BY <1>1, <1>2, <1>7
  <2>6. QED
    BY <1>1, <1>2, <2>2, <2>3, <2>4, <2>5
<1>8. CASE pc' = "length" /\ offset > Len(Script) /\ UNCHANGED <<offset, fuzz, ring_zero>>
  BY <1>2, <1>3, <1>8
<1>9. CASE EndPass
  <2>1. /\ pc = "over" /\ offset' = 1 /\ fuzz' = fuzz /\ pc' \in {"end", "fetch"}
        /\ pc' = "end" => fuzz_finished \/ result' = -1
    BY <1>9 DEF EndPass, progress
  <2>2. offset = Len(Script) + 1
    BY <1>2, <2>1 DEF AfterParsing, Sending
  <2>3. DOMAIN fuzz = Ids
    <3>1. ASSUME NEW id \in Ids PROVE id \in DOMAIN fuzz
      <4>1. InstrOf[id] \in DOMAIN Script /\ Script[InstrOf[id]].op = "fuzz" /\ Script[InstrOf[id]].id = id
        BY InstrOfId
      <4>2. InstrOf[id] \in 1 .. offset - 1
        BY <1>3, <2>2, <4>1
      <4>3. QED
        BY <1>2, <4>1, <4>2
    <3>2. QED
      BY <1>1, <3>1
  <2>4. pc' \notin AfterParsing
    BY <2>1 DEF AfterParsing, Sending
  <2>5. fuzz_finished' <=> fuzz_finished
    BY <2>1 DEF fuzz_finished
  <2>6. 1 .. offset' - 1 = {}
    BY <2>1
  <2>7. QED
    BY <2>1, <2>3, <2>4, <2>5, <2>6
<1>10. CASE UNCHANGED <<offset, ring_zero>> /\ pc # "end" /\ pc' = "end" /\ result' = -1
  <2>1. pc' \notin AfterParsing
    BY <1>10 DEF AfterParsing, Sending
  <2>2. QED
    BY <1>1, <1>2, <1>10, <2>1
<1>11. CASE UNCHANGED <<offset, ring_zero>> /\ pc # "end" /\ pc' # "end"
            /\ (pc' \in AfterParsing => pc \in AfterParsing)
  BY <1>1, <1>2, <1>11
<1>12. QED
  BY <1>6, <1>7, <1>8, <1>9, <1>10, <1>11, PhaseSteps

-----------------------------------------------------------------------------
(* The buffer of a pass.                                                    *)

\* The buffer is a sequence of cells.
LEMMA BufferFacts ==
    ASSUME SeqInv
    PROVE  /\ Len(buffer) \in Nat /\ DOMAIN buffer = 1 .. Len(buffer)
           /\ \A k \in DOMAIN buffer : buffer[k].by \in Nat
<1>1. PICK S : buffer \in Seq([by : Nat, byte : S])
  BY DEF SeqInv, IsBuffer
<1>2. Len(buffer) \in Nat /\ DOMAIN buffer = 1 .. Len(buffer)
      /\ \A k \in DOMAIN buffer : buffer[k] \in [by : Nat, byte : S]
  BY ONLY <1>1, SeqFacts
<1>3. QED
  BY <1>2

\* What is pushed, with its instruction, and what is left alone.
LEMMA Pushed ==
    ASSUME offset \in Nat, SeqInv, NEW V, NEW bytes \in Seq(V), push_data(bytes)
    PROVE  /\ Len(buffer) \in Nat /\ DOMAIN buffer = 1 .. Len(buffer) /\ Len(bytes) \in Nat
           /\ DOMAIN bytes = 1 .. Len(bytes)
           /\ Len(buffer') = Len(buffer) + Len(bytes)
           /\ DOMAIN buffer' = 1 .. Len(buffer) + Len(bytes)
           /\ \A k \in 1 .. Len(buffer) : buffer'[k] = buffer[k]
           /\ \A k \in 1 .. Len(bytes) : /\ buffer'[Len(buffer) + k].by = offset
                                         /\ buffer'[Len(buffer) + k].byte = bytes[k]
<1>1. PICK S : buffer \in Seq([by : Nat, byte : S])
  BY DEF SeqInv, IsBuffer
<1>2. /\ buffer' \in Seq([by : Nat, byte : S \cup V])
      /\ Len(buffer') = Len(buffer) + Len(bytes)
      /\ \A k \in 1 .. Len(buffer) : buffer'[k] = buffer[k]
      /\ \A k \in 1 .. Len(bytes) : buffer'[Len(buffer) + k] = [by |-> offset, byte |-> bytes[k]]
  BY ONLY offset \in Nat, bytes \in Seq(V), push_data(bytes), <1>1, PushData
<1>3. Len(buffer) \in Nat /\ DOMAIN buffer = 1 .. Len(buffer)
  BY BufferFacts
<1>4. Len(bytes) \in Nat /\ DOMAIN bytes = 1 .. Len(bytes)
  BY ONLY bytes \in Seq(V), SeqFacts
<1>5. DOMAIN buffer' = 1 .. Len(buffer')
  BY ONLY <1>2, SeqFacts
<1>6. \A k \in 1 .. Len(bytes) : /\ buffer'[Len(buffer) + k].by = offset
                                 /\ buffer'[Len(buffer) + k].byte = bytes[k]
  <2>1. TAKE k \in 1 .. Len(bytes)
  <2>2. buffer'[Len(buffer) + k] = [by |-> offset, byte |-> bytes[k]]
    BY ONLY <1>2, <1>3, <1>4, k \in 1 .. Len(bytes)
  <2>3. QED
    BY ONLY <2>2
<1>7. QED
  BY ONLY <1>2, <1>3, <1>4, <1>5, <1>6

\* A push leaves the cells of other instructions and the entries alone.
LEMMA PushKeeps ==
    ASSUME TypeOK, SeqInv, PassInv, NEW V, NEW bytes \in Seq(V), push_data(bytes), offset' = offset + 1
    PROVE  /\ \A k \in DOMAIN buffer' : buffer'[k].by < offset'
           /\ \A l, op, width : EntryOK(l, op, width) => EntryOK(l, op, width)'
           /\ \A id \in Ids : InstrOf[id] # offset /\ Kept(id) => Kept(id)'
           /\ \A id \in Ids : InstrOf[id] = offset /\ Script[offset].bytes = bytes => Kept(id)'
<1> DEFINE n == Len(buffer)
<1>1. offset \in Nat
  BY DEF TypeOK
<1>2. /\ n \in Nat /\ DOMAIN buffer = 1 .. n /\ Len(bytes) \in Nat /\ DOMAIN bytes = 1 .. Len(bytes)
      /\ Len(buffer') = n + Len(bytes) /\ DOMAIN buffer' = 1 .. n + Len(bytes)
      /\ \A k \in 1 .. n : buffer'[k] = buffer[k]
      /\ \A k \in 1 .. Len(bytes) : buffer'[n + k].by = offset /\ buffer'[n + k].byte = bytes[k]
  BY ONLY <1>1, SeqInv, bytes \in Seq(V), push_data(bytes), Pushed
<1>3. \A k \in DOMAIN buffer : buffer[k].by < offset /\ buffer[k].by \in Nat
  BY BufferFacts DEF PassInv
<1>4. \A k \in DOMAIN buffer' : k \in 1 .. n \/ (k - n \in 1 .. Len(bytes) /\ n + (k - n) = k)
  BY <1>2
<1> HIDE DEF n
<1>5. \A k \in DOMAIN buffer' : IF k \in 1 .. n THEN buffer'[k] = buffer[k] ELSE buffer'[k].by = offset
  BY <1>2, <1>4
<1>6. \A k \in DOMAIN buffer' : buffer'[k].by < offset'
  BY <1>1, <1>2, <1>3, <1>5
<1>7. ASSUME NEW l, NEW op, NEW width, EntryOK(l, op, width)
      PROVE  EntryOK(l, op, width)'
  <2>0. l.offset \in Nat
    BY <1>7 DEF EntryOK, EntryOf
  <2>1. PICK i \in 1 .. offset - 1 :
               /\ Script[i].op = op
               /\ \A k \in 1 .. width : l.offset + k \in DOMAIN buffer /\ buffer[l.offset + k].by = i
    BY <1>7 DEF EntryOK, EntryOf
  <2>2. i \in 1 .. offset' - 1
    BY <1>1
  <2>3. \A k \in 1 .. n : k \in DOMAIN buffer' /\ buffer'[k] = buffer[k]
    BY <1>2
  <2>4. \A k \in 1 .. width : l.offset + k \in DOMAIN buffer' /\ buffer'[l.offset + k].by = i
    BY <1>2, <2>1, <2>3
  <2>5. QED
    BY <2>0, <2>1, <2>2, <2>4 DEF EntryOK, EntryOf
<1>8. ASSUME NEW id \in Ids, InstrOf[id] # offset, Kept(id)
      PROVE  Kept(id)'
  <2>1. CellsBy(InstrOf[id])' = CellsBy(InstrOf[id])
    <3>1. \A k \in DOMAIN buffer' : buffer'[k].by = InstrOf[id] <=> k \in DOMAIN buffer /\ buffer[k].by = InstrOf[id]
      BY <1>2, <1>5, <1>8
    <3>2. DOMAIN buffer \subseteq DOMAIN buffer'
      BY <1>2
    <3>3. QED
      BY <3>1, <3>2 DEF CellsBy
  <2>2. CASE CellsBy(InstrOf[id]) = {}
    BY <2>1, <2>2 DEF Kept
  <2>3. CASE CellsBy(InstrOf[id]) # {}
    <3> DEFINE own == Script[InstrOf[id]].bytes
    <3>1. PICK p \in 0 .. Len(buffer) :
                 /\ CellsBy(InstrOf[id]) = p + 1 .. p + Len(own)
                 /\ \A k \in DOMAIN own : buffer[p + k].byte = own[k]
      BY <1>8, <2>3 DEF Kept
    <3>2. own \in Bytes
      BY InstrOfId, FuzzInstruction
    <3>3. Len(own) \in Nat /\ DOMAIN own = 1 .. Len(own)
      BY <3>2 DEF Bytes
    <3> HIDE DEF own
    <3>4. p \in 0 .. Len(buffer')
      BY <1>2 DEF n
    <3>5. \A k \in DOMAIN own : buffer'[p + k] = buffer[p + k]
      <4>1. TAKE k \in DOMAIN own
      <4>2. p + k \in p + 1 .. p + Len(own)
        BY <3>3, <3>4
      <4>3. p + k \in DOMAIN buffer
        BY <3>1, <4>2 DEF CellsBy
      <4>4. QED
        BY <1>2, <4>3
    <3>6. QED
      BY <2>1, <3>1, <3>4, <3>5 DEF Kept, own
  <2>4. QED
    BY <2>2, <2>3
<1>9. ASSUME NEW id \in Ids, InstrOf[id] = offset, Script[offset].bytes = bytes
      PROVE  Kept(id)'
  <2>1. CellsBy(InstrOf[id])' = n + 1 .. n + Len(bytes)
    <3>1. \A k \in 1 .. n : buffer'[k].by # offset
      BY <1>1, <1>2, <1>3
    <3>2. \A k \in DOMAIN buffer' : buffer'[k].by = offset <=> k \in n + 1 .. n + Len(bytes)
      BY <1>2, <1>4, <1>5, <3>1
    <3>3. n + 1 .. n + Len(bytes) \subseteq DOMAIN buffer'
      BY <1>2
    <3>4. QED
      BY <1>9, <3>2, <3>3 DEF CellsBy
  <2>2. n \in 0 .. Len(buffer')
    BY <1>2
  <2>3. \A k \in DOMAIN bytes : buffer'[n + k].byte = bytes[k]
    BY <1>2
  <2>4. ASSUME NEW m, m = n
        PROVE  Kept(id)'
    BY <1>9, <2>1, <2>2, <2>3, <2>4 DEF Kept
  <2>5. QED
    BY <2>4
<1>10. QED
  BY <1>6, <1>7, <1>8, <1>9

\* A length or a hash that is written into its own bytes leaves the fuzzes alone.
LEMMA ModifyKeeps ==
    ASSUME TypeOK, SeqInv, PassInv, UNCHANGED offset, NEW l, NEW op, NEW width, EntryOK(l, op, width),
           op # "fuzz", NEW bytes, DOMAIN bytes \subseteq 1 .. width, width \in Nat,
           modify_data(l, bytes)
    PROVE  /\ \A k \in DOMAIN buffer' : buffer'[k].by < offset'
           /\ \A e, o, w : EntryOK(e, o, w) => EntryOK(e, o, w)'
           /\ \A id \in Ids : Kept(id) => Kept(id)'
<1>1. PICK S : buffer \in Seq([by : Nat, byte : S])
  BY DEF SeqInv, IsBuffer
<1>2. /\ IsBuffer(buffer') /\ Len(buffer') = Len(buffer)
      /\ \A k \in DOMAIN buffer : buffer'[k].by = buffer[k].by
      /\ \A k \in DOMAIN buffer : k - l.offset \notin DOMAIN bytes => buffer'[k] = buffer[k]
  BY ONLY <1>1, modify_data(l, bytes), ModifyData
<1>3. DOMAIN buffer = 1 .. Len(buffer) /\ Len(buffer) \in Nat
  BY BufferFacts
<1>4. DOMAIN buffer' = DOMAIN buffer
  BY DEF modify_data
<1>5. \A k \in DOMAIN buffer' : buffer'[k].by < offset'
  BY <1>2, <1>4 DEF PassInv
<1>6. \A e, o, w : EntryOK(e, o, w) => EntryOK(e, o, w)'
  <2>1. TAKE e, o, w
  <2>2. SUFFICES ASSUME EntryOK(e, o, w) PROVE EntryOK(e, o, w)'
    OBVIOUS
  <2>3. QED
    BY <1>2, <1>4, <2>2 DEF EntryOK, EntryOf
<1>7. PICK i \in 1 .. offset - 1 :
             /\ Script[i].op = op
             /\ \A k \in 1 .. width : l.offset + k \in DOMAIN buffer /\ buffer[l.offset + k].by = i
  BY DEF EntryOK, EntryOf
<1>8. ASSUME NEW id \in Ids, NEW k \in CellsBy(InstrOf[id])
      PROVE  buffer'[k] = buffer[k]
  <2>1. k \in DOMAIN buffer /\ buffer[k].by = InstrOf[id] /\ k \in Int /\ l.offset \in Nat
    BY <1>3 DEF CellsBy, EntryOK, EntryOf
  <2>2. InstrOf[id] # i
    BY <1>7, InstrOfId
  <2>3. ASSUME k - l.offset \in DOMAIN bytes PROVE FALSE
    <3>1. k - l.offset \in 1 .. width /\ l.offset + (k - l.offset) = k
      BY <2>1, <2>3
    <3>2. QED
      BY <1>7, <2>1, <2>2, <3>1
  <2>4. QED
    BY <1>2, <2>1, <2>3
<1>9. ASSUME NEW id \in Ids, Kept(id)
      PROVE  Kept(id)'
  <2>1. CellsBy(InstrOf[id])' = CellsBy(InstrOf[id])
    BY <1>2, <1>4 DEF CellsBy
  <2>2. CASE CellsBy(InstrOf[id]) = {}
    BY <2>1, <2>2 DEF Kept
  <2>3. CASE CellsBy(InstrOf[id]) # {}
    <3> DEFINE own == Script[InstrOf[id]].bytes
    <3>1. PICK p \in 0 .. Len(buffer) :
                 /\ CellsBy(InstrOf[id]) = p + 1 .. p + Len(own)
                 /\ \A k \in DOMAIN own : buffer[p + k].byte = own[k]
      BY <1>9, <2>3 DEF Kept
    <3>2. own \in Bytes
      BY InstrOfId, FuzzInstruction
    <3>3. Len(own) \in Nat /\ DOMAIN own = 1 .. Len(own)
      BY <3>2 DEF Bytes
    <3> HIDE DEF own
    <3>4. \A k \in DOMAIN own : buffer'[p + k] = buffer[p + k]
      <4>1. TAKE k \in DOMAIN own
      <4>2. p + k \in p + 1 .. p + Len(own)
        BY <1>3, <3>3
      <4>3. QED
        BY <1>8, <3>1, <4>2
    <3>5. QED
      BY <1>2, <2>1, <3>1, <3>4 DEF Kept, own
  <2>4. QED
    BY <2>2, <2>3
<1>10. QED
  BY <1>5, <1>6, <1>9

\* A value is cut to the width of its field.
LEMMA CutWidth ==
    ASSUME NEW type, NEW n, Width(type) # 0
    PROVE  DOMAIN Cut(type, n) \subseteq 1 .. Width(type) /\ Width(type) \in Nat
<1> DEFINE big == BigEndian(n)
           little == Reverse(big)
           S == {big[k] : k \in 1 .. 4}
<1>1. big = [k \in 1 .. 4 |-> big[k]]
  BY DEF BigEndian
<1>2. DOMAIN big = 1 .. 4
  BY DEF BigEndian
<1> HIDE DEF big
<1>3. big \in Seq(S) /\ Len(big) = 4
  BY <1>1, <1>2
<1>4. little \in Seq(S) /\ Len(little) = 4
  BY <1>3 DEF Reverse
<1>5. DOMAIN big = 1 .. 4 /\ DOMAIN little = 1 .. 4
  BY <1>2, <1>3, <1>4
<1> HIDE DEF little
<1>6. DOMAIN SubSeq(big, 3, 4) = 1 .. 2 /\ DOMAIN SubSeq(little, 3, 4) = 1 .. 2 /\ DOMAIN SubSeq(big, 4, 4) = 1 .. 1
  BY <1>3, <1>4
<1>7. Width(type) \in Nat
  BY DEF Width
<1>8. type \in {"b32", "l32", "b16", "l16", "b8"}
  BY DEF Width
<1>9. Cut(type, n) = CASE type = "b32" -> big
                       [] type = "l32" -> little
                       [] type = "b16" -> SubSeq(big, 3, 4)
                       [] type = "l16" -> SubSeq(little, 3, 4)
                       [] type = "b8" -> SubSeq(big, 4, 4)
  BY DEF Cut, big, little
<1>10. CASE type = "b32"
  BY <1>5, <1>9, <1>10 DEF Width
<1>11. CASE type = "l32"
  BY <1>5, <1>9, <1>11 DEF Width
<1>12. CASE type = "b16"
  BY <1>6, <1>9, <1>12 DEF Width
<1>13. CASE type = "l16"
  BY <1>6, <1>9, <1>13 DEF Width
<1>14. CASE type = "b8"
  BY <1>6, <1>9, <1>14 DEF Width
<1>15. QED
  BY <1>8, <1>10, <1>11, <1>12, <1>13, <1>14

\* A step that leaves the buffer and its entries alone.
LEMMA PassUnchanged ==
    ASSUME PassInv, UNCHANGED <<offset, buffer, length, hash, fuzz_current>>
    PROVE  PassInv'
<1>1. \A l, op, width : EntryOK(l, op, width)' <=> EntryOK(l, op, width)
  BY DEF EntryOK, EntryOf
<1>2. \A id : Kept(id)' <=> Kept(id)
  BY DEF Kept, CellsBy
<1>3. QED
  BY <1>1, <1>2 DEF PassInv

\* An instruction that is no fuzz and writes no entry.
LEMMA PassPush ==
    ASSUME TypeOK, SeqInv, PassInv, NEW V, NEW bytes \in Seq(V), push_data(bytes), offset' = offset + 1,
           UNCHANGED <<length, hash, fuzz_current>>, Script[offset].op # "fuzz"
    PROVE  PassInv'
<1>1. /\ \A k \in DOMAIN buffer' : buffer'[k].by < offset'
      /\ \A l, op, width : EntryOK(l, op, width) => EntryOK(l, op, width)'
      /\ \A id \in Ids : InstrOf[id] # offset /\ Kept(id) => Kept(id)'
  BY PushKeeps
<1>2. \A id \in Ids : InstrOf[id] # offset /\ (InstrOf[id] < offset => InstrOf[id] < offset')
  BY InstrOfId, Instruction DEF TypeOK
<1>3. \A id \in Ids : Kept(id)' \/ (id = fuzz_current' /\ InstrOf[id] < offset')
  BY <1>1, <1>2 DEF PassInv
<1>4. QED
  BY <1>1, <1>3 DEF PassInv

\* The original of a fuzz.
LEMMA PassOriginal ==
    ASSUME TypeOK, Typed, SeqInv, PassInv, Next, NewFuzz \/ NextFuzz \/ OutOfTurn
    PROVE  PassInv'
<1>1. Fetch({"fuzz"}) /\ Original
  BY DEF NewFuzz, NextFuzz, OutOfTurn
<1>2. /\ push_data(Instr.bytes) /\ Instr.bytes \in Seq(0 .. Base - 1)
      /\ UNCHANGED <<length, hash>>
  BY <1>1, OriginalBytes
<1>3. /\ InstrOf[Instr.id] = offset /\ Instr = Script[offset] /\ offset' = offset + 1 /\ offset \in Nat
  BY <1>1, FetchedFuzz, Fetched
<1>4. /\ \A k \in DOMAIN buffer' : buffer'[k].by < offset'
      /\ \A l, op, width : EntryOK(l, op, width) => EntryOK(l, op, width)'
      /\ \A id \in Ids : InstrOf[id] # offset /\ Kept(id) => Kept(id)'
      /\ \A id \in Ids : InstrOf[id] = offset /\ Script[offset].bytes = Instr.bytes => Kept(id)'
  BY ONLY TypeOK, SeqInv, PassInv, <1>2, <1>3, PushKeeps
<1>5. ASSUME NEW id \in Ids
      PROVE  Kept(id)' \/ (id = fuzz_current' /\ InstrOf[id] < offset')
  <2>1. CASE InstrOf[id] = offset
    BY <1>3, <1>4, <2>1
  <2>2. CASE Kept(id)
    BY <1>3, <1>4, <2>2
  <2>3. CASE InstrOf[id] # offset /\ id = fuzz_current /\ InstrOf[id] < offset
    <3>1. fuzz_current' = fuzz_current
      BY <1>3, <2>3, NewFuzzEffect, NextFuzzEffect DEF OutOfTurn
    <3>2. InstrOf[id] < offset'
      BY <1>3, <2>3, InstrOfId, Instruction
    <3>3. QED
      BY <2>3, <3>1, <3>2
  <2>4. QED
    BY <1>3, <2>1, <2>2, <2>3 DEF PassInv
<1>6. QED
  BY <1>2, <1>4, <1>5 DEF PassInv

\* The one case of the pass.
LEMMA PassTryCase ==
    ASSUME TypeOK, Typed, SeqInv, PassInv, TryCase
    PROVE  PassInv'
<1> DEFINE bytes == Instr.cases[fuzz[Instr.id].current + 1]
<1>1. Fetch({"fuzz"}) /\ fuzz_current = Instr.id /\ push_data(bytes) /\ bytes \in Seq(0 .. Base - 1)
  BY CaseBytes
<1>2. UNCHANGED <<length, hash, fuzz_current>>
  BY DEF TryCase
<1>3. /\ InstrOf[Instr.id] = offset /\ Instr = Script[offset] /\ offset' = offset + 1 /\ offset \in Nat
  BY <1>1, FetchedFuzz, Fetched
<1>4. Instr.id \in Ids
  BY <1>1, FetchedFuzz
<1> HIDE DEF bytes
<1>5. /\ \A k \in DOMAIN buffer' : buffer'[k].by < offset'
      /\ \A l, op, width : EntryOK(l, op, width) => EntryOK(l, op, width)'
      /\ \A id \in Ids : InstrOf[id] # offset /\ Kept(id) => Kept(id)'
  BY ONLY TypeOK, SeqInv, PassInv, <1>1, <1>3, PushKeeps
<1>6. ASSUME NEW id \in Ids
      PROVE  Kept(id)' \/ (id = fuzz_current' /\ InstrOf[id] < offset')
  <2>1. CASE id = fuzz_current
    BY <1>1, <1>2, <1>3, <2>1
  <2>2. CASE id # fuzz_current
    <3>1. Kept(id)
      BY <2>2 DEF PassInv
    <3>2. InstrOf[id] # offset
      BY <1>1, <1>3, <2>2, InstrOfId
    <3>3. QED
      BY <1>5, <3>1, <3>2
  <2>3. QED
    BY <2>1, <2>2
<1>7. QED
  BY <1>2, <1>5, <1>6 DEF PassInv

\* A new length and a new hash: the bytes that they stand for are theirs.
LEMMA PassEntry ==
    ASSUME TypeOK, SeqInv, PassInv, NEW n \in Nat, NEW v, NEW op, op # "fuzz",
           push_data([k \in 1 .. n |-> v]), offset' = offset + 1, offset \in DOMAIN Script,
           Script[offset].op = op
    PROVE  /\ \A k \in DOMAIN buffer' : buffer'[k].by < offset'
           /\ \A l, o, w : EntryOK(l, o, w) => EntryOK(l, o, w)'
           /\ \A l : l.offset = Len(buffer) => EntryOK(l, op, n)'
           /\ \A id \in Ids : Kept(id) => Kept(id)'
<1> DEFINE bytes == [k \in 1 .. n |-> v]
<1>1. bytes \in Seq({v}) /\ Len(bytes) = n
  BY Dummy
<1>2. offset \in Nat /\ push_data(bytes) /\ offset \in 1 .. offset' - 1
  BY DEF TypeOK
<1> HIDE DEF bytes
<1>3. /\ Len(buffer) \in Nat
      /\ DOMAIN buffer' = 1 .. Len(buffer) + Len(bytes)
      /\ \A k \in 1 .. Len(bytes) : buffer'[Len(buffer) + k].by = offset
  BY ONLY <1>1, <1>2, SeqInv, Pushed
<1>4. /\ \A k \in DOMAIN buffer' : buffer'[k].by < offset'
      /\ \A l, o, w : EntryOK(l, o, w) => EntryOK(l, o, w)'
      /\ \A id \in Ids : InstrOf[id] # offset /\ Kept(id) => Kept(id)'
  BY ONLY TypeOK, SeqInv, PassInv, <1>1, <1>2, offset' = offset + 1, PushKeeps
<1>5. \A id \in Ids : InstrOf[id] # offset
  BY InstrOfId
<1>6. ASSUME NEW l, l.offset = Len(buffer)
      PROVE  EntryOK(l, op, n)'
  <2>1. \A k \in 1 .. n : l.offset + k \in DOMAIN buffer' /\ buffer'[l.offset + k].by = offset
    <3>1. TAKE k \in 1 .. n
    <3>2. l.offset + k \in 1 .. Len(buffer) + Len(bytes)
      BY ONLY <1>1, <1>3, <1>6, k \in 1 .. n, n \in Nat
    <3>3. QED
      BY ONLY <1>1, <1>3, <1>6, <3>2, k \in 1 .. n
  <2>2. l.offset \in Nat /\ offset \in 1 .. offset' - 1 /\ Script[offset].op = op
    BY <1>2, <1>3, <1>6
  <2>3. QED
    BY ONLY <2>1, <2>2 DEF EntryOK, EntryOf
<1>7. QED
  BY <1>4, <1>5, <1>6

\* What is in a list after an append.
LEMMA AppendSplit ==
    ASSUME NEW s, IsList(s), NEW e
    PROVE  \A k \in DOMAIN Append(s, e) :
               Append(s, e)[k] = e \/ (k \in DOMAIN s /\ Append(s, e)[k] = s[k])
<1>1. PICK A : s \in Seq(A)
  BY DEF IsList
<1>2. /\ Len(s) \in Nat /\ DOMAIN s = 1 .. Len(s) /\ DOMAIN Append(s, e) = 1 .. Len(s) + 1
      /\ Append(s, e)[Len(s) + 1] = e
      /\ \A k \in 1 .. Len(s) : Append(s, e)[k] = s[k]
  BY <1>1
<1>3. TAKE k \in DOMAIN Append(s, e)
<1>4. k \in 1 .. Len(s) \/ k = Len(s) + 1
  BY ONLY <1>2, k \in DOMAIN Append(s, e)
<1>5. QED
  BY ONLY <1>2, <1>4

\* The lengths, the hashes and the fuzzes of a pass, after a step.
LEMMA PassParts ==
    ASSUME \A k \in DOMAIN buffer' : buffer'[k].by < offset',
           \A k \in DOMAIN length' :
               EntryOf(buffer', offset', length'[k], "size", Width(length'[k].type)),
           \A k \in DOMAIN hash' :
               EntryOf(buffer', offset', hash'[k], "crc", 4) /\ hash'[k].type \in {"b32", "l32"},
           \A id \in Ids : Kept(id)' \/ (id = fuzz_current' /\ InstrOf[id] < offset')
    PROVE  PassInv'
BY DEF PassInv, EntryOK

\* push_length: the entry is for the dummy that is pushed with it.
LEMMA PassPushLength ==
    ASSUME TypeOK, SeqInv, PassInv, PushLength
    PROVE  PassInv'
<1> DEFINE n == Width(Instr.type)
           entry == [id |-> Instr.block, type |-> Instr.type, offset |-> Len(buffer)]
<1>1. /\ Fetch({"size"}) /\ push_data([k \in 1 .. n |-> Base - 1])
      /\ length' = Append(length, entry) /\ UNCHANGED <<hash, fuzz_current>>
  BY DEF PushLength, progress
<1>2. n \in Nat /\ offset \in DOMAIN Script /\ Script[offset].op = "size" /\ offset' = offset + 1
      /\ offset \in Nat
  BY <1>1, Fetched, OtherInstructions DEF Instr
<1>3. entry.offset = Len(buffer) /\ Width(entry.type) = n
  OBVIOUS
<1>4. \A k \in DOMAIN length' : length'[k] = entry \/ (k \in DOMAIN length /\ length'[k] = length[k])
  BY <1>1, AppendSplit DEF SeqInv
<1> HIDE DEF n, entry
<1>5. PICK m \in Nat : m = n
  BY <1>2
<1>6. /\ \A k \in DOMAIN buffer' : buffer'[k].by < offset'
      /\ \A l, o, w : EntryOK(l, o, w) => EntryOK(l, o, w)'
      /\ \A l : l.offset = Len(buffer) => EntryOK(l, "size", m)'
      /\ \A id \in Ids : Kept(id) => Kept(id)'
  BY ONLY TypeOK, SeqInv, PassInv, <1>1, <1>2, <1>5, PassEntry
<1>7. /\ \A l, o, w : EntryOf(buffer, offset, l, o, w) => EntryOf(buffer', offset', l, o, w)
      /\ \A l : l.offset = Len(buffer) => EntryOf(buffer', offset', l, "size", m)
  BY ONLY <1>6 DEF EntryOK
<1>8. /\ \A k \in DOMAIN length : EntryOf(buffer, offset, length[k], "size", Width(length[k].type))
      /\ \A k \in DOMAIN hash :
            EntryOf(buffer, offset, hash[k], "crc", 4) /\ hash[k].type \in {"b32", "l32"}
      /\ \A id \in Ids : Kept(id) \/ (id = fuzz_current /\ InstrOf[id] < offset)
  BY DEF PassInv, EntryOK
<1>9. \A k \in DOMAIN length' :
          EntryOf(buffer', offset', length'[k], "size", Width(length'[k].type))
  BY ONLY <1>3, <1>4, <1>5, <1>7, <1>8
<1>10. \A k \in DOMAIN hash' :
          EntryOf(buffer', offset', hash'[k], "crc", 4) /\ hash'[k].type \in {"b32", "l32"}
  BY ONLY <1>1, <1>7, <1>8
<1>11. \A id \in Ids : Kept(id)' \/ (id = fuzz_current' /\ InstrOf[id] < offset')
  BY <1>1, <1>2, <1>6, <1>8, InstrOfId, Instruction
<1>12. QED
  BY ONLY <1>6, <1>9, <1>10, <1>11, PassParts

\* push_hash: the entry is for the dummy that is pushed with it.
LEMMA PassPushHash ==
    ASSUME TypeOK, SeqInv, PassInv, PushHash
    PROVE  PassInv'
<1> DEFINE entry == [id |-> Instr.block, type |-> Instr.type, offset |-> Len(buffer)]
<1>1. /\ Fetch({"crc"}) /\ push_data([k \in 1 .. 4 |-> 0])
      /\ hash' = Append(hash, entry) /\ UNCHANGED <<length, fuzz_current>>
  BY DEF PushHash, progress
<1>2. /\ offset \in DOMAIN Script /\ Script[offset].op = "crc" /\ offset' = offset + 1
      /\ offset \in Nat /\ Instr.type \in {"b32", "l32"}
  BY <1>1, Fetched, OtherInstructions DEF Instr
<1>3. entry.offset = Len(buffer) /\ entry.type \in {"b32", "l32"}
  BY <1>2
<1>4. \A k \in DOMAIN hash' : hash'[k] = entry \/ (k \in DOMAIN hash /\ hash'[k] = hash[k])
  BY <1>1, AppendSplit DEF SeqInv
<1> HIDE DEF entry
<1>6. /\ \A k \in DOMAIN buffer' : buffer'[k].by < offset'
      /\ \A l, o, w : EntryOK(l, o, w) => EntryOK(l, o, w)'
      /\ \A l : l.offset = Len(buffer) => EntryOK(l, "crc", 4)'
      /\ \A id \in Ids : Kept(id) => Kept(id)'
  <2>1. 4 \in Nat /\ "crc" # "fuzz"
    OBVIOUS
  <2>2. QED
    BY ONLY TypeOK, SeqInv, PassInv, <1>1, <1>2, <2>1, PassEntry
<1>7. /\ \A l, o, w : EntryOf(buffer, offset, l, o, w) => EntryOf(buffer', offset', l, o, w)
      /\ \A l : l.offset = Len(buffer) => EntryOf(buffer', offset', l, "crc", 4)
  BY ONLY <1>6 DEF EntryOK
<1>8. /\ \A k \in DOMAIN length : EntryOf(buffer, offset, length[k], "size", Width(length[k].type))
      /\ \A k \in DOMAIN hash :
            EntryOf(buffer, offset, hash[k], "crc", 4) /\ hash[k].type \in {"b32", "l32"}
      /\ \A id \in Ids : Kept(id) \/ (id = fuzz_current /\ InstrOf[id] < offset)
  BY DEF PassInv, EntryOK
<1>9. \A k \in DOMAIN length' :
          EntryOf(buffer', offset', length'[k], "size", Width(length'[k].type))
  BY ONLY <1>1, <1>7, <1>8
<1>10. \A k \in DOMAIN hash' :
          EntryOf(buffer', offset', hash'[k], "crc", 4) /\ hash'[k].type \in {"b32", "l32"}
  BY ONLY <1>3, <1>4, <1>7, <1>8
<1>11. \A id \in Ids : Kept(id)' \/ (id = fuzz_current' /\ InstrOf[id] < offset')
  BY <1>1, <1>2, <1>6, <1>8, InstrOfId, Instruction
<1>12. QED
  BY ONLY <1>6, <1>9, <1>10, <1>11, PassParts

\* Nothing but the bytes of an entry is changed.
LEMMA PassModify ==
    ASSUME TypeOK, SeqInv, PassInv, UNCHANGED <<offset, length, hash, fuzz_current>>,
           NEW l, NEW op, NEW width, EntryOK(l, op, width), op # "fuzz", width \in Nat,
           NEW bytes, DOMAIN bytes \subseteq 1 .. width, modify_data(l, bytes)
    PROVE  PassInv'
<1>1. /\ \A k \in DOMAIN buffer' : buffer'[k].by < offset'
      /\ \A e, o, w : EntryOK(e, o, w) => EntryOK(e, o, w)'
      /\ \A id \in Ids : Kept(id) => Kept(id)'
  BY ModifyKeeps
<1>2. \A e, o, w : EntryOf(buffer, offset, e, o, w) => EntryOf(buffer', offset', e, o, w)
  BY ONLY <1>1 DEF EntryOK
<1>3. /\ \A k \in DOMAIN length : EntryOf(buffer, offset, length[k], "size", Width(length[k].type))
      /\ \A k \in DOMAIN hash :
            EntryOf(buffer, offset, hash[k], "crc", 4) /\ hash[k].type \in {"b32", "l32"}
      /\ \A id \in Ids : Kept(id) \/ (id = fuzz_current /\ InstrOf[id] < offset)
  BY DEF PassInv, EntryOK
<1>4. \A k \in DOMAIN length' :
          EntryOf(buffer', offset', length'[k], "size", Width(length'[k].type))
  BY <1>2, <1>3
<1>5. \A k \in DOMAIN hash' :
          EntryOf(buffer', offset', hash'[k], "crc", 4) /\ hash'[k].type \in {"b32", "l32"}
  BY <1>2, <1>3
<1>6. \A id \in Ids : Kept(id)' \/ (id = fuzz_current' /\ InstrOf[id] < offset')
  BY <1>1, <1>3
<1>7. QED
  BY ONLY <1>1, <1>4, <1>5, <1>6, PassParts

\* The next entry of a list of the pass.
LEMMA NextEntry ==
    ASSUME NEW s, IsList(s), NEW n \in Nat, n < Len(s)
    PROVE  n + 1 \in DOMAIN s
<1>1. PICK A : s \in Seq(A)
  BY DEF IsList
<1>2. Len(s) \in Nat /\ DOMAIN s = 1 .. Len(s)
  BY <1>1
<1>3. QED
  BY <1>2

\* update_length and update_hash.
LEMMA PassUpdate ==
    ASSUME TypeOK, SeqInv, PassInv, UpdateLength \/ UpdateHash
    PROVE  PassInv'
<1>0. count \in Nat /\ UNCHANGED <<offset, length, hash, fuzz_current>>
  BY DEF TypeOK, UpdateLength, UpdateHash, Lists, progress
<1>1. CASE UpdateLength
  <2>1. /\ count + 1 \in DOMAIN length
        /\ IF Width(length[count + 1].type) = 0 THEN UNCHANGED buffer
           ELSE modify_data(length[count + 1], Cut(length[count + 1].type, Find(length[count + 1].id).size))
    BY <1>0, <1>1, NextEntry DEF UpdateLength, SeqInv
  <2>2. PICK l : l = length[count + 1]
    OBVIOUS
  <2>3. EntryOK(l, "size", Width(l.type))
    BY <2>1, <2>2 DEF PassInv
  <2>4. PICK bytes : bytes = Cut(l.type, Find(l.id).size)
    OBVIOUS
  <2>5. CASE Width(l.type) = 0
    BY <1>0, <2>1, <2>2, <2>5, PassUnchanged
  <2>6. CASE Width(l.type) # 0
    <3>1. modify_data(l, bytes)
      BY <2>1, <2>2, <2>4, <2>6 DEF modify_data
    <3>2. DOMAIN bytes \subseteq 1 .. Width(l.type) /\ Width(l.type) \in Nat
      BY <2>4, <2>6, CutWidth
    <3>3. "size" # "fuzz"
      OBVIOUS
    <3>4. QED
      BY ONLY TypeOK, SeqInv, PassInv, <1>0, <2>3, <3>1, <3>2, <3>3, PassModify
  <2>7. QED
    BY <2>5, <2>6
<1>2. CASE UpdateHash
  <2>1. PICK crc : /\ count + 1 \in DOMAIN hash
                   /\ modify_data(hash[count + 1], Cut(hash[count + 1].type, crc))
    BY <1>0, <1>2, NextEntry DEF UpdateHash, SeqInv
  <2>2. PICK l : l = hash[count + 1]
    OBVIOUS
  <2>3. EntryOK(l, "crc", 4) /\ l.type \in {"b32", "l32"}
    BY <2>1, <2>2 DEF PassInv
  <2>4. PICK bytes : bytes = Cut(l.type, crc)
    OBVIOUS
  <2>5. modify_data(l, bytes)
    BY <2>1, <2>2, <2>4 DEF modify_data
  <2>6. Width(l.type) = 4
    BY <2>3 DEF Width
  <2>7. DOMAIN bytes \subseteq 1 .. 4 /\ 4 \in Nat /\ "crc" # "fuzz"
    BY <2>4, <2>6, CutWidth
  <2>8. QED
    BY ONLY TypeOK, SeqInv, PassInv, <1>0, <2>3, <2>5, <2>7, PassModify
<1>3. QED
  BY <1>1, <1>2

\* An instruction that leaves the buffer alone.
LEMMA PassNext ==
    ASSUME TypeOK, SeqInv, PassInv, UNCHANGED <<buffer, length, hash, fuzz_current>>, offset' = offset + 1,
           offset \in Nat
    PROVE  PassInv'
<1>1. \A id : Kept(id)' <=> Kept(id)
  BY DEF Kept, CellsBy
<1>2. /\ \A k \in DOMAIN buffer : buffer[k].by < offset
      /\ \A k \in DOMAIN length : EntryOf(buffer, offset, length[k], "size", Width(length[k].type))
      /\ \A k \in DOMAIN hash :
            EntryOf(buffer, offset, hash[k], "crc", 4) /\ hash[k].type \in {"b32", "l32"}
      /\ \A id \in Ids : Kept(id) \/ (id = fuzz_current /\ InstrOf[id] < offset)
  BY DEF PassInv, EntryOK
<1>3. \A l, o, w : EntryOf(buffer, offset, l, o, w) => EntryOf(buffer', offset', l, o, w)
  <2>1. 1 .. offset - 1 \subseteq 1 .. offset' - 1
    OBVIOUS
  <2>2. QED
    BY ONLY <2>1, UNCHANGED <<buffer, length, hash, fuzz_current>> DEF EntryOf
<1>4. \A i \in Nat : i < offset => i < offset'
  OBVIOUS
<1>5. \A k \in DOMAIN buffer' : buffer'[k].by < offset'
  BY <1>2, <1>4, BufferFacts
<1>6. \A k \in DOMAIN length' :
          EntryOf(buffer', offset', length'[k], "size", Width(length'[k].type))
  BY <1>2, <1>3
<1>7. \A k \in DOMAIN hash' :
          EntryOf(buffer', offset', hash'[k], "crc", 4) /\ hash'[k].type \in {"b32", "l32"}
  BY <1>2, <1>3
<1>8. \A id \in Ids : Kept(id)' \/ (id = fuzz_current' /\ InstrOf[id] < offset')
  BY <1>1, <1>2, <1>4, InstrOfId, Instruction
<1>9. QED
  BY ONLY <1>5, <1>6, <1>7, <1>8, PassParts

\* With an empty buffer.
LEMMA PassEmpty ==
    ASSUME buffer = <<>>, length = <<>>, hash = <<>>
    PROVE  PassInv
BY DEF PassInv, Kept, CellsBy

\* Every step keeps PassInv.
LEMMA PassStep ==
    ASSUME TypeOK, Typed, SeqInv, PassInv, Next
    PROVE  PassInv'
<1>1. CASE NewFuzz \/ NextFuzz \/ OutOfTurn
  BY <1>1, PassOriginal
<1>2. CASE TryCase
  BY <1>2, PassTryCase
<1>3. CASE PushLength
  BY <1>3, PassPushLength
<1>4. CASE PushHash
  BY <1>4, PassPushHash
<1>5. CASE UpdateLength \/ UpdateHash
  BY <1>5, PassUpdate
<1>6. CASE Data
  <2>1. /\ Fetch({"data"}) /\ push_data(Instr.bytes) /\ UNCHANGED <<length, hash, fuzz_current>>
    BY <1>6 DEF Data, progress
  <2>2. /\ offset' = offset + 1 /\ Script[offset].op # "fuzz" /\ Instr.bytes \in Seq(0 .. Base - 1)
    BY <2>1, Fetched, OtherInstructions DEF Instr, Bytes
  <2>3. QED
    BY ONLY TypeOK, SeqInv, PassInv, <2>1, <2>2, PassPush
<1>7. CASE BlockBegin \/ BlockEnd \/ SendOrRecv
  <2>1. UNCHANGED <<buffer, length, hash, fuzz_current>> /\ \E ops : Fetch(ops)
    BY <1>7 DEF BlockBegin, BlockEnd, SendOrRecv, progress
  <2>2. offset' = offset + 1 /\ offset \in Nat
    BY <2>1, Fetched
  <2>3. QED
    BY ONLY TypeOK, SeqInv, PassInv, <2>1, <2>2, PassNext
<1>8. CASE EndPass
  <2>1. /\ buffer' = [k \in DOMAIN buffer |-> [by |-> 0, byte |-> 0]]
        /\ length' = <<>> /\ hash' = <<>> /\ offset' = 1
    BY <1>8 DEF EndPass
  <2>2. \A k \in DOMAIN buffer' : buffer'[k].by = 0
    BY <2>1
  <2>3. ASSUME NEW id \in Ids PROVE Kept(id)'
    <3>1. InstrOf[id] # 0
      BY InstrOfId, Instruction
    <3>2. CellsBy(InstrOf[id])' = {}
      BY <2>2, <3>1 DEF CellsBy
    <3>3. QED
      BY <3>2 DEF Kept
  <2>4. QED
    BY <2>1, <2>2, <2>3 DEF PassInv
<1>9. CASE UNCHANGED <<offset, buffer, length, hash, fuzz_current>>
  BY <1>9, PassUnchanged
<1>10. CASE Parsed \/ LengthsUpdated \/ HashesUpdated
  BY <1>9, <1>10 DEF Parsed, LengthsUpdated, HashesUpdated, Lists, progress
<1>11. CASE Plays \/ ReadMsg \/ ReadId
  BY <1>9, <1>11 DEF Plays, Connect, Listen, Accept, PlayNothing, SendFuzz, WriteFuzz, RecvFuzz, PlayDone,
     NothingSaid, ReadMsg, ReadId, InPass, lists
<1>12. CASE Hello \/ WaitForAck
  BY <1>9, <1>12 DEF Hello, WaitForAck, lists, progress
<1>13. CASE Adbg
  BY <1>9, <1>13 DEF Adbg, Answer, Hit, SayId, TargetEnds, Interrupt, Debugs, lists, progress
<1>14. QED
  BY <1>1, <1>2, <1>3, <1>4, <1>5, <1>6, <1>7, <1>8, <1>10, <1>11, <1>12, <1>13 DEF Next, Fuzzer, Runs, Waits, Plays

-----------------------------------------------------------------------------
(* Every case once.                                                         *)

\* The inductive invariant.
CaseInv == TypeOK /\ Typed /\ SeqInv /\ ProtoInv /\ TurnInv /\ PhaseInv /\ PassInv

\* The invariant holds before the first pass.
LEMMA InitCases ==
    ASSUME Init
    PROVE  CaseInv
<1>1. TypeOK /\ Typed /\ SeqInv /\ ProtoInv
  BY InitTypes
<1>2. /\ DOMAIN fuzz = {} /\ tried = <<>> /\ DOMAIN tried = {} /\ fuzz_current = 0
      /\ offset = 1 /\ ~ring_zero /\ pc \in {"hello", "fetch"}
      /\ buffer = <<>> /\ length = <<>> /\ hash = <<>>
  BY DEF Init
<1>3. TurnInv
  <2>1. \A id \in Ids : TriedOf(id) = {} /\ id >= fuzz_current
    BY <1>2, IdsAreNumbers DEF TriedOf
  <2>2. QED
    BY <1>2, <2>1 DEF TurnInv
<1>4. PhaseInv
  <2>1. 1 .. offset - 1 = {}
    BY <1>2
  <2>2. QED
    BY <1>2, <2>1 DEF PhaseInv, Sending
<1>5. PassInv
  BY <1>2, PassEmpty
<1>6. QED
  BY <1>1, <1>3, <1>4, <1>5 DEF CaseInv

\* A stutter keeps the invariant.
LEMMA StutterCases ==
    ASSUME CaseInv, UNCHANGED vars
    PROVE  CaseInv'
<1>1. TypeOK' /\ Typed' /\ SeqInv' /\ ProtoInv'
  BY StutterTypes DEF CaseInv
<1>2. TurnInv'
  <2>1. UNCHANGED <<conf, fuzz, fuzz_current, tried>> /\ TurnInv
    BY DEF CaseInv, vars, progress
  <2>2. \A other : TriedOf(other)' = TriedOf(other) /\ (MaySkip(other)' <=> MaySkip(other))
    BY <2>1 DEF TriedOf, MaySkip
  <2>3. \A other : EntryInv(other)' <=> EntryInv(other)
    BY <2>1, <2>2 DEF EntryInv, Relevant
  <2>4. QED
    BY <2>1, <2>2, <2>3 DEF TurnInv
<1>3. PhaseInv'
  BY DEF CaseInv, PhaseInv, vars, progress, fuzz_finished
<1>4. PassInv'
  BY PassUnchanged DEF CaseInv, vars, lists, progress
<1>5. QED
  BY <1>1, <1>2, <1>3, <1>4 DEF CaseInv

\* Every step keeps the invariant.
LEMMA CasesStep ==
    ASSUME CaseInv, Next
    PROVE  CaseInv'
BY TypeStep, TurnStep, PhaseStep, PassStep DEF CaseInv

\* The cases that an entry of the fuzzes counts.
LEMMA EntryCases ==
    ASSUME TypeOK, Typed, NEW id \in DOMAIN fuzz
    PROVE  /\ id \in Ids /\ CasesOf(id) = 1 .. fuzz[id].total
           /\ fuzz[id].current \in CasesOf(id) \cup {0}
           /\ fuzz[id].current >= fuzz[id].total => fuzz[id].current = fuzz[id].total
<1>1. id \in Ids /\ fuzz[id].total = Len(Script[InstrOf[id]].cases)
      /\ fuzz[id].current \in 0 .. fuzz[id].total
  BY DEF TypeOK
<1>2. Script[InstrOf[id]].cases \in Seq(Bytes)
  BY <1>1, InstrOfId, FuzzInstruction
<1>3. CasesOf(id) = 1 .. fuzz[id].total /\ fuzz[id].total \in Nat
  BY <1>1, <1>2 DEF CasesOf
<1>4. QED
  BY <1>1, <1>3

\* What the turn, the phase and the pass say together.
LEMMA CasesOnce ==
    ASSUME CaseInv
    PROVE  EachCaseOnce
<1> USE DEF CaseInv
<1>1. ASSUME NEW id \in Ids
      PROVE  /\ \E n \in CasesOf(id) \cup {0} : TriedOf(id) = 1 .. n
             /\ id < fuzz_current \/ (pc = "end" /\ result # -1) =>
                  TriedOf(id) = CasesOf(id) \/ (MaySkip(id) /\ TriedOf(id) = {})
  <2>0. 1 .. 0 = {} /\ id \in Nat /\ fuzz_current \in Nat
    BY TurnTypes
  <2>1. CASE id \notin DOMAIN fuzz
    <3>1. TriedOf(id) = {} /\ id >= fuzz_current
      BY <2>1 DEF TurnInv
    <3>2. ~(pc = "end" /\ result # -1)
      BY <2>1 DEF PhaseInv
    <3>3. QED
      BY <2>0, <3>1, <3>2
  <2>2. CASE id \in DOMAIN fuzz
    <3>1. /\ id < fuzz_current => fuzz[id].current = fuzz[id].total
          /\ \/ TriedOf(id) = 1 .. fuzz[id].current
             \/ MaySkip(id) /\ TriedOf(id) = {}
      BY <2>2 DEF TurnInv, EntryInv
    <3>2. /\ CasesOf(id) = 1 .. fuzz[id].total
          /\ fuzz[id].current \in CasesOf(id) \cup {0}
          /\ fuzz[id].current >= fuzz[id].total => fuzz[id].current = fuzz[id].total
      BY <2>2, EntryCases
    <3>3. pc = "end" /\ result # -1 => fuzz[id].current >= fuzz[id].total
      BY <2>2 DEF PhaseInv, fuzz_finished
    <3>4. \E n \in CasesOf(id) \cup {0} : TriedOf(id) = 1 .. n
      BY <2>0, <3>1, <3>2
    <3>5. QED
      BY <3>1, <3>2, <3>3, <3>4
  <2>3. QED
    BY <2>1, <2>2
<1>2. \A i, j \in DOMAIN tried :
          i < j => \/ tried[i][1] < tried[j][1]
                   \/ tried[i][1] = tried[j][1] /\ tried[i][2] < tried[j][2]
  BY DEF TurnInv, Before
<1>3. \A id \in Changed : id = fuzz_current
  BY DEF Changed, PassInv
<1>4. QED
  BY <1>1, <1>2, <1>3 DEF EachCaseOnce

\* fuzz_core tries every case of every fuzz once, in order and one in a pass, and skips a
\* string only as a whole and only without weight: for every script, however many weights
\* the debugger sends and wherever it dies.
THEOREM EveryCaseOnce == Spec => []EachCaseOnce
<1>1. Init => CaseInv
  BY InitCases
<1>2. CaseInv /\ [Next]_vars => CaseInv'
  BY CasesStep, StutterCases
<1>3. CaseInv => EachCaseOnce
  BY CasesOnce
<1>4. QED
  BY <1>1, <1>2, <1>3, PTL DEF Spec

-----------------------------------------------------------------------------
(* The bytes of a number. *)

\* Every set of numbers has a least one.
LEMMA LeastOf ==
    ASSUME NEW T \in SUBSET Nat, T # {}
    PROVE  \E m \in T : \A k \in T : m <= k
<1> DEFINE Less == {p \in Nat \X Nat : p[1] < p[2]}
<1>1. IsWellFoundedOn(Less, Nat)
  BY NatLessThanWellFounded DEF OpToRel, Less
<1>0. \A k, m \in Nat : k < m => <<k, m>> \in Less
  OBVIOUS
<1> HIDE DEF Less
<1>2. PICK m \in T : \A k \in T : <<k, m>> \notin Less
  BY <1>1, WFMin
<1>3. ASSUME NEW k \in T PROVE m <= k
  <2>1. k \in Nat /\ m \in Nat
    OBVIOUS
  <2>2. ~(k < m)
    BY <1>0, <1>2, <2>1
  <2>3. QED
    BY <2>1, <2>2
<1>4. QED
  BY <1>3

\* What the powers of the base are.
LEMMA Powers ==
    /\ Power[0] = 1 /\ Power[1] = Base /\ Power[2] = Base * Base
    /\ Power[3] = Base * (Base * Base) /\ Power[4] = Base * (Base * (Base * Base))
    /\ \A k \in 0 .. 4 : Power[k] \in Nat \ {0}
    /\ Base \in Nat /\ Base > 1
<1> DEFINE p == [k \in 0 .. 4 |-> CASE k = 0 -> 1 [] k = 1 -> Base [] k = 2 -> Base * Base
                                    [] k = 3 -> Base * (Base * Base)
                                    [] OTHER -> Base * (Base * (Base * Base))]
<1>0. Base \in Nat /\ Base > 1
  BY AutodafeAssumption
<1>1. \A k \in 0 .. 4 : p[k] = IF k = 0 THEN 1 ELSE Base * p[k - 1]
  <2>1. TAKE k \in 0 .. 4
  <2>2. k \in {0, 1, 2, 3, 4}
    OBVIOUS
  <2> QED
    BY <2>2, <1>0
<1>2. p = [k \in 0 .. 4 |-> IF k = 0 THEN 1 ELSE Base * p[k - 1]]
  <2>1. p = [k \in 0 .. 4 |-> p[k]]
    OBVIOUS
  <2> HIDE DEF p
  <2>2. QED
    BY <1>1, <2>1
<1> HIDE DEF p
<1>3. Power = [k \in 0 .. 4 |-> IF k = 0 THEN 1 ELSE Base * Power[k - 1]]
  BY <1>2 DEF Power
<1>4. /\ Power[0] = 1 /\ Power[1] = Base * Power[0] /\ Power[2] = Base * Power[1]
      /\ Power[3] = Base * Power[2] /\ Power[4] = Base * Power[3]
  BY <1>3
<1>5. \A x, y \in Nat : x > 0 /\ y > 0 => x * y \in Nat /\ x * y > 0
  OBVIOUS
<1>6. /\ Power[0] = 1 /\ Power[1] = Base /\ Power[2] = Base * Base
    /\ Power[3] = Base * (Base * Base) /\ Power[4] = Base * (Base * (Base * Base))
  BY <1>4, <1>0
<1>7. Power[0] \in Nat /\ Power[0] > 0
  BY <1>6
<1>8. Power[1] \in Nat /\ Power[1] > 0
  BY <1>6, <1>0
<1>9. Power[2] \in Nat /\ Power[2] > 0
  BY ONLY <1>4, <1>0, <1>8, <1>5
<1>10. Power[3] \in Nat /\ Power[3] > 0
  BY ONLY <1>4, <1>0, <1>9, <1>5
<1>11. Power[4] \in Nat /\ Power[4] > 0
  BY ONLY <1>4, <1>0, <1>10, <1>5
<1>12. \A k \in 0 .. 4 : k = 0 \/ k = 1 \/ k = 2 \/ k = 3 \/ k = 4
  OBVIOUS
<1>13. \A k \in 0 .. 4 : Power[k] \in Nat \ {0}
  BY ONLY <1>7, <1>8, <1>9, <1>10, <1>11, <1>12
<1> QED
  BY ONLY <1>0, <1>6, <1>13

\* The quotient and the remainder of a number.
LEMMA Division ==
    ASSUME NEW n \in Nat, NEW d \in Nat \ {0}
    PROVE  /\ n \div d \in Nat /\ n % d \in 0 .. d - 1
           /\ n = d * (n \div d) + (n % d)
OBVIOUS

\* A number has one quotient and one remainder.
LEMMA Quotient ==
    ASSUME NEW d \in Nat \ {0}, NEW q \in Nat, NEW r \in 0 .. d - 1, NEW p \in Nat, NEW s \in 0 .. d - 1,
           d * q + r = d * p + s
    PROVE  q = p /\ r = s
<1>1. \A x, y \in Nat : x < y => d * x + d <= d * y
  <2>1. TAKE x, y \in Nat
  <2>2. d * (y - x) = d * y - d * x
    OBVIOUS
  <2>3. \A z \in Nat \ {0} : d * z >= d
    OBVIOUS
  <2> QED
    BY <2>2, <2>3
<1>2. ~ (q < p) /\ ~ (p < q)
   <2>1. d * q \in Nat /\ d * p \in Nat
     OBVIOUS
   <2> QED
     BY <1>1, <2>1
<1>3. q = p
  BY <1>2
<1> QED
  BY <1>3

\* To divide by a product is to divide twice.
LEMMA DivDiv ==
    ASSUME NEW n \in Nat, NEW d \in Nat \ {0}, NEW e \in Nat \ {0}
    PROVE  n \div (d * e) = (n \div d) \div e
<1> DEFINE a == n \div d
           b == a \div e
           r == n % d
           s == a % e
<1>1. a \in Nat /\ r \in 0 .. d - 1 /\ n = d * a + r
  BY Division
<1>2. b \in Nat /\ s \in 0 .. e - 1 /\ a = e * b + s
  BY ONLY <1>1, Division, e \in Nat \ {0}
<1> DEFINE c == n \div (d * e)
           t == n % (d * e)
<1>3. d * e \in Nat \ {0}
  OBVIOUS
<1>4. c \in Nat /\ t \in 0 .. d * e - 1 /\ n = (d * e) * c + t
  BY ONLY <1>3, n \in Nat, Division
<1> HIDE DEF a, b, r, s, c, t
<1>5. n = (d * e) * b + (d * s + r)
  <2>1. n = d * (e * b + s) + r
    BY <1>1, <1>2
  <2>2. d * (e * b + s) = (d * e) * b + d * s
    BY <1>1, <1>2
  <2> QED
    BY <2>1, <2>2, <1>1, <1>2
<1>6. d * s + r \in 0 .. d * e - 1
  <2>1. s + 1 <= e /\ s \in Nat
    BY <1>2
  <2>2. d * (e - (s + 1)) >= 0
    <3>1. e - (s + 1) \in Nat
      BY <2>1
    <3>2. \A x, y \in Nat : x * y >= 0
      OBVIOUS
    <3> QED
      BY ONLY <3>1, <3>2, d \in Nat \ {0}
  <2>3. d * (e - (s + 1)) = d * e - d * s - d
    BY <2>1
  <2>4. d * s \in Nat /\ d * e \in Nat
    BY <2>1
  <2> QED
    BY ONLY <2>2, <2>3, <2>4, <1>1, d \in Nat
<1>7. c = b
  BY ONLY <1>2, <1>3, <1>4, <1>5, <1>6, Quotient
<1> QED
  BY <1>7 DEF c, b, a

\* The number that up to four digits stand for.
LEMMA ValueOfDigits ==
    ASSUME NEW digits \in Seq(Nat), Len(digits) \in {1, 2, 4}
    PROVE  /\ Len(digits) = 1 => Value(digits) = digits[1]
           /\ Len(digits) = 2 => Value(digits) = digits[1] * Base + digits[2]
           /\ Len(digits) = 4 => Value(digits) =
                ((digits[1] * Base + digits[2]) * Base + digits[3]) * Base + digits[4]
<1> DEFINE m == Len(digits)
           Step(v, k) == v * Base + digits[k]
           v1 == digits[1]
           v2 == Step(v1, 2)
           v3 == Step(v2, 3)
           v4 == Step(v3, 4)
           g == [k \in 0 .. m |-> IF k = 0 THEN 0 ELSE IF k = 1 THEN v1 ELSE IF k = 2 THEN v2
                                  ELSE IF k = 3 THEN v3 ELSE v4]
           value == CHOOSE value : value = [k \in 0 .. m |->
                        IF k = 0 THEN 0 ELSE value[k - 1] * Base + digits[k]]
<1>1. Base \in Nat /\ m \in Nat /\ \A k \in 1 .. m : digits[k] \in Nat
  BY Powers
<1>2. \A k \in 0 .. m : g[k] = IF k = 0 THEN 0 ELSE g[k - 1] * Base + digits[k]
  <2>1. TAKE k \in 0 .. m
  <2>2. k = 0 \/ k = 1 \/ k = 2 \/ k = 3 \/ k = 4
    BY <1>1
  <2>3. CASE k = 1
    <3>1. g[0] = 0 /\ g[1] = v1
      BY <2>3, <1>1
    <3>2. 0 * Base + digits[1] = digits[1]
      BY <1>1, <2>3
    <3> QED
      BY <3>1, <3>2, <2>3
  <2>4. QED
    BY <2>2, <2>3, <1>1
<1>3. g = [k \in 0 .. m |-> IF k = 0 THEN 0 ELSE g[k - 1] * Base + digits[k]]
  <2>1. g = [k \in 0 .. m |-> g[k]]
    OBVIOUS
  <2> HIDE DEF g
  <2>2. QED
    BY <1>2, <2>1
<1>4. Value(digits) = value[m]
  BY DEF Value
<1> HIDE DEF g
<1>5. value = [k \in 0 .. m |-> IF k = 0 THEN 0 ELSE value[k - 1] * Base + digits[k]]
  BY <1>3
<1> HIDE DEF value
<1>6. /\ value[0] = 0
      /\ \A k \in 1 .. m : value[k] = value[k - 1] * Base + digits[k]
  BY <1>1, <1>5
<1> HIDE DEF m
<1>7. m >= 1 => value[1] = digits[1]
  <2>1. SUFFICES ASSUME m >= 1 PROVE value[1] = digits[1]
    OBVIOUS
  <2>2. value[1] = 0 * Base + digits[1]
    BY <1>6, <1>1, <2>1
  <2>3. digits[1] \in Nat
    BY <1>1, <2>1
  <2> QED
    BY <2>2, <2>3, <1>1
<1>8. m >= 2 => value[2] = digits[1] * Base + digits[2]
  BY <1>6, <1>7, <1>1
<1>9. m >= 3 => value[3] = (digits[1] * Base + digits[2]) * Base + digits[3]
  BY <1>6, <1>8, <1>1
<1>10. m >= 4 => value[4] = ((digits[1] * Base + digits[2]) * Base + digits[3]) * Base + digits[4]
  BY <1>6, <1>9, <1>1
<1>11. m \in {1, 2, 4} /\ m = Len(digits)
  BY DEF m
<1>12. QED
  BY ONLY <1>4, <1>7, <1>8, <1>10, <1>11

\* A digest is a value of 32 bits.
LEMMA DigestType ==
    ASSUME NEW bytes \in Seq(Nat)
    PROVE  Digest(bytes) \in 0 .. Power[4] - 1
<1> DEFINE n == Len(bytes)
           Step(f, k) == IF k = 0 THEN 0 ELSE (3 * f[k - 1] + bytes[k] + 1) % Power[4]
           Fits(f, m) == \A k \in 0 .. m : f[k] = Step(f, k)
           Unfit == {m \in 0 .. n : \A f : ~Fits(f, m)}
           check == CHOOSE check : check = [k \in 0 .. n |->
                        IF k = 0 THEN 0 ELSE (3 * check[k - 1] + bytes[k] + 1) % Power[4]]
           Out == {k \in 0 .. n : check[k] \notin 0 .. Power[4] - 1}
<1>1. n \in Nat /\ \A k \in 1 .. n : bytes[k] \in Nat
  OBVIOUS
<1>2. Power[4] \in Nat \ {0}
  BY Powers
<1>3. \E f : Fits(f, n)
  <2>1. SUFFICES Unfit = {}
    BY <1>1
  <2>2. SUFFICES ASSUME Unfit # {} PROVE FALSE
    OBVIOUS
  <2>10. Unfit \in SUBSET Nat
    BY <1>1
  <2> HIDE DEF Unfit
  <2>3. PICK m \in Unfit : \A k \in Unfit : m <= k
    BY ONLY <2>2, <2>10, LeastOf
  <2> USE DEF Unfit
  <2>4. m # 0
    <3>1. Fits([k \in {0} |-> 0], 0)
      OBVIOUS
    <3>2. QED
      BY <3>1
  <2>5. m \in 0 .. n /\ m - 1 \in 0 .. n /\ m - 1 \notin Unfit
    <3>1. m \in 0 .. n /\ m - 1 \in 0 .. n /\ ~(m <= m - 1)
      BY <1>1, <2>4
    <3>2. m - 1 \notin Unfit
      BY ONLY <2>3, <3>1
    <3>3. QED
      BY <3>1, <3>2
  <2>6. PICK f : Fits(f, m - 1)
    BY <2>5
  <2>7. Fits([k \in 0 .. m |-> IF k = m THEN Step(f, m) ELSE f[k]], m)
    BY <2>4, <2>5, <2>6
  <2>8. QED
    BY <2>3, <2>7
<1>4. check = [k \in 0 .. n |-> IF k = 0 THEN 0 ELSE (3 * check[k - 1] + bytes[k] + 1) % Power[4]]
  <2>1. PICK f : Fits(f, n)
    BY <1>3
  <2> DEFINE g == [k \in 0 .. n |-> f[k]]
  <2>2. \A k \in 0 .. n : g[k] = Step(g, k)
    BY <1>1, <2>1
  <2>3. g = [k \in 0 .. n |-> g[k]]
    OBVIOUS
  <2> HIDE DEF g
  <2>4. g = [k \in 0 .. n |-> IF k = 0 THEN 0 ELSE (3 * g[k - 1] + bytes[k] + 1) % Power[4]]
    BY <2>2, <2>3
  <2>5. QED
    BY <2>4
<1>5. Digest(bytes) = check[n]
  BY DEF Digest
<1> HIDE DEF check
<1>6. Out = {}
  <2>1. SUFFICES ASSUME Out # {} PROVE FALSE
    OBVIOUS
  <2>10. Out \in SUBSET Nat
    BY <1>1
  <2> HIDE DEF Out
  <2>2. PICK m \in Out : \A k \in Out : m <= k
    BY ONLY <2>1, <2>10, LeastOf
  <2> USE DEF Out
  <2>3. m # 0
    BY <1>2, <1>4
  <2>4. m - 1 \in 0 .. n /\ check[m - 1] \in 0 .. Power[4] - 1 /\ bytes[m] \in Nat
    BY <1>1, <2>2, <2>3
  <2>5. check[m] = (3 * check[m - 1] + bytes[m] + 1) % Power[4]
    BY <1>4, <2>2, <2>3
  <2>6. 3 * check[m - 1] + bytes[m] + 1 \in Nat
    BY <1>2, <2>4
  <2>7. check[m] \in 0 .. Power[4] - 1
    BY ONLY <1>2, <2>5, <2>6, Division
  <2>8. QED
    BY <2>2, <2>7
<1>7. QED
  BY <1>1, <1>5, <1>6

\* The digits of a number, from its quotients by the base.
LEMMA Digits ==
    ASSUME NEW n \in Nat
    PROVE  \E a1, a2, a3, a4 \in Nat, d0, d1, d2, d3 \in 0 .. Base - 1 :
              /\ n = Base * a1 + d0 /\ a1 = Base * a2 + d1 /\ a2 = Base * a3 + d2
              /\ a3 = Base * a4 + d3
              /\ BigEndian(n) \in Seq(0 .. Base - 1) /\ Len(BigEndian(n)) = 4
              /\ BigEndian(n)[1] = d3 /\ BigEndian(n)[2] = d2 /\ BigEndian(n)[3] = d1
              /\ BigEndian(n)[4] = d0
<1> DEFINE a1 == n \div Base
           a2 == a1 \div Base
           a3 == a2 \div Base
           a4 == a3 \div Base
<1>1. Base \in Nat \ {0}
  BY Powers
<1>2. a1 \in Nat /\ n % Base \in 0 .. Base - 1 /\ n = Base * a1 + (n % Base)
  BY <1>1, Division
<1> HIDE DEF a1
<1>3. a2 \in Nat /\ a1 % Base \in 0 .. Base - 1 /\ a1 = Base * a2 + (a1 % Base)
  BY <1>1, <1>2, Division
<1> HIDE DEF a2
<1>4. a3 \in Nat /\ a2 % Base \in 0 .. Base - 1 /\ a2 = Base * a3 + (a2 % Base)
  BY <1>1, <1>3, Division
<1> HIDE DEF a3
<1>5. a4 \in Nat /\ a3 % Base \in 0 .. Base - 1 /\ a3 = Base * a4 + (a3 % Base)
  BY <1>1, <1>4, Division
<1> HIDE DEF a4
<1>6. n \div Power[0] = n
  <2>1. n \div 1 = n
    OBVIOUS
  <2> QED
    BY <2>1, Powers
<1>7. n \div Power[1] = a1
  BY Powers DEF a1
<1>8. n \div Power[2] = a2
  <2>1. n \div (Base * Base) = (n \div Base) \div Base
    BY ONLY <1>1, n \in Nat, DivDiv
  <2> QED
    BY <2>1, Powers DEF a1, a2
<1>9. n \div Power[3] = a3
  <2>0. Base * Base \in Nat \ {0} /\ (Base * Base) * Base = Base * (Base * Base)
    BY <1>1
  <2>1. n \div ((Base * Base) * Base) = (n \div (Base * Base)) \div Base
    BY ONLY <1>1, <2>0, n \in Nat, DivDiv
  <2>2. n \div (Base * (Base * Base)) = (n \div (Base * Base)) \div Base
    BY ONLY <2>0, <2>1
  <2>3. Power[2] = Base * Base /\ Power[3] = Base * (Base * Base)
    BY Powers
  <2> QED
    BY ONLY <2>2, <2>3, <1>8 DEF a3
<1> DEFINE big == BigEndian(n)
<1>10. big = [k \in 1 .. 4 |-> (n \div Power[4 - k]) % Base]
  BY DEF BigEndian
<1>11. \A k \in 1 .. 4 : k = 1 \/ k = 2 \/ k = 3 \/ k = 4
  OBVIOUS
<1> HIDE DEF big
<1>12. big[1] = (n \div Power[3]) % Base /\ big[2] = (n \div Power[2]) % Base /\ big[3] = (n \div Power[1]) % Base
       /\ big[4] = (n \div Power[0]) % Base
  BY ONLY <1>10
<1>13. big[1] = a3 % Base /\ big[2] = a2 % Base /\ big[3] = a1 % Base /\ big[4] = n % Base
  BY ONLY <1>6, <1>7, <1>8, <1>9, <1>12
<1>14. \A k \in 1 .. 4 : big[k] \in 0 .. Base - 1
  BY ONLY <1>2, <1>3, <1>4, <1>5, <1>11, <1>13
<1>15. big \in Seq(0 .. Base - 1) /\ Len(big) = 4
  BY ONLY <1>10, <1>14
<1> QED
  BY ONLY <1>2, <1>3, <1>4, <1>5, <1>13, <1>15 DEF big

\* The remainder is what is left of a multiple.
LEMMA Remainder ==
    ASSUME NEW n \in Nat, NEW d \in Nat \ {0}, NEW q \in Nat, NEW r \in 0 .. d - 1, n = d * q + r
    PROVE  n % d = r
<1>1. n \div d \in Nat /\ n % d \in 0 .. d - 1 /\ n = d * (n \div d) + (n % d)
  BY Division
<1> DEFINE p == n \div d
           s == n % d
<1> HIDE DEF p, s
<1>2. p \in Nat /\ s \in 0 .. d - 1 /\ d * q + r = d * p + s
  BY <1>1 DEF p, s
<1>3. r = s
  BY ONLY <1>2, d \in Nat \ {0}, q \in Nat, r \in 0 .. d - 1, Quotient
<1> QED
  BY <1>3 DEF s

\* A digit more makes a number of one digit more.
LEMMA Horner ==
    ASSUME NEW B \in Nat, NEW w \in Nat, w > 0, NEW v \in 0 .. w - 1, NEW d \in 0 .. B - 1
    PROVE  v * B + d \in 0 .. B * w - 1
<1>1. v * B \in Nat /\ B * w \in Nat
  OBVIOUS
<1>2. w - 1 - v \in Nat
  OBVIOUS
<1>3. \A x, y \in Nat : x * y >= 0
  OBVIOUS
<1>4. (w - 1 - v) * B >= 0
  BY ONLY <1>2, <1>3, B \in Nat
<1>5. (w - 1 - v) * B = B * w - B - v * B
  BY <1>2
<1> QED
  BY <1>1, <1>4, <1>5

\* The parts of four bytes.
LEMMA Parts ==
    ASSUME NEW S, NEW s \in Seq(S), Len(s) = 4
    PROVE  /\ Reverse(s) \in Seq(S) /\ Len(Reverse(s)) = 4
           /\ SubSeq(s, 3, 4) \in Seq(S) /\ Len(SubSeq(s, 3, 4)) = 2
           /\ SubSeq(s, 4, 4) \in Seq(S) /\ Len(SubSeq(s, 4, 4)) = 1
<1>1. \A k \in 1 .. 4 : s[k] \in S /\ 4 - k + 1 \in 1 .. 4
  OBVIOUS
<1>2. Reverse(s) = [k \in 1 .. 4 |-> s[4 - k + 1]]
  BY DEF Reverse
<1>3. [k \in 1 .. 4 |-> s[4 - k + 1]] \in Seq(S)
  BY ONLY <1>1
<1>4. Len([k \in 1 .. 4 |-> s[4 - k + 1]]) = 4
  OBVIOUS
<1>5. SubSeq(s, 3, 4) \in Seq(S) /\ Len(SubSeq(s, 3, 4)) = 2
  <2>1. 3 \in 1 .. Len(s) + 1 /\ 4 \in 3 - 1 .. Len(s) /\ 4 - 3 + 1 = 2
    OBVIOUS
  <2>2. QED
    BY ONLY <2>1, s \in Seq(S), SubSeqProperties
<1>6. SubSeq(s, 4, 4) \in Seq(S) /\ Len(SubSeq(s, 4, 4)) = 1
  OBVIOUS
<1>7. QED
  BY ONLY <1>2, <1>3, <1>4, <1>5, <1>6

\* A value is cut to the width of its field.
LEMMA CutBytes ==
    ASSUME NEW type \in {"b32", "l32", "b16", "l16", "b8"}, NEW n \in Nat
    PROVE  /\ Cut(type, n) \in Seq(0 .. Base - 1) /\ Len(Cut(type, n)) = Width(type)
           /\ Width(type) \in {1, 2, 4}
<1> DEFINE big == BigEndian(n)
           little == Reverse(big)
           S == 0 .. Base - 1
<1>1. big \in Seq(S) /\ Len(big) = 4
  BY Digits
<1> HIDE DEF big, S
<1>2. little \in Seq(S) /\ Len(little) = 4
  BY ONLY <1>1, Parts
<1> HIDE DEF little
<1>3. SubSeq(big, 3, 4) \in Seq(S) /\ Len(SubSeq(big, 3, 4)) = 2
      /\ SubSeq(little, 3, 4) \in Seq(S) /\ Len(SubSeq(little, 3, 4)) = 2
      /\ SubSeq(big, 4, 4) \in Seq(S) /\ Len(SubSeq(big, 4, 4)) = 1
  BY ONLY <1>1, <1>2, Parts
<1>9. Cut(type, n) = CASE type = "b32" -> big
                       [] type = "l32" -> little
                       [] type = "b16" -> SubSeq(big, 3, 4)
                       [] type = "l16" -> SubSeq(little, 3, 4)
                       [] type = "b8" -> SubSeq(big, 4, 4)
  BY DEF Cut, big, little
<1>10. Cut(type, n) \in Seq(S) /\ Len(Cut(type, n)) = Width(type) /\ Width(type) \in {1, 2, 4}
  BY <1>1, <1>2, <1>3, <1>9 DEF Width
<1> QED
  BY <1>10 DEF S

\* What stands in a field is the value, but for what is above its width; l16 has no bytes.
LEMMA CutValue ==
    ASSUME NEW type \in {"b32", "l32", "b16", "b8"}, NEW n \in Nat
    PROVE  Value(IF type = "l32" THEN Reverse(Cut(type, n)) ELSE Cut(type, n)) = n % Power[Width(type)]
<1> DEFINE big == BigEndian(n)
           B == Base
<1>1. PICK a1, a2, a3, a4 \in Nat, d0, d1, d2, d3 \in 0 .. B - 1 :
              /\ n = B * a1 + d0 /\ a1 = B * a2 + d1 /\ a2 = B * a3 + d2
              /\ a3 = B * a4 + d3
              /\ big \in Seq(0 .. B - 1) /\ Len(big) = 4
              /\ big[1] = d3 /\ big[2] = d2 /\ big[3] = d1
              /\ big[4] = d0
  BY Digits
<1>2. Cut("b32", n) = big /\ Cut("l32", n) = Reverse(big) /\ Cut("b16", n) = SubSeq(big, 3, 4)
      /\ Cut("b8", n) = SubSeq(big, 4, 4)
  BY DEF Cut
<1>3. Power[1] = B /\ Power[2] = B * B /\ Power[4] = B * (B * (B * B)) /\ B \in Nat /\ B > 1
      /\ Power[4] \in Nat \ {0} /\ Power[2] \in Nat \ {0} /\ Power[3] = B * (B * B) /\ Power[3] \in Nat \ {0}
  BY Powers
<1> HIDE DEF big, B
<1>4. Reverse(Reverse(big)) = big
  BY <1>1 DEF Reverse
<1>5. big \in Seq(Nat)
  <2>1. 0 .. B - 1 \subseteq Nat
    BY <1>3
  <2> QED
    BY ONLY <2>1, <1>1, SeqWiden
<1>6. CASE type = "b8"
  <2>1. SubSeq(big, 4, 4) \in Seq(Nat) /\ Len(SubSeq(big, 4, 4)) = 1 /\ SubSeq(big, 4, 4)[1] = d0
    BY <1>1, <1>5
  <2>2. Value(SubSeq(big, 4, 4)) = d0
    BY ONLY <2>1, ValueOfDigits
  <2>3. n % B = d0
    <3>1. B \in Nat \ {0}
      BY <1>3
    <3> QED
      BY ONLY <1>1, <3>1, n \in Nat, Remainder
  <2>4. Width(type) = 1
    BY <1>6 DEF Width
  <2> QED
    BY <2>2, <2>3, <2>4, <1>2, <1>3, <1>6
<1>7. d1 * B + d0 \in 0 .. B * B - 1
  <2>1. B > 0
    BY <1>3
  <2> QED
    BY ONLY <1>1, <1>3, <2>1, Horner
<1>8. CASE type = "b16"
  <2> DEFINE v == d1 * B + d0
  <2>1. SubSeq(big, 3, 4) \in Seq(Nat) /\ Len(SubSeq(big, 3, 4)) = 2 /\ SubSeq(big, 3, 4)[1] = d1
        /\ SubSeq(big, 3, 4)[2] = d0
    BY <1>1, <1>5
  <2>2. Value(SubSeq(big, 3, 4)) = d1 * Base + d0
    BY ONLY <2>1, ValueOfDigits
  <2>3. n = (B * B) * a2 + v
    <3>1. n = B * (B * a2 + d1) + d0
      BY <1>1
    <3>2. B * (B * a2 + d1) = (B * B) * a2 + d1 * B
      BY <1>1, <1>3
    <3> QED
      BY <3>1, <3>2, <1>3
  <2>5. v \in 0 .. B * B - 1
    BY <1>7
  <2> HIDE DEF v
  <2>6. n % (B * B) = v
    <3>1. PICK w \in Nat \ {0} : w = B * B
      BY <1>3
    <3>2. n = w * a2 + v /\ v \in 0 .. w - 1
      BY ONLY <2>3, <2>5, <3>1
    <3>3. n % w = v
      BY ONLY <3>2, w \in Nat \ {0}, a2 \in Nat, n \in Nat, Remainder
    <3> QED
      BY ONLY <3>1, <3>3
  <2>7. Width(type) = 2
    BY <1>8 DEF Width
  <2> QED
    BY <2>2, <2>6, <2>7, <1>2, <1>3, <1>8 DEF v, B
<1>9. CASE type \in {"b32", "l32"}
  <2> DEFINE v1 == d3 * B + d2
             v2 == v1 * B + d1
             v == v2 * B + d0
  <2>1. Value(big) = ((d3 * Base + d2) * Base + d1) * Base + d0
    BY ONLY <1>1, <1>5, ValueOfDigits
  <2>2. (IF type = "l32" THEN Reverse(Cut(type, n)) ELSE Cut(type, n)) = big
    BY <1>2, <1>4, <1>9
  <2>3. v1 \in 0 .. B * B - 1
    <3>1. B > 0
      BY <1>3
    <3> QED
      BY ONLY <1>1, <1>3, <3>1, Horner
  <2> HIDE DEF v1
  <2>4. v2 \in 0 .. B * (B * B) - 1
    <3>1. B * B \in Nat /\ B * B > 0
      BY <1>3
    <3> QED
      BY ONLY <1>1, <1>3, <2>3, <3>1, Horner
  <2> HIDE DEF v2
  <2>5. v \in 0 .. B * (B * (B * B)) - 1
    <3>1. B * (B * B) \in Nat /\ B * (B * B) > 0
      BY <1>3
    <3> QED
      BY ONLY <1>1, <1>3, <2>4, <3>1, Horner
  <2>6. n = (B * (B * (B * B))) * a4 + v
    <3>1. a2 = (B * B) * a4 + v1
      <4>1. B * (B * a4 + d3) = (B * B) * a4 + d3 * B
        BY <1>1, <1>3
      <4> QED
        BY <4>1, <1>1, <1>3 DEF v1
    <3> DEFINE P2 == B * B
    <3>2. P2 \in Nat
      BY <1>3
    <3> HIDE DEF P2
    <3>3. a1 = (B * P2) * a4 + v2
      <4>1. B * (P2 * a4 + v1) = (B * P2) * a4 + v1 * B
        BY <1>1, <1>3, <2>3, <3>2
      <4>2. a1 = B * (P2 * a4 + v1) + d1
        BY ONLY <1>1, <3>1 DEF P2
      <4>3. v1 * B \in Nat /\ (B * P2) * a4 \in Nat /\ d1 \in Nat
        BY <1>1, <1>3, <3>2, <2>3
      <4> QED
        BY ONLY <4>1, <4>2, <4>3 DEF v2
    <3> DEFINE P3 == B * P2
    <3>4. P3 \in Nat
      BY <1>3, <3>2
    <3> HIDE DEF P3
    <3>5. n = (B * P3) * a4 + v
      <4>0. v2 \in Nat
        BY <2>4
      <4>1. B * (P3 * a4 + v2) = (B * P3) * a4 + v2 * B
        BY <1>1, <1>3, <4>0, <3>4
      <4>2. n = B * (P3 * a4 + v2) + d0
        BY ONLY <1>1, <3>3 DEF P3
      <4>3. v2 * B \in Nat /\ (B * P3) * a4 \in Nat /\ d0 \in Nat
        BY <1>1, <1>3, <3>4, <4>0
      <4> QED
        BY ONLY <4>1, <4>2, <4>3 DEF v
    <3> QED
      BY ONLY <3>5 DEF P3, P2
  <2> HIDE DEF v
  <2>7. n % Power[4] = v
    <3>1. PICK w \in Nat \ {0} : w = B * (B * (B * B))
      BY ONLY <1>3
    <3>2. n = w * a4 + v /\ v \in 0 .. w - 1
      BY ONLY <2>5, <2>6, <3>1
    <3>3. n % w = v
      BY ONLY <3>2, w \in Nat \ {0}, a4 \in Nat, n \in Nat, Remainder
    <3> QED
      BY ONLY <3>1, <3>3, <1>3
  <2>8. Width(type) = 4
    BY <1>9 DEF Width
  <2>9. Value(big) = v
    BY ONLY <2>1 DEF v, v2, v1, B
  <2> QED
    BY ONLY <2>2, <2>7, <2>8, <2>9
<1> QED
  BY <1>6, <1>8, <1>9

-----------------------------------------------------------------------------
(* The entries of a pass: blocks, lengths and hashes. *)

\* The cells of a pass, and the places of a block in the script.
Cell == [by : Nat, byte : 0 .. Base - 1]
BlockType == [id : Blocks, size : Nat, offset : Nat, open : BOOLEAN]
Between(b) == BeginOf[b] + 1 .. EndOf[b] - 1
At(cells, places) == {k \in DOMAIN cells : cells[k].by \in places}

\* A block that was begun has one entry, which is open until its end is met and spans the
\* cells for the instructions between them.
BlockEntry(cells, next, e) ==
    /\ BeginOf[e.id] < next
    /\ e.open <=> next <= EndOf[e.id]
    /\ At(cells, Between(e.id)) = e.offset + 1 .. e.offset + e.size
    /\ e.offset + e.size <= Len(cells)
    /\ e.open => e.offset + e.size = Len(cells)

BlockInv ==
    /\ buffer \in Seq(Cell) /\ block \in Seq(BlockType)
    /\ \A k \in DOMAIN block : BlockEntry(buffer, offset, block[k])
    /\ \A j, k \in DOMAIN block : block[j].id = block[k].id => j = k
    /\ \A b \in Blocks : BeginOf[b] < offset => \E k \in DOMAIN block : block[k].id = b

\* An entry of the lengths or hashes is for the instruction of its first cell, and its bytes
\* are all the cells of that instruction.
By(cells, e) == cells[e.offset + 1].by
Placed(cells, next, e, op, width) ==
    /\ e.offset \in Nat /\ By(cells, e) \in 1 .. next - 1
    /\ Script[By(cells, e)].op = op
    /\ Script[By(cells, e)].block = e.id /\ Script[By(cells, e)].type = e.type
    /\ At(cells, {By(cells, e)}) = e.offset + 1 .. e.offset + width

Sized(l) == Width(l.type) > 0
PlaceInv ==
    /\ \A k \in DOMAIN length : Sized(length[k]) =>
          Placed(buffer, offset, length[k], "size", Width(length[k].type))
    /\ \A k \in DOMAIN hash : Placed(buffer, offset, hash[k], "crc", 4)
    /\ \A j, k \in DOMAIN hash : j < k => By(buffer, hash[j]) < By(buffer, hash[k])
    /\ \A i \in 1 .. offset - 1 :
          /\ Script[i].op = "size" /\ Sized(Script[i]) =>
                \E k \in DOMAIN length : Sized(length[k]) /\ By(buffer, length[k]) = i
          /\ Script[i].op = "crc" => \E k \in DOMAIN hash : By(buffer, hash[k]) = i

\* What is in the bytes of an entry: nothing yet, or the value for its block.
Zero(cells, h) == \A j \in 1 .. 4 : cells[h.offset + j].byte = 0
Written(cells, e, n) == \A j \in 1 .. Width(e.type) : cells[e.offset + j].byte = Cut(e.type, n)[j]
Part(cells, b) == SubSeq(cells, b.offset + 1, b.offset + b.size)
LastIn(cells, h) == \A i \in By(cells, h) + 1 .. Len(Script) : IsHash(i) => ~Holds(h.id, i)
Sealed(cells, h, b) ==
    LastIn(cells, h) => Written(cells, h, Digest(Raw(Blank(Part(cells, b), By(cells, h)))))

\* The lengths are written in their order, and then the hashes, each over what was written.
FieldInv ==
    /\ pc \in {"hello", "ack", "fetch", "length"} =>
          \A k \in DOMAIN hash : Zero(buffer, hash[k])
    /\ pc = "length" =>
          \A k \in DOMAIN length : k <= count => Written(buffer, length[k], Find(length[k].id).size)
    /\ pc \in {"hash", "started"} \cup Sending =>
          \A k \in DOMAIN length : Written(buffer, length[k], Find(length[k].id).size)
    /\ pc = "hash" =>
          \A k \in DOMAIN hash : IF k <= count THEN Sealed(buffer, hash[k], Find(hash[k].id))
                                 ELSE Zero(buffer, hash[k])
    /\ pc \in {"started"} \cup Sending =>
          \A k \in DOMAIN hash : Sealed(buffer, hash[k], Find(hash[k].id))

\* The cells for places that lie together in the buffer.
LEMMA CellsInRun ==
    ASSUME buffer \in Seq(Cell), NEW places, NEW p \in Nat, NEW n \in Nat,
           At(buffer, places) = p + 1 .. p + n, p + n <= Len(buffer)
    PROVE  /\ CellsIn(places) = [k \in 1 .. n |-> buffer[p + k]]
           /\ CellsIn(places) = SubSeq(buffer, p + 1, p + n)
           /\ CellsIn(places) \in Seq(Cell) /\ Len(CellsIn(places)) = n
<1>1. Cardinality(p + 1 .. p + n) = n
  <2>1. p + 1 \in Int /\ p + n \in Int
    OBVIOUS
  <2>2. Cardinality(p + 1 .. p + n) = IF p + 1 > p + n THEN 0 ELSE (p + n) - (p + 1) + 1
    BY ONLY <2>1, FS_Interval
  <2>3. QED
    BY ONLY <2>2, p \in Nat, n \in Nat
<1> DEFINE at == {k \in DOMAIN buffer : buffer[k].by \in places}
           upTo(k) == {j \in at : j <= k}
<1>0. at = p + 1 .. p + n
  BY DEF At
<1>3. CellsIn(places) = [m \in 1 .. Cardinality(at) |->
                           buffer[CHOOSE k \in at : Cardinality(upTo(k)) = m]]
  BY DEF CellsIn
<1> HIDE DEF at
<1>2. ASSUME NEW k \in at
      PROVE  Cardinality(upTo(k)) = k - p
  <2>1. upTo(k) = p + 1 .. k
    BY <1>0
  <2> HIDE DEF upTo
  <2>2. p + 1 \in Int /\ k \in Int /\ k >= p + 1
    BY <1>0
  <2>3. Cardinality(p + 1 .. k) = IF p + 1 > k THEN 0 ELSE k - (p + 1) + 1
    BY ONLY <2>2, FS_Interval
  <2>4. QED
    BY ONLY <2>1, <2>2, <2>3, p \in Nat
<1> HIDE DEF upTo
<1>4. \A m \in 1 .. n : (CHOOSE k \in at : Cardinality(upTo(k)) = m) = p + m
  <2>1. TAKE m \in 1 .. n
  <2>2. p + m \in at
    BY <1>0
  <2>3. \A k \in at : Cardinality(upTo(k)) = m <=> k = p + m
    BY <1>0, <1>2
  <2>4. QED
    BY ONLY <2>2, <2>3
<1>5. CellsIn(places) = [k \in 1 .. n |-> buffer[p + k]]
  BY ONLY <1>0, <1>1, <1>3, <1>4
<1>6. /\ \A k \in p + 1 .. p + n : buffer[k] \in Cell
      /\ \A k \in 1 .. n : buffer[p + k] \in Cell
  <2>1. DOMAIN buffer = 1 .. Len(buffer) /\ Len(buffer) \in Nat /\ \A k \in DOMAIN buffer : buffer[k] \in Cell
    BY ONLY buffer \in Seq(Cell), SeqFacts
  <2>2. QED
    BY <2>1
<1>7. CellsIn(places) = SubSeq(buffer, p + 1, p + n)
  <2>1. SubSeq(buffer, p + 1, p + n) = [k \in 1 .. n |-> buffer[p + k]]
    <3>1. p + 1 \in Int /\ p + n \in Int
      OBVIOUS
    <3>2. /\ SubSeq(buffer, p + 1, p + n) \in Seq(Cell)
          /\ Len(SubSeq(buffer, p + 1, p + n)) = IF p + 1 <= p + n THEN (p + n) - (p + 1) + 1 ELSE 0
          /\ \A k \in 1 .. (p + n) - (p + 1) + 1 : SubSeq(buffer, p + 1, p + n)[k] = buffer[(p + 1) + k - 1]
      BY ONLY <3>1, <1>6, SubSeqProperties
    <3> DEFINE sub == SubSeq(buffer, p + 1, p + n)
    <3> HIDE DEF sub
    <3>3. sub \in Seq(Cell) /\ Len(sub) = n /\ \A k \in 1 .. n : sub[k] = buffer[p + k]
      <4>1. (p + n) - (p + 1) + 1 = n /\ \A k \in 1 .. n : (p + 1) + k - 1 = p + k
        OBVIOUS
      <4>2. Len(sub) = n
        BY ONLY <3>2, <4>1, p \in Nat, n \in Nat DEF sub
      <4>3. QED
        BY ONLY <3>2, <4>1, <4>2 DEF sub
    <3>4. sub = [k \in 1 .. n |-> buffer[p + k]]
      BY ONLY <3>3
    <3>5. QED
      BY <3>4 DEF sub
  <2>2. QED
    BY ONLY <1>5, <2>1
<1>8. CellsIn(places) \in Seq(Cell) /\ Len(CellsIn(places)) = n
  BY ONLY <1>5, <1>6, n \in Nat
<1>9. QED
  BY ONLY <1>5, <1>7, <1>8

\* Where the blocks are in the script.
LEMMA BlockPlaces ==
    /\ \A b \in Blocks :
          /\ BeginOf[b] \in DOMAIN Script /\ EndOf[b] \in DOMAIN Script
          /\ Script[BeginOf[b]].op = "begin" /\ Script[BeginOf[b]].block = b
          /\ Script[EndOf[b]].op = "end" /\ Script[EndOf[b]].block = b
          /\ BeginOf[b] < EndOf[b]
    /\ \A i \in DOMAIN Script :
          /\ Script[i].op = "begin" => Script[i].block \in Blocks /\ i = BeginOf[Script[i].block]
          /\ Script[i].op = "end" => Script[i].block \in Blocks /\ i = EndOf[Script[i].block]
          /\ Script[i].op \notin {"data", "fuzz"} => Script[i].block \in Blocks
<1>1. DOMAIN Script \subseteq Nat
  BY AutodafeAssumption
<1>2. \A i, j \in DOMAIN Script :
          Script[i].op = Script[j].op /\ Script[i].op \in {"begin", "end"}
             /\ Script[i].block = Script[j].block => i = j
  <2>1. TAKE i, j \in DOMAIN Script
  <2>2. i < j \/ j < i \/ i = j
    BY <1>1
  <2>3. QED
    BY <2>2, AutodafeAssumption
<1>3. \A i \in DOMAIN Script :
          Script[i].op \notin {"data", "fuzz"} =>
              \E j, k \in DOMAIN Script :
                 /\ j < k /\ Script[j].op = "begin" /\ Script[k].op = "end"
                 /\ Script[j].block = Script[i].block /\ Script[k].block = Script[i].block
  BY AutodafeAssumption
<1>4. \A i \in DOMAIN Script : Script[i].op \notin {"data", "fuzz"} => Script[i].block \in Blocks
  BY <1>3 DEF Blocks
<1>5. ASSUME NEW b \in Blocks
      PROVE  /\ BeginOf[b] \in DOMAIN Script /\ EndOf[b] \in DOMAIN Script
             /\ Script[BeginOf[b]].op = "begin" /\ Script[BeginOf[b]].block = b
             /\ Script[EndOf[b]].op = "end" /\ Script[EndOf[b]].block = b
             /\ BeginOf[b] < EndOf[b]
  <2>1. PICK i \in DOMAIN Script : Script[i].op = "begin" /\ Script[i].block = b
    BY DEF Blocks
  <2>2. PICK j, k \in DOMAIN Script :
                 /\ j < k /\ Script[j].op = "begin" /\ Script[k].op = "end"
                 /\ Script[j].block = b /\ Script[k].block = b
    BY <1>3, <2>1
  <2>3. BeginOf[b] = (CHOOSE m \in DOMAIN Script : Script[m].op = "begin" /\ Script[m].block = b)
    BY DEF BeginOf
  <2>4. EndOf[b] = (CHOOSE m \in DOMAIN Script : Script[m].op = "end" /\ Script[m].block = b)
    BY DEF EndOf
  <2>5. BeginOf[b] \in DOMAIN Script /\ Script[BeginOf[b]].op = "begin" /\ Script[BeginOf[b]].block = b
    BY <2>2, <2>3
  <2>6. EndOf[b] \in DOMAIN Script /\ Script[EndOf[b]].op = "end" /\ Script[EndOf[b]].block = b
    BY <2>2, <2>4
  <2>7. BeginOf[b] = j /\ EndOf[b] = k
    BY <1>2, <2>2, <2>5, <2>6
  <2>8. QED
    BY <2>2, <2>5, <2>6, <2>7
<1>6. \A i \in DOMAIN Script :
          /\ Script[i].op = "begin" => Script[i].block \in Blocks /\ i = BeginOf[Script[i].block]
          /\ Script[i].op = "end" => Script[i].block \in Blocks /\ i = EndOf[Script[i].block]
  BY <1>2, <1>4, <1>5
<1>7. QED
  BY ONLY <1>4, <1>5, <1>6

\* Where the cells are after a push.
LEMMA CellsPushed ==
    ASSUME offset \in Nat, buffer \in Seq(Cell), NEW bytes \in Seq(0 .. Base - 1), push_data(bytes)
    PROVE  /\ buffer' \in Seq(Cell) /\ Len(buffer) \in Nat /\ Len(bytes) \in Nat
           /\ Len(buffer') = Len(buffer) + Len(bytes)
           /\ DOMAIN buffer = 1 .. Len(buffer) /\ DOMAIN buffer' = 1 .. Len(buffer) + Len(bytes)
           /\ \A k \in DOMAIN buffer : buffer'[k] = buffer[k]
           /\ \A k \in 1 .. Len(bytes) : buffer'[Len(buffer) + k] = [by |-> offset, byte |-> bytes[k]]
           /\ \A places : At(buffer', places) =
                 At(buffer, places) \cup (IF offset \in places
                                  THEN Len(buffer) + 1 .. Len(buffer) + Len(bytes) ELSE {})
<1>1. /\ Len(buffer') = Len(buffer) + Len(bytes)
      /\ \A k \in 1 .. Len(buffer) : buffer'[k] = buffer[k]
      /\ \A k \in 1 .. Len(bytes) : buffer'[Len(buffer) + k] = [by |-> offset, byte |-> bytes[k]]
      /\ buffer' \in Seq(Cell)
  <2> DEFINE S == 0 .. Base - 1
  <2>1. buffer \in Seq([by : Nat, byte : S]) /\ bytes \in Seq(S)
    BY DEF Cell
  <2> HIDE DEF S
  <2>2. /\ buffer' \in Seq([by : Nat, byte : S \cup S])
        /\ Len(buffer') = Len(buffer) + Len(bytes)
        /\ \A k \in 1 .. Len(buffer) : buffer'[k] = buffer[k]
        /\ \A k \in 1 .. Len(bytes) : buffer'[Len(buffer) + k] = [by |-> offset, byte |-> bytes[k]]
    BY ONLY <2>1, offset \in Nat, push_data(bytes), PushData
  <2>3. S \cup S = S
    OBVIOUS
  <2>4. QED
    BY <2>2, <2>3 DEF S, Cell
<1>2. /\ Len(buffer) \in Nat /\ Len(bytes) \in Nat /\ DOMAIN buffer = 1 .. Len(buffer)
      /\ DOMAIN buffer' = 1 .. Len(buffer')
  BY ONLY <1>1, buffer \in Seq(Cell), bytes \in Seq(0 .. Base - 1), SeqFacts
<1>3. ASSUME NEW k \in 1 .. Len(buffer) + Len(bytes)
      PROVE  k \in 1 .. Len(buffer) \/ \E j \in 1 .. Len(bytes) : k = Len(buffer) + j
  <2>1. k \in 1 .. Len(buffer) \/ (k - Len(buffer) \in 1 .. Len(bytes) /\ k = Len(buffer) + (k - Len(buffer)))
    BY ONLY <1>2, k \in 1 .. Len(buffer) + Len(bytes)
  <2>2. QED
    BY ONLY <2>1
<1>4. \A k \in 1 .. Len(bytes) : buffer'[Len(buffer) + k].by = offset
  <2>1. TAKE k \in 1 .. Len(bytes)
  <2>2. buffer'[Len(buffer) + k] = [by |-> offset, byte |-> bytes[k]]
    BY ONLY <1>1, k \in 1 .. Len(bytes)
  <2>3. QED
    BY ONLY <2>2
<1>5. ASSUME NEW places
      PROVE  At(buffer', places) = At(buffer, places) \cup (IF offset \in places
                                  THEN Len(buffer) + 1 .. Len(buffer) + Len(bytes) ELSE {})
  <2> DEFINE new == IF offset \in places THEN Len(buffer) + 1 .. Len(buffer) + Len(bytes) ELSE {}
  <2>1. At(buffer', places) = {k \in DOMAIN buffer' : buffer'[k].by \in places}
    BY DEF At
  <2>2. At(buffer, places) = {k \in DOMAIN buffer : buffer[k].by \in places}
    BY DEF At
  <2>3. DOMAIN buffer' = 1 .. Len(buffer) + Len(bytes)
    BY ONLY <1>1, <1>2
  <2>4. \A k : k \in At(buffer, places) => k \in At(buffer', places)
    BY ONLY <1>1, <1>2, <2>1, <2>2, <2>3
  <2>5. \A k : k \in new => k \in At(buffer', places)
    <3>1. SUFFICES ASSUME NEW k \in new PROVE k \in At(buffer', places)
      OBVIOUS
    <3>2. offset \in places /\ k \in Len(buffer) + 1 .. Len(buffer) + Len(bytes)
      OBVIOUS
    <3>3. k - Len(buffer) \in 1 .. Len(bytes) /\ k = Len(buffer) + (k - Len(buffer))
          /\ k \in 1 .. Len(buffer) + Len(bytes)
      BY ONLY <1>2, <3>2
    <3>4. buffer'[k].by = offset
      BY ONLY <1>4, <3>3
    <3>5. QED
      BY ONLY <2>1, <2>3, <3>2, <3>3, <3>4
  <2>6. \A k : k \in At(buffer', places) => k \in At(buffer, places) \/ k \in new
    <3>1. SUFFICES ASSUME NEW k \in At(buffer', places) PROVE k \in At(buffer, places) \/ k \in new
      OBVIOUS
    <3>2. k \in 1 .. Len(buffer) + Len(bytes) /\ buffer'[k].by \in places
      BY ONLY <2>1, <2>3, <3>1
    <3>3. CASE k \in 1 .. Len(buffer)
      BY ONLY <1>1, <1>2, <2>2, <3>2, <3>3
    <3>4. CASE \E j \in 1 .. Len(bytes) : k = Len(buffer) + j
      <4>1. offset \in places
        BY ONLY <1>4, <3>2, <3>4
      <4>2. k \in Len(buffer) + 1 .. Len(buffer) + Len(bytes)
        BY ONLY <1>2, <3>4
      <4>3. QED
        BY <4>1, <4>2
    <3>5. QED
      BY ONLY <1>3, <3>2, <3>3, <3>4
  <2>7. QED
    BY ONLY <2>4, <2>5, <2>6
<1>6. \A k \in DOMAIN buffer : buffer'[k] = buffer[k]
  BY ONLY <1>1, <1>2
<1>7. DOMAIN buffer' = 1 .. Len(buffer) + Len(bytes)
  BY ONLY <1>1, <1>2
<1>8. QED
  BY ONLY <1>1, <1>2, <1>5, <1>6, <1>7

\* What update_block_size does to an entry.
LEMMA BlocksGrow ==
    ASSUME block \in Seq(BlockType), NEW n \in Nat, block' = update_block_size(n)
    PROVE  /\ block' \in Seq(BlockType) /\ DOMAIN block' = DOMAIN block
           /\ \A k \in DOMAIN block :
                 /\ block[k] \in BlockType /\ block'[k] \in BlockType
                 /\ block'[k].id = block[k].id /\ block'[k].offset = block[k].offset
                 /\ block'[k].open = block[k].open
                 /\ block'[k].size = block[k].size + (IF block[k].open THEN n ELSE 0)
<1>1. DOMAIN block = 1 .. Len(block) /\ Len(block) \in Nat /\ \A k \in DOMAIN block : block[k] \in BlockType
  BY ONLY block \in Seq(BlockType), SeqFacts
<1> DEFINE new(k) == IF block[k].open THEN [block[k] EXCEPT !.size = @ + n] ELSE block[k]
<1>2. block' = [k \in DOMAIN block |-> new(k)]
  BY DEF update_block_size
<1>3. \A e \in BlockType : /\ [e EXCEPT !.size = @ + n] \in BlockType
                           /\ [e EXCEPT !.size = @ + n].id = e.id
                           /\ [e EXCEPT !.size = @ + n].offset = e.offset
                           /\ [e EXCEPT !.size = @ + n].open = e.open
                           /\ [e EXCEPT !.size = @ + n].size = e.size + n
                           /\ e.size + 0 = e.size
  BY DEF BlockType
<1>4. \A k \in DOMAIN block :
                 /\ new(k) \in BlockType
                 /\ new(k).id = block[k].id /\ new(k).offset = block[k].offset
                 /\ new(k).open = block[k].open
                 /\ new(k).size = block[k].size + (IF block[k].open THEN n ELSE 0)
  BY <1>1, <1>3
<1> HIDE DEF new
<1>5. block' \in Seq(BlockType) /\ DOMAIN block' = DOMAIN block
  BY ONLY <1>1, <1>2, <1>4
<1>6. QED
  BY ONLY <1>1, <1>2, <1>4, <1>5

\* Bytes that are pushed belong to the open blocks.
LEMMA BlockPush ==
    ASSUME BlockInv, NEW bytes \in Seq(0 .. Base - 1), push_data(bytes), offset \in DOMAIN Script,
           offset' = offset + 1, Script[offset].op \notin {"begin", "end"}
    PROVE  BlockInv'
<1>1. offset \in Nat
  BY AutodafeAssumption
<1> DEFINE n == Len(bytes)
<1>2. /\ buffer' \in Seq(Cell) /\ Len(buffer) \in Nat /\ n \in Nat
      /\ Len(buffer') = Len(buffer) + n
      /\ \A places : At(buffer', places) =
            At(buffer, places) \cup (IF offset \in places THEN Len(buffer) + 1 .. Len(buffer) + n ELSE {})
  BY <1>1, CellsPushed DEF BlockInv
<1>3. block' = update_block_size(n) /\ block \in Seq(BlockType)
  BY DEF push_data, BlockInv
<1> HIDE DEF n
<1>4. /\ block' \in Seq(BlockType) /\ DOMAIN block' = DOMAIN block
      /\ \A k \in DOMAIN block :
                 /\ block[k] \in BlockType /\ block'[k] \in BlockType
                 /\ block'[k].id = block[k].id /\ block'[k].offset = block[k].offset
                 /\ block'[k].open = block[k].open
                 /\ block'[k].size = block[k].size + (IF block[k].open THEN n ELSE 0)
  BY ONLY <1>2, <1>3, BlocksGrow
<1>5. ASSUME NEW b \in Blocks
      PROVE  /\ BeginOf[b] \in Nat /\ EndOf[b] \in Nat /\ BeginOf[b] < EndOf[b]
             /\ BeginOf[b] # offset /\ EndOf[b] # offset
  <2>1. DOMAIN Script \subseteq Nat
    BY AutodafeAssumption
  <2>2. QED
    BY <2>1, BlockPlaces
<1>6. ASSUME NEW k \in DOMAIN block
      PROVE  BlockEntry(buffer', offset', block'[k])
  <2>1. PICK e : e = block[k]
    OBVIOUS
  <2>2. PICK new : new = block'[k]
    OBVIOUS
  <2>3. PICK b : b = e.id
    OBVIOUS
  <2>4. /\ BeginOf[b] < offset /\ (e.open <=> offset <= EndOf[b])
        /\ At(buffer, Between(b)) = e.offset + 1 .. e.offset + e.size
        /\ e.offset + e.size <= Len(buffer)
        /\ e.open => e.offset + e.size = Len(buffer)
    BY <2>1, <2>3 DEF BlockInv, BlockEntry
  <2>5. /\ e.offset \in Nat /\ e.size \in Nat /\ e.open \in BOOLEAN /\ b \in Blocks
        /\ new.id = b /\ new.offset = e.offset /\ new.open = e.open
        /\ new.size = e.size + (IF e.open THEN n ELSE 0)
    BY <1>4, <2>1, <2>2, <2>3 DEF BlockType
  <2>6. BeginOf[b] \in Nat /\ EndOf[b] \in Nat /\ BeginOf[b] # offset /\ EndOf[b] # offset
    BY ONLY <1>5, <2>5
  <2>7. offset \in Between(b) <=> e.open
    <3>1. BeginOf[b] + 1 <= offset
      BY ONLY <1>1, <2>4, <2>6
    <3>2. e.open <=> offset <= EndOf[b] - 1
      BY ONLY <1>1, <2>4, <2>6
    <3>3. QED
      BY ONLY <1>1, <2>6, <3>1, <3>2 DEF Between
  <2>8. BeginOf[b] < offset' /\ (new.open <=> offset' <= EndOf[b])
    <3>1. e.open <=> offset + 1 <= EndOf[b]
      BY ONLY <1>1, <2>4, <2>6
    <3>2. BeginOf[b] < offset + 1
      BY ONLY <1>1, <2>4, <2>6
    <3>3. QED
      BY ONLY <2>5, <3>1, <3>2, offset' = offset + 1
  <2>9. At(buffer', Between(b)) = At(buffer, Between(b)) \cup
            (IF e.open THEN Len(buffer) + 1 .. Len(buffer) + n ELSE {})
    BY ONLY <1>2, <2>7
  <2>10. At(buffer', Between(b)) = new.offset + 1 .. new.offset + new.size
    <3>1. CASE e.open
      <4>1. At(buffer', Between(b)) = (e.offset + 1 .. e.offset + e.size) \cup (e.offset + e.size + 1 .. e.offset + e.size + n)
        BY ONLY <2>4, <2>9, <3>1
      <4>2. (e.offset + 1 .. e.offset + e.size) \cup (e.offset + e.size + 1 .. e.offset + e.size + n)
              = e.offset + 1 .. e.offset + (e.size + n)
        BY ONLY <1>2, <2>5
      <4>3. QED
        BY ONLY <2>5, <3>1, <4>1, <4>2
    <3>2. CASE ~e.open
      <4>1. new.size = e.size
        BY ONLY <2>5, <3>2
      <4>2. QED
        BY ONLY <2>4, <2>5, <2>9, <3>2, <4>1
    <3>3. QED
      BY ONLY <3>1, <3>2
  <2>11. /\ new.offset + new.size <= Len(buffer')
         /\ new.open => new.offset + new.size = Len(buffer')
    <3>1. CASE e.open
      <4>1. new.size = e.size + n /\ e.offset + e.size = Len(buffer)
        BY ONLY <2>4, <2>5, <3>1
      <4>2. new.offset + new.size = Len(buffer) + n
        <5>1. new.offset = e.offset /\ e.offset \in Nat /\ e.size \in Nat
          BY ONLY <2>5
        <5>2. e.offset + (e.size + n) = (e.offset + e.size) + n
          BY ONLY <1>2, <5>1
        <5>3. QED
          BY ONLY <4>1, <5>1, <5>2
      <4>3. QED
        BY ONLY <1>2, <4>2
    <3>2. CASE ~e.open
      <4>1. new.offset + new.size = e.offset + e.size /\ ~new.open
        BY ONLY <2>5, <3>2
      <4>2. QED
        BY ONLY <1>2, <2>4, <2>5, <4>1
    <3>3. QED
      BY ONLY <3>1, <3>2
  <2>12. QED
    BY ONLY <2>2, <2>5, <2>8, <2>10, <2>11 DEF BlockEntry
<1>7. \A j, k \in DOMAIN block' : block'[j].id = block'[k].id => j = k
  BY <1>4 DEF BlockInv
<1>8. ASSUME NEW b \in Blocks, BeginOf[b] < offset'
      PROVE  \E k \in DOMAIN block' : block'[k].id = b
  <2>1. BeginOf[b] < offset
    BY ONLY <1>1, <1>5, <1>8, offset' = offset + 1
  <2>2. PICK k \in DOMAIN block : block[k].id = b
    BY <1>8, <2>1 DEF BlockInv
  <2>3. k \in DOMAIN block' /\ block'[k].id = b
    BY ONLY <1>4, <2>2
  <2>4. QED
    BY ONLY <2>3
<1>9. QED
  BY ONLY <1>2, <1>4, <1>6, <1>7, <1>8 DEF BlockInv

\* The places where a step stands that is not the begin or end of a block.
LEMMA OtherPlace ==
    ASSUME offset \in DOMAIN Script, NEW b \in Blocks
    PROVE  /\ offset \in Nat /\ BeginOf[b] \in Nat /\ EndOf[b] \in Nat /\ BeginOf[b] < EndOf[b]
           /\ Script[offset].op # "begin" => BeginOf[b] # offset
           /\ Script[offset].op # "end" => EndOf[b] # offset
<1>1. DOMAIN Script \subseteq Nat
  BY AutodafeAssumption
<1>2. QED
  BY <1>1, BlockPlaces

\* The entries of the blocks and what is in them.
LEMMA BlockTypes ==
    ASSUME BlockInv
    PROVE  /\ DOMAIN block = 1 .. Len(block) /\ Len(block) \in Nat
           /\ DOMAIN buffer = 1 .. Len(buffer) /\ Len(buffer) \in Nat
           /\ \A k \in DOMAIN buffer : /\ buffer[k] \in Cell /\ buffer[k].by \in Nat
                                       /\ buffer[k].byte \in 0 .. Base - 1
           /\ \A k \in DOMAIN block :
                 /\ block[k] \in BlockType /\ block[k].id \in Blocks /\ block[k].size \in Nat
                 /\ block[k].offset \in Nat /\ block[k].open \in BOOLEAN
<1>1. buffer \in Seq(Cell) /\ block \in Seq(BlockType)
  BY DEF BlockInv
<1>2. /\ DOMAIN block = 1 .. Len(block) /\ Len(block) \in Nat
      /\ DOMAIN buffer = 1 .. Len(buffer) /\ Len(buffer) \in Nat
      /\ \A k \in DOMAIN buffer : buffer[k] \in Cell
      /\ \A k \in DOMAIN block : block[k] \in BlockType
  BY ONLY <1>1, SeqFacts
<1>3. QED
  BY <1>2 DEF Cell, BlockType

\* An instruction that is not for the blocks and pushes nothing.
LEMMA BlockOver ==
    ASSUME BlockInv, UNCHANGED <<buffer, block>>, offset \in DOMAIN Script, offset' = offset + 1,
           Script[offset].op \notin {"begin", "end"}
    PROVE  BlockInv'
<1>1. ASSUME NEW k \in DOMAIN block
      PROVE  BlockEntry(buffer, offset', block[k])
  <2>1. PICK e : e = block[k]
    OBVIOUS
  <2>2. e.id \in Blocks
    BY <2>1, BlockTypes
  <2>3. /\ offset \in Nat /\ BeginOf[e.id] \in Nat /\ EndOf[e.id] \in Nat
        /\ BeginOf[e.id] # offset /\ EndOf[e.id] # offset
    BY <2>2, OtherPlace
  <2>4. BlockEntry(buffer, offset, e)
    BY <2>1 DEF BlockInv
  <2>5. offset <= EndOf[e.id] <=> offset + 1 <= EndOf[e.id]
    BY ONLY <2>3
  <2>6. BeginOf[e.id] < offset => BeginOf[e.id] < offset + 1
    BY ONLY <2>3
  <2>7. QED
    BY ONLY <2>1, <2>4, <2>5, <2>6, offset' = offset + 1 DEF BlockEntry
<1>2. \A b \in Blocks : BeginOf[b] < offset' => BeginOf[b] < offset
  <2>1. TAKE b \in Blocks
  <2>2. offset \in Nat /\ BeginOf[b] \in Nat /\ BeginOf[b] # offset
    BY OtherPlace
  <2>3. QED
    BY ONLY <2>2, offset' = offset + 1
<1>3. /\ buffer' \in Seq(Cell) /\ block' \in Seq(BlockType)
      /\ \A j, k \in DOMAIN block' : block'[j].id = block'[k].id => j = k
      /\ \A b \in Blocks : BeginOf[b] < offset' => \E k \in DOMAIN block' : block'[k].id = b
  BY <1>2 DEF BlockInv
<1>4. \A k \in DOMAIN block' : BlockEntry(buffer', offset', block'[k])
  BY <1>1
<1>5. QED
  BY ONLY <1>3, <1>4 DEF BlockInv

\* opcode_hf_block_begin: the new block is empty.
LEMMA BlockOpens ==
    ASSUME BlockInv, \A k \in DOMAIN buffer : buffer[k].by < offset, offset \in DOMAIN Script,
           Script[offset].op = "begin", offset' = offset + 1, UNCHANGED buffer,
           block' = Append(block, [id |-> Script[offset].block, size |-> 0,
                                   offset |-> Len(buffer), open |-> TRUE])
    PROVE  BlockInv'
<1>1. PICK b \in Blocks : b = Script[offset].block /\ offset = BeginOf[b]
  BY BlockPlaces
<1>2. PICK e : e = [id |-> b, size |-> 0, offset |-> Len(buffer), open |-> TRUE]
  OBVIOUS
<1>3. Len(buffer) \in Nat /\ DOMAIN buffer = 1 .. Len(buffer) /\ \A k \in DOMAIN buffer : buffer[k].by \in Nat
  BY BlockTypes
<1>4. e \in BlockType /\ e.id = b /\ e.size = 0 /\ e.offset = Len(buffer) /\ e.open
  BY <1>2, <1>3 DEF BlockType
<1>5. /\ block \in Seq(BlockType) /\ block' = Append(block, e)
  BY <1>1, <1>2 DEF BlockInv
<1>6. /\ block' \in Seq(BlockType) /\ DOMAIN block' = 1 .. Len(block) + 1 /\ Len(block) \in Nat
      /\ block'[Len(block) + 1] = e /\ \A k \in 1 .. Len(block) : block'[k] = block[k]
      /\ DOMAIN block = 1 .. Len(block)
  BY ONLY <1>4, <1>5
<1>7. ASSUME NEW c \in Blocks
      PROVE  /\ offset \in Nat /\ BeginOf[c] \in Nat /\ EndOf[c] \in Nat /\ BeginOf[c] < EndOf[c]
             /\ EndOf[c] # offset
  BY OtherPlace
<1>8. BlockEntry(buffer, offset', e)
  <2>1. BeginOf[b] < offset' /\ offset' <= EndOf[b]
    BY ONLY <1>1, <1>7, offset' = offset + 1
  <2>2. At(buffer, Between(b)) = {}
    <3>1. SUFFICES ASSUME NEW k \in DOMAIN buffer, buffer[k].by \in Between(b) PROVE FALSE
      BY DEF At
    <3>2. buffer[k].by \in Nat /\ buffer[k].by < offset
      BY <1>3
    <3>3. BeginOf[b] + 1 <= buffer[k].by
      BY <3>1, <1>7 DEF Between
    <3>4. QED
      BY ONLY <1>1, <1>7, <3>2, <3>3
  <2>3. e.offset + 1 .. e.offset + e.size = {}
    BY <1>3, <1>4
  <2>4. QED
    BY <1>3, <1>4, <2>1, <2>2, <2>3 DEF BlockEntry
<1>9. ASSUME NEW k \in DOMAIN block
      PROVE  BlockEntry(buffer, offset', block[k]) /\ block[k].id # b
  <2>1. PICK old : old = block[k]
    OBVIOUS
  <2>2. old.id \in Blocks
    BY <2>1, BlockTypes
  <2>3. BlockEntry(buffer, offset, old)
    BY <2>1 DEF BlockInv
  <2>4. BeginOf[old.id] < offset
    BY ONLY <2>3 DEF BlockEntry
  <2>5. offset <= EndOf[old.id] <=> offset + 1 <= EndOf[old.id]
    BY ONLY <1>7, <2>2
  <2>6. BeginOf[old.id] < offset + 1
    BY ONLY <1>7, <2>2, <2>4
  <2>7. BlockEntry(buffer, offset', old)
    BY ONLY <2>3, <2>5, <2>6, offset' = offset + 1 DEF BlockEntry
  <2>8. old.id # b
    BY ONLY <1>1, <1>7, <2>4
  <2>9. QED
    BY ONLY <2>1, <2>7, <2>8
<1>10. \A k \in DOMAIN block' : k = Len(block) + 1 \/ k \in DOMAIN block
  BY ONLY <1>6
<1>11. \A k \in DOMAIN block' : BlockEntry(buffer', offset', block'[k])
  BY ONLY <1>6, <1>8, <1>9, <1>10, UNCHANGED buffer
<1>12. \A j, k \in DOMAIN block' : block'[j].id = block'[k].id => j = k
  <2>1. \A j, k \in DOMAIN block : block[j].id = block[k].id => j = k
    BY DEF BlockInv
  <2>2. QED
    BY ONLY <1>4, <1>6, <1>9, <1>10, <2>1
<1>13. ASSUME NEW c \in Blocks, BeginOf[c] < offset'
       PROVE  \E k \in DOMAIN block' : block'[k].id = c
  <2>1. CASE BeginOf[c] < offset
    <3>1. PICK k \in DOMAIN block : block[k].id = c
      BY <2>1 DEF BlockInv
    <3>2. k \in DOMAIN block' /\ block'[k].id = c
      BY ONLY <1>6, <3>1
    <3>3. QED
      BY ONLY <3>2
  <2>2. CASE BeginOf[c] = offset
    <3>1. c = b
      BY ONLY <1>1, <2>2, BlockPlaces
    <3>2. Len(block) + 1 \in DOMAIN block' /\ block'[Len(block) + 1].id = c
      BY ONLY <1>4, <1>6, <3>1
    <3>3. QED
      BY ONLY <3>2
  <2>3. QED
    BY ONLY <1>7, <1>13, <2>1, <2>2, offset' = offset + 1
<1>14. buffer' \in Seq(Cell)
  BY DEF BlockInv
<1>15. QED
  BY ONLY <1>6, <1>11, <1>12, <1>13, <1>14 DEF BlockInv

\* The entry of a block that was begun.
LEMMA FindBlock ==
    ASSUME BlockInv, NEW b \in Blocks, BeginOf[b] < offset
    PROVE  /\ Find(b) \in BlockType /\ Find(b).id = b /\ BlockEntry(buffer, offset, Find(b))
           /\ \E k \in DOMAIN block : block[k] = Find(b)
<1>1. PICK k \in DOMAIN block : block[k].id = b
  BY DEF BlockInv
<1>2. \A j \in DOMAIN block : block[j].id = b => j = k
  BY <1>1 DEF BlockInv
<1>3. DOMAIN block = 1 .. Len(block) /\ Len(block) \in Nat
  BY BlockTypes
<1>4. \A j \in 1 .. k - 1 : block[j].id # b
  <2>1. TAKE j \in 1 .. k - 1
  <2>2. j \in DOMAIN block /\ j # k
    BY <1>3
  <2>3. QED
    BY ONLY <1>2, <2>2
<1>5. \A m \in DOMAIN block : (block[m].id = b /\ \A j \in 1 .. m - 1 : block[j].id # b) <=> m = k
  BY ONLY <1>1, <1>2, <1>4
<1>6. (CHOOSE m \in DOMAIN block : block[m].id = b /\ \A j \in 1 .. m - 1 : block[j].id # b) = k
  BY ONLY <1>1, <1>5
<1>7. Find(b) = block[k]
  BY <1>6 DEF Find
<1>8. block[k] \in BlockType /\ BlockEntry(buffer, offset, block[k])
  BY BlockTypes DEF BlockInv
<1>9. QED
  BY ONLY <1>1, <1>7, <1>8

\* opcode_hf_block_end: the block is closed and spans its cells.
LEMMA BlockCloses ==
    ASSUME BlockInv, offset \in DOMAIN Script, Script[offset].op = "end", offset' = offset + 1,
           UNCHANGED buffer, NEW first,
           first = (CHOOSE k \in DOMAIN block : block[k] = Find(Script[offset].block)),
           block' = [block EXCEPT ![first].open = FALSE]
    PROVE  BlockInv'
<1>1. PICK b \in Blocks : b = Script[offset].block /\ offset = EndOf[b]
  BY BlockPlaces
<1>2. ASSUME NEW c \in Blocks
      PROVE  /\ offset \in Nat /\ BeginOf[c] \in Nat /\ EndOf[c] \in Nat /\ BeginOf[c] < EndOf[c]
             /\ BeginOf[c] # offset
  BY OtherPlace
<1>3. BeginOf[b] < offset
  BY ONLY <1>1, <1>2
<1>4. first \in DOMAIN block /\ block[first].id = b
  <2>1. Find(b).id = b /\ \E k \in DOMAIN block : block[k] = Find(b)
    BY <1>3, FindBlock
  <2>2. QED
    BY <1>1, <2>1
<1>5. /\ block \in Seq(BlockType) /\ DOMAIN block = 1 .. Len(block) /\ Len(block) \in Nat
      /\ \A k \in DOMAIN block : block[k] \in BlockType
  BY BlockTypes DEF BlockInv
<1>6. \A e \in BlockType : /\ [e EXCEPT !.open = FALSE] \in BlockType
                           /\ [e EXCEPT !.open = FALSE].id = e.id
                           /\ [e EXCEPT !.open = FALSE].offset = e.offset
                           /\ [e EXCEPT !.open = FALSE].size = e.size
                           /\ ~[e EXCEPT !.open = FALSE].open
  BY DEF BlockType
<1>7. /\ DOMAIN block' = DOMAIN block
      /\ block'[first] = [block[first] EXCEPT !.open = FALSE]
      /\ \A k \in DOMAIN block : k # first => block'[k] = block[k]
  BY ONLY <1>4, block' = [block EXCEPT ![first].open = FALSE]
<1>8. block' \in Seq(BlockType)
  <2>1. [block[first] EXCEPT !.open = FALSE] \in BlockType
    BY ONLY <1>4, <1>5, <1>6
  <2>2. QED
    BY ONLY <1>4, <1>5, <2>1, block' = [block EXCEPT ![first].open = FALSE]
<1>9. \A k \in DOMAIN block : block'[k].id = block[k].id
  <2>1. block'[first].id = block[first].id
    BY ONLY <1>4, <1>5, <1>6, <1>7
  <2>2. QED
    BY ONLY <1>7, <2>1
<1>10. ASSUME NEW k \in DOMAIN block
       PROVE  BlockEntry(buffer, offset', block'[k])
  <2>1. PICK e : e = block[k]
    OBVIOUS
  <2>2. PICK new : new = block'[k]
    OBVIOUS
  <2>3. e.id \in Blocks /\ e \in BlockType /\ BlockEntry(buffer, offset, e)
    BY <2>1, BlockTypes DEF BlockInv
  <2>4. /\ BeginOf[e.id] < offset
        /\ (e.open <=> offset <= EndOf[e.id])
        /\ At(buffer, Between(e.id)) = e.offset + 1 .. e.offset + e.size
        /\ e.offset + e.size <= Len(buffer)
        /\ e.open => e.offset + e.size = Len(buffer)
    BY ONLY <2>3 DEF BlockEntry
  <2>5. BeginOf[e.id] < offset + 1
    BY ONLY <1>2, <2>3, <2>4
  <2>6. CASE k = first
    <3>1. e.id = b /\ new.id = e.id /\ new.offset = e.offset /\ new.size = e.size /\ ~new.open
      BY ONLY <1>4, <1>6, <1>7, <2>1, <2>2, <2>3, <2>6
    <3>2. ~(offset + 1 <= EndOf[b])
      BY ONLY <1>1, <1>2
    <3>3. QED
      BY ONLY <2>2, <2>4, <2>5, <3>1, <3>2, offset' = offset + 1 DEF BlockEntry
  <2>7. CASE k # first
    <3>1. new = e
      BY ONLY <1>7, <2>1, <2>2, <2>7, k \in DOMAIN block
    <3>2. e.id # b
      BY <1>4, <2>1, <2>7 DEF BlockInv
    <3>3. EndOf[e.id] # offset
      BY ONLY <1>1, <2>3, <3>2, BlockPlaces
    <3>4. offset <= EndOf[e.id] <=> offset + 1 <= EndOf[e.id]
      BY ONLY <1>2, <2>3, <3>3
    <3>5. QED
      BY ONLY <2>2, <2>4, <2>5, <3>1, <3>4, offset' = offset + 1 DEF BlockEntry
  <2>8. QED
    BY ONLY <2>6, <2>7
<1>11. \A j, k \in DOMAIN block' : block'[j].id = block'[k].id => j = k
  BY <1>7, <1>9 DEF BlockInv
<1>12. ASSUME NEW c \in Blocks, BeginOf[c] < offset'
       PROVE  \E k \in DOMAIN block' : block'[k].id = c
  <2>1. BeginOf[c] < offset
    BY ONLY <1>2, <1>12, offset' = offset + 1
  <2>2. PICK k \in DOMAIN block : block[k].id = c
    BY <2>1 DEF BlockInv
  <2>3. k \in DOMAIN block' /\ block'[k].id = c
    BY ONLY <1>7, <1>9, <2>2
  <2>4. QED
    BY ONLY <2>3
<1>13. buffer' \in Seq(Cell)
  BY DEF BlockInv
<1>14. QED
  BY ONLY <1>7, <1>8, <1>10, <1>11, <1>12, <1>13, UNCHANGED buffer DEF BlockInv

\* A step outside of the pass: nothing of its lists changes.
Outside ==
    /\ UNCHANGED <<offset, buffer, block, length, hash>>
    /\ \/ UNCHANGED <<pc, count>>
       \/ pc' = "end"
       \/ pc \in {"hello", "ack"} /\ pc' \in {"ack", "fetch"}
       \/ pc \in {"started"} \cup Sending /\ pc' \in Sending

\* A fuzz or data: bytes, and no entry.
Pushes ==
    /\ offset \in DOMAIN Script /\ offset' = offset + 1 /\ Script[offset].op \in {"data", "fuzz"}
    /\ UNCHANGED <<length, hash>> /\ pc' \in {"fetch", "ack"} /\ pc = "fetch"
    /\ \E bytes \in Seq(0 .. Base - 1) : push_data(bytes)

\* What a step does to the lists of the pass.
LEMMA StepKinds ==
    ASSUME TypeOK, Typed, Next
    PROVE  \/ Pushes \/ BlockBegin \/ BlockEnd \/ PushLength \/ PushHash \/ SendOrRecv
           \/ Parsed \/ UpdateLength \/ LengthsUpdated \/ UpdateHash \/ HashesUpdated
           \/ EndPass \/ Outside
<1>1. CASE Data
  <2>1. /\ Fetch({"data"}) /\ push_data(Instr.bytes) /\ UNCHANGED <<pc, length, hash>> /\ pc = "fetch"
    BY <1>1 DEF Data, Fetch
  <2>2. /\ offset' = offset + 1 /\ offset \in DOMAIN Script /\ Script[offset].op = "data"
        /\ Instr.bytes \in Seq(0 .. Base - 1)
    BY <2>1, Fetched, OtherInstructions DEF Instr, Bytes
  <2>3. QED
    BY <2>1, <2>2 DEF Pushes
<1>2. CASE NewFuzz \/ NextFuzz \/ OutOfTurn
  <2>1. Fetch({"fuzz"}) /\ Original
    BY <1>2 DEF NewFuzz, NextFuzz, OutOfTurn
  <2>2. /\ push_data(Instr.bytes) /\ Instr.bytes \in Seq(0 .. Base - 1) /\ UNCHANGED <<length, hash>>
    BY <2>1, OriginalBytes
  <2>3. pc = "fetch" /\ pc' \in {"fetch", "ack"}
    BY <2>1 DEF Fetch, Original
  <2>4. offset' = offset + 1 /\ offset \in DOMAIN Script /\ Script[offset].op = "fuzz"
    BY <2>1, Fetched DEF Instr
  <2>5. QED
    BY <2>2, <2>3, <2>4 DEF Pushes
<1>3. CASE TryCase
  <2> DEFINE bytes == Instr.cases[fuzz[Instr.id].current + 1]
  <2>1. Fetch({"fuzz"}) /\ push_data(bytes) /\ bytes \in Seq(0 .. Base - 1)
    BY <1>3, CaseBytes
  <2> HIDE DEF bytes
  <2>2. UNCHANGED <<pc, length, hash>> /\ pc = "fetch"
    BY <1>3, <2>1 DEF TryCase, Fetch
  <2>3. offset' = offset + 1 /\ offset \in DOMAIN Script /\ Script[offset].op = "fuzz"
    BY <2>1, Fetched DEF Instr
  <2>4. QED
    BY <2>1, <2>2, <2>3 DEF Pushes
<1>4. CASE Plays
  BY <1>4 DEF Plays, Connect, Listen, Accept, PlayNothing, SendFuzz, WriteFuzz, RecvFuzz, PlayDone,
     NothingSaid, InPass, Over,
     lists, Outside, Sending
<1>5. CASE ReadMsg \/ ReadId
  BY <1>5 DEF ReadMsg, ReadId, InPass, Over, lists, Outside, Sending
<1>6. CASE Hello \/ WaitForAck
  BY <1>6 DEF Hello, WaitForAck, lists, Outside, Sending
<1>7. CASE Adbg
  BY <1>7 DEF Adbg, Answer, Hit, SayId, TargetEnds, Interrupt, Debugs, lists, Outside
<1>8. QED
  BY <1>1, <1>2, <1>3, <1>4, <1>5, <1>6, <1>7 DEF Next, Fuzzer, Runs, Waits, Plays

\* modify_data changes the bytes of the entry, and no cell is for another instruction then.
LEMMA FieldModified ==
    ASSUME buffer \in Seq(Cell), NEW e, NEW bytes \in Seq(0 .. Base - 1), modify_data(e, bytes)
    PROVE  /\ buffer' \in Seq(Cell) /\ DOMAIN buffer' = DOMAIN buffer /\ Len(buffer') = Len(buffer)
           /\ \A k \in DOMAIN buffer : buffer'[k].by = buffer[k].by
           /\ \A k \in DOMAIN buffer : k - e.offset \notin DOMAIN bytes => buffer'[k] = buffer[k]
           /\ \A k \in DOMAIN buffer : k - e.offset \in DOMAIN bytes =>
                 buffer'[k].byte = bytes[k - e.offset]
           /\ \A places : At(buffer', places) = At(buffer, places)
<1> DEFINE cell(k) == IF k - e.offset \in DOMAIN bytes
                      THEN [buffer[k] EXCEPT !.byte = bytes[k - e.offset]] ELSE buffer[k]
<1>1. /\ \A k \in DOMAIN buffer : buffer[k] \in Cell
      /\ DOMAIN buffer = 1 .. Len(buffer) /\ Len(buffer) \in Nat
  BY ONLY SeqFacts, buffer \in Seq(Cell)
<1>2. \A j \in DOMAIN bytes : bytes[j] \in 0 .. Base - 1
  BY ONLY SeqFacts, bytes \in Seq(0 .. Base - 1)
<1>3. \A c \in Cell, v \in 0 .. Base - 1 : /\ [c EXCEPT !.byte = v] \in Cell
                                          /\ [c EXCEPT !.byte = v].by = c.by
                                          /\ [c EXCEPT !.byte = v].byte = v
  BY DEF Cell
<1>4. ASSUME NEW k \in DOMAIN buffer
      PROVE  /\ cell(k) \in Cell /\ cell(k).by = buffer[k].by
             /\ k - e.offset \notin DOMAIN bytes => cell(k) = buffer[k]
             /\ k - e.offset \in DOMAIN bytes => cell(k).byte = bytes[k - e.offset]
  <2>1. CASE k - e.offset \in DOMAIN bytes
    <3>1. PICK v \in 0 .. Base - 1 : v = bytes[k - e.offset]
      BY <1>2, <2>1
    <3>2. cell(k) = [buffer[k] EXCEPT !.byte = v]
      BY <2>1, <3>1
    <3>3. QED
      BY ONLY <1>1, <1>3, <2>1, <3>1, <3>2, k \in DOMAIN buffer
  <2>2. CASE k - e.offset \notin DOMAIN bytes
    BY <1>1, <2>2
  <2>3. QED
    BY ONLY <2>1, <2>2
<1>5. buffer' = [k \in DOMAIN buffer |-> cell(k)]
  BY DEF modify_data
<1> HIDE DEF cell
<1>6. buffer' \in Seq(Cell) /\ Len(buffer') = Len(buffer) /\ DOMAIN buffer' = DOMAIN buffer
  BY ONLY <1>1, <1>4, <1>5
<1>7. \A places : At(buffer', places) = At(buffer, places)
  BY ONLY <1>4, <1>5, <1>6 DEF At
<1>8. QED
  BY ONLY <1>4, <1>5, <1>6, <1>7

\* The blocks are not moved by a change of bytes.
LEMMA BlockModify ==
    ASSUME BlockInv, UNCHANGED <<offset, block>>, NEW e, NEW bytes \in Seq(0 .. Base - 1),
           modify_data(e, bytes)
    PROVE  BlockInv'
<1>1. /\ buffer' \in Seq(Cell) /\ Len(buffer') = Len(buffer)
      /\ \A places : At(buffer', places) = At(buffer, places)
  BY FieldModified DEF BlockInv
<1>2. \A b : BlockEntry(buffer, offset, b) => BlockEntry(buffer', offset, b)
  BY ONLY <1>1 DEF BlockEntry
<1>3. QED
  BY <1>1, <1>2 DEF BlockInv

\* With empty lists.
LEMMA BlockEmpty ==
    ASSUME buffer = <<>>, block = <<>>, offset = 1
    PROVE  BlockInv
<1>1. buffer \in Seq(Cell) /\ block \in Seq(BlockType) /\ DOMAIN block = {}
  OBVIOUS
<1>2. ASSUME NEW b \in Blocks PROVE ~(BeginOf[b] < offset)
  <2>1. BeginOf[b] \in 1 .. Len(Script)
    BY BlockPlaces, Instruction
  <2>2. QED
    BY ONLY <2>1, offset = 1
<1>3. QED
  BY ONLY <1>1, <1>2 DEF BlockInv

-----------------------------------------------------------------------------
(* update_length and update_hash. *)

\* A part of a sequence, cell by cell.
LEMMA RunOf ==
    ASSUME NEW S, NEW cells \in Seq(S), NEW p \in Nat, NEW n \in Nat, p + n <= Len(cells)
    PROVE  /\ SubSeq(cells, p + 1, p + n) = [k \in 1 .. n |-> cells[p + k]]
           /\ SubSeq(cells, p + 1, p + n) \in Seq(S) /\ Len(SubSeq(cells, p + 1, p + n)) = n
           /\ \A k \in 1 .. n : cells[p + k] \in S /\ p + k \in DOMAIN cells
<1>1. DOMAIN cells = 1 .. Len(cells) /\ Len(cells) \in Nat /\ \A k \in DOMAIN cells : cells[k] \in S
  BY ONLY cells \in Seq(S), SeqFacts
<1>2. \A k \in 1 .. n : cells[p + k] \in S /\ p + k \in DOMAIN cells
  BY <1>1
<1>3. p + 1 \in Int /\ p + n \in Int /\ \A k \in p + 1 .. p + n : cells[k] \in S
  BY <1>1
<1>4. /\ SubSeq(cells, p + 1, p + n) \in Seq(S)
      /\ Len(SubSeq(cells, p + 1, p + n)) = IF p + 1 <= p + n THEN (p + n) - (p + 1) + 1 ELSE 0
      /\ \A k \in 1 .. (p + n) - (p + 1) + 1 : SubSeq(cells, p + 1, p + n)[k] = cells[(p + 1) + k - 1]
  BY ONLY <1>3, SubSeqProperties
<1> DEFINE sub == SubSeq(cells, p + 1, p + n)
<1> HIDE DEF sub
<1>5. (p + n) - (p + 1) + 1 = n /\ \A k \in 1 .. n : (p + 1) + k - 1 = p + k
  OBVIOUS
<1>6. Len(sub) = n
  BY ONLY <1>4, <1>5, p \in Nat, n \in Nat DEF sub
<1>7. sub \in Seq(S) /\ \A k \in 1 .. n : sub[k] = cells[p + k]
  BY ONLY <1>4, <1>5 DEF sub
<1>8. sub = [k \in 1 .. n |-> cells[p + k]]
  BY ONLY <1>6, <1>7, n \in Nat
<1>9. QED
  BY <1>2, <1>6, <1>7, <1>8 DEF sub

\* The types that have bytes.
LEMMA SizedTypes ==
    \A type : /\ Width(type) \in Nat
              /\ Width(type) > 0 <=> type \in {"b32", "l32", "b16", "l16", "b8"}
BY DEF Width

\* The cells of an entry.
LEMMA EntryCells ==
    ASSUME NEW cells, NEW next, NEW e, NEW op, NEW width \in Nat, Placed(cells, next, e, op, width)
    PROVE  /\ e.offset \in Nat
           /\ \A j \in 1 .. width : /\ e.offset + j \in DOMAIN cells
                                    /\ cells[e.offset + j].by = By(cells, e)
           /\ \A k \in DOMAIN cells : cells[k].by = By(cells, e) =>
                 k \in Int /\ k - e.offset \in 1 .. width /\ k = e.offset + (k - e.offset)
<1>1. e.offset \in Nat /\ At(cells, {By(cells, e)}) = e.offset + 1 .. e.offset + width
  BY DEF Placed
<1>2. \A j \in 1 .. width : e.offset + j \in e.offset + 1 .. e.offset + width
  BY ONLY <1>1, width \in Nat
<1>3. \A k \in e.offset + 1 .. e.offset + width :
          k \in Int /\ k - e.offset \in 1 .. width /\ k = e.offset + (k - e.offset)
  BY ONLY <1>1, width \in Nat
<1>4. \A k : k \in At(cells, {By(cells, e)}) <=> k \in DOMAIN cells /\ cells[k].by = By(cells, e)
  BY DEF At
<1>5. QED
  BY ONLY <1>1, <1>2, <1>3, <1>4

\* Two entries of one instruction are the same, whatever their types.
LEMMA SamePlace ==
    ASSUME NEW cells, NEW next, NEW e, NEW f, NEW op, NEW width \in Nat, NEW size \in Nat,
           Placed(cells, next, e, op, width), Placed(cells, next, f, op, size), width > 0, size > 0,
           By(cells, e) = By(cells, f)
    PROVE  e.offset = f.offset /\ e.id = f.id /\ e.type = f.type
<1>1. e.id = f.id /\ e.type = f.type
  BY DEF Placed
<1>2. e.offset \in Nat /\ f.offset \in Nat
      /\ e.offset + 1 .. e.offset + width = f.offset + 1 .. f.offset + size
  BY DEF Placed
<1>3. e.offset + 1 \in f.offset + 1 .. f.offset + size /\ f.offset + 1 \in e.offset + 1 .. e.offset + width
  <2>1. e.offset + 1 \in e.offset + 1 .. e.offset + width /\ f.offset + 1 \in f.offset + 1 .. f.offset + size
    BY ONLY <1>2, width \in Nat, size \in Nat, width > 0, size > 0
  <2>2. QED
    BY ONLY <1>2, <2>1
<1>4. e.offset = f.offset
  BY ONLY <1>2, <1>3, width \in Nat, size \in Nat
<1>5. QED
  BY <1>1, <1>4

\* When the script is over, the block of an entry is found.
LEMMA EntryBlock ==
    ASSUME BlockInv, offset = Len(Script) + 1, NEW e, NEW op \in {"size", "crc"}, NEW width,
           Placed(buffer, offset, e, op, width)
    PROVE  /\ e.id \in Blocks /\ Find(e.id) \in BlockType /\ Find(e.id).id = e.id
           /\ Find(e.id).size \in Nat /\ Find(e.id).offset \in Nat
           /\ BlockEntry(buffer, offset, Find(e.id))
           /\ By(buffer, e) \in DOMAIN Script
<1>1. By(buffer, e) \in DOMAIN Script
  BY AutodafeAssumption DEF Placed
<1>2. Script[By(buffer, e)].op = op /\ Script[By(buffer, e)].block = e.id
  BY DEF Placed
<1>3. e.id \in Blocks
  BY <1>1, <1>2, BlockPlaces
<1>4. BeginOf[e.id] < offset
  <2>1. BeginOf[e.id] \in 1 .. Len(Script) /\ Len(Script) \in Nat
    BY <1>3, BlockPlaces, Instruction
  <2>2. QED
    BY ONLY <2>1, offset = Len(Script) + 1
<1>5. Find(e.id) \in BlockType /\ Find(e.id).id = e.id /\ BlockEntry(buffer, offset, Find(e.id))
  BY <1>3, <1>4, FindBlock
<1>6. QED
  BY <1>1, <1>3, <1>5 DEF BlockType

\* The cells of a block that was begun.
LEMMA PartCells ==
    ASSUME BlockInv, NEW b \in BlockType, NEW next, BlockEntry(buffer, next, b)
    PROVE  /\ Part(buffer, b) = [k \in 1 .. b.size |-> buffer[b.offset + k]]
           /\ Part(buffer, b) \in Seq(Cell) /\ Len(Part(buffer, b)) = b.size
           /\ Raw(Part(buffer, b)) \in Seq(Nat)
           /\ Content(b) = Part(buffer, b)
<1>1. b.offset \in Nat /\ b.size \in Nat /\ b.offset + b.size <= Len(buffer)
  BY DEF BlockType, BlockEntry
<1>2. buffer \in Seq(Cell)
  BY DEF BlockInv
<1> DEFINE part == SubSeq(buffer, b.offset + 1, b.offset + b.size)
<1>3. /\ part = [k \in 1 .. b.size |-> buffer[b.offset + k]]
      /\ part \in Seq(Cell) /\ Len(part) = b.size
  <2>1. PICK p \in Nat, n \in Nat : p = b.offset /\ n = b.size
    BY <1>1
  <2>2. p + n <= Len(buffer)
    BY ONLY <1>1, <2>1
  <2>3. /\ SubSeq(buffer, p + 1, p + n) = [k \in 1 .. n |-> buffer[p + k]]
        /\ SubSeq(buffer, p + 1, p + n) \in Seq(Cell) /\ Len(SubSeq(buffer, p + 1, p + n)) = n
    BY ONLY <1>2, <2>2, RunOf
  <2>4. QED
    BY ONLY <2>1, <2>3
<1> HIDE DEF part
<1>4. part = Part(buffer, b) /\ part = Content(b)
  BY DEF part, Part, Content
<1>5. DOMAIN part = 1 .. b.size /\ \A k \in DOMAIN part : part[k] \in Cell
  BY ONLY <1>1, <1>3, SeqFacts
<1>6. \A c \in Cell : c.byte \in Nat
  BY Powers DEF Cell
<1>7. Raw(part) \in Seq(Nat)
  BY ONLY <1>1, <1>5, <1>6 DEF Raw
<1>8. QED
  BY ONLY <1>3, <1>4, <1>7

\* What update_length does.
LEMMA LengthUpdate ==
    ASSUME TypeOK, SeqInv, PhaseInv, BlockInv, PlaceInv, UpdateLength
    PROVE  /\ count \in Nat /\ count' = count + 1 /\ count + 1 \in DOMAIN length
           /\ UNCHANGED <<offset, block, length, hash, pc>> /\ pc = "length"
           /\ offset = Len(Script) + 1
           /\ Sized(length[count + 1]) =>
                 /\ Placed(buffer, offset, length[count + 1], "size", Width(length[count + 1].type))
                 /\ Cut(length[count + 1].type, Find(length[count + 1].id).size) \in Seq(0 .. Base - 1)
                 /\ Len(Cut(length[count + 1].type, Find(length[count + 1].id).size))
                       = Width(length[count + 1].type)
                 /\ modify_data(length[count + 1],
                                Cut(length[count + 1].type, Find(length[count + 1].id).size))
           /\ ~Sized(length[count + 1]) => UNCHANGED buffer
<1>1. /\ count \in Nat /\ count' = count + 1 /\ UNCHANGED <<offset, block, length, hash, pc>>
      /\ pc = "length" /\ count < Len(length)
      /\ IF Width(length[count + 1].type) = 0 THEN UNCHANGED buffer
         ELSE modify_data(length[count + 1], Cut(length[count + 1].type, Find(length[count + 1].id).size))
  BY DEF TypeOK, UpdateLength, Lists
<1>2. count + 1 \in DOMAIN length
  BY <1>1, NextEntry DEF SeqInv
<1>3. offset = Len(Script) + 1
  BY <1>1 DEF PhaseInv
<1>4. PICK l : l = length[count + 1]
  OBVIOUS
<1>5. Width(l.type) \in Nat /\ (Sized(l) <=> Width(l.type) > 0)
      /\ (Sized(l) => l.type \in {"b32", "l32", "b16", "l16", "b8"})
  BY SizedTypes DEF Sized
<1>6. ~Sized(l) => UNCHANGED buffer
  BY <1>1, <1>4, <1>5
<1>7. ASSUME Sized(l)
      PROVE  /\ Placed(buffer, offset, l, "size", Width(l.type))
             /\ Cut(l.type, Find(l.id).size) \in Seq(0 .. Base - 1)
             /\ Len(Cut(l.type, Find(l.id).size)) = Width(l.type)
             /\ modify_data(l, Cut(l.type, Find(l.id).size))
  <2>1. Placed(buffer, offset, l, "size", Width(l.type))
    BY <1>2, <1>4, <1>7 DEF PlaceInv
  <2>2. Find(l.id).size \in Nat
    <3>1. "size" \in {"size", "crc"}
      OBVIOUS
    <3>2. QED
      BY <1>3, <2>1, <3>1, EntryBlock
  <2>3. /\ Cut(l.type, Find(l.id).size) \in Seq(0 .. Base - 1)
        /\ Len(Cut(l.type, Find(l.id).size)) = Width(l.type)
    BY <1>5, <1>7, <2>2, CutBytes
  <2>4. modify_data(l, Cut(l.type, Find(l.id).size))
    <3>1. Width(length[count + 1].type) # 0
      BY <1>4, <1>5, <1>7
    <3>2. modify_data(length[count + 1], Cut(length[count + 1].type, Find(length[count + 1].id).size))
      BY <1>1, <3>1
    <3>3. QED
      BY <1>4, <3>2 DEF modify_data
  <2>5. QED
    BY ONLY <2>1, <2>3, <2>4
<1>8. QED
  BY <1>1, <1>2, <1>3, <1>4, <1>6, <1>7 DEF modify_data

\* What update_hash does.
LEMMA HashUpdate ==
    ASSUME TypeOK, SeqInv, PhaseInv, PassInv, BlockInv, PlaceInv, UpdateHash
    PROVE  /\ count \in Nat /\ count' = count + 1 /\ count + 1 \in DOMAIN hash
           /\ UNCHANGED <<offset, block, length, hash, pc>> /\ pc = "hash"
           /\ offset = Len(Script) + 1
           /\ hash[count + 1].type \in {"b32", "l32"}
           /\ Placed(buffer, offset, hash[count + 1], "crc", 4)
           /\ \E bytes \in Seq(0 .. Base - 1) :
                 /\ Len(bytes) = 4
                 /\ bytes = Cut(hash[count + 1].type,
                                Digest(Raw(Part(buffer, Find(hash[count + 1].id)))))
                 /\ modify_data(hash[count + 1], bytes)
<1>1. /\ count \in Nat /\ count' = count + 1 /\ UNCHANGED <<offset, block, length, hash, pc>>
      /\ pc = "hash" /\ count < Len(hash)
      /\ modify_data(hash[count + 1], Cut(hash[count + 1].type, Digest(Raw(Content(Find(hash[count + 1].id))))))
  BY DEF TypeOK, UpdateHash, Lists
<1>2. count + 1 \in DOMAIN hash
  BY <1>1, NextEntry DEF SeqInv
<1>3. offset = Len(Script) + 1
  BY <1>1 DEF PhaseInv
<1>4. PICK h : h = hash[count + 1]
  OBVIOUS
<1>5. h.type \in {"b32", "l32"} /\ Placed(buffer, offset, h, "crc", 4)
  BY <1>2, <1>4 DEF PassInv, PlaceInv
<1>6. PICK b : b = Find(h.id)
  OBVIOUS
<1>7. b \in BlockType /\ BlockEntry(buffer, offset, b)
  <2>1. "crc" \in {"size", "crc"}
    OBVIOUS
  <2>2. QED
    BY <1>3, <1>5, <1>6, <2>1, EntryBlock
<1>8. Raw(Part(buffer, b)) \in Seq(Nat) /\ Content(b) = Part(buffer, b)
  BY <1>7, PartCells
<1>9. Digest(Raw(Part(buffer, b))) \in Nat
  BY <1>8, Powers, DigestType
<1>10. PICK bytes : bytes = Cut(h.type, Digest(Raw(Part(buffer, b))))
  OBVIOUS
<1>11. bytes \in Seq(0 .. Base - 1) /\ Len(bytes) = 4
  <2>1. h.type \in {"b32", "l32", "b16", "l16", "b8"} /\ Width(h.type) = 4
    BY <1>5 DEF Width
  <2>2. QED
    BY ONLY <1>9, <1>10, <2>1, CutBytes
<1>12. modify_data(h, bytes)
  BY <1>1, <1>4, <1>6, <1>8, <1>10 DEF modify_data
<1>13. /\ bytes = Cut(hash[count + 1].type, Digest(Raw(Part(buffer, Find(hash[count + 1].id)))))
       /\ modify_data(hash[count + 1], bytes)
  BY <1>4, <1>6, <1>10, <1>12 DEF modify_data
<1>14. QED
  BY <1>1, <1>2, <1>3, <1>4, <1>5, <1>11, <1>13

\* The bytes of a new length or hash.
LEMMA DummyBytes ==
    ASSUME TypeOK
    PROVE  /\ PushLength =>
                /\ offset \in DOMAIN Script /\ offset' = offset + 1 /\ Script[offset].op = "size"
                /\ UNCHANGED <<pc, hash>> /\ pc = "fetch"
                /\ length' = Append(length, [id |-> Script[offset].block, type |-> Script[offset].type,
                                             offset |-> Len(buffer)])
                /\ \E bytes \in Seq(0 .. Base - 1) :
                      Len(bytes) = Width(Script[offset].type) /\ push_data(bytes)
           /\ PushHash =>
                /\ offset \in DOMAIN Script /\ offset' = offset + 1 /\ Script[offset].op = "crc"
                /\ UNCHANGED <<pc, length>> /\ pc = "fetch"
                /\ hash' = Append(hash, [id |-> Script[offset].block, type |-> Script[offset].type,
                                         offset |-> Len(buffer)])
                /\ \E bytes \in Seq(0 .. Base - 1) :
                      Len(bytes) = 4 /\ push_data(bytes) /\ \A j \in 1 .. 4 : bytes[j] = 0
<1>1. Base - 1 \in 0 .. Base - 1 /\ 0 \in 0 .. Base - 1
  BY Powers
<1>2. ASSUME NEW n \in Nat, NEW v \in 0 .. Base - 1
      PROVE  /\ [k \in 1 .. n |-> v] \in Seq(0 .. Base - 1) /\ Len([k \in 1 .. n |-> v]) = n
             /\ \A j \in 1 .. n : [k \in 1 .. n |-> v][j] = v
  <2>1. [k \in 1 .. n |-> v] \in Seq({v}) /\ Len([k \in 1 .. n |-> v]) = n
    BY ONLY n \in Nat, Dummy
  <2>2. {v} \subseteq 0 .. Base - 1
    OBVIOUS
  <2>3. [k \in 1 .. n |-> v] \in Seq(0 .. Base - 1)
    BY ONLY <2>1, <2>2, SeqWiden
  <2>4. QED
    BY <2>1, <2>3
<1>3. ASSUME PushLength
      PROVE  /\ offset \in DOMAIN Script /\ offset' = offset + 1 /\ Script[offset].op = "size"
             /\ UNCHANGED <<pc, hash>> /\ pc = "fetch"
             /\ length' = Append(length, [id |-> Script[offset].block, type |-> Script[offset].type,
                                          offset |-> Len(buffer)])
             /\ \E bytes \in Seq(0 .. Base - 1) :
                   Len(bytes) = Width(Script[offset].type) /\ push_data(bytes)
  <2>1. Fetch({"size"}) /\ push_data([k \in 1 .. Width(Script[offset].type) |-> Base - 1])
    BY <1>3 DEF PushLength, Instr
  <2>2. Width(Script[offset].type) \in Nat
    BY SizedTypes
  <2>3. \E bytes \in Seq(0 .. Base - 1) :
              Len(bytes) = Width(Script[offset].type) /\ push_data(bytes)
    BY ONLY <1>1, <1>2, <2>1, <2>2
  <2>4. QED
    BY <1>3, <2>1, <2>3, Fetched DEF PushLength, Instr, Fetch
<1>4. ASSUME PushHash
      PROVE  /\ offset \in DOMAIN Script /\ offset' = offset + 1 /\ Script[offset].op = "crc"
             /\ UNCHANGED <<pc, length>> /\ pc = "fetch"
             /\ hash' = Append(hash, [id |-> Script[offset].block, type |-> Script[offset].type,
                                      offset |-> Len(buffer)])
             /\ \E bytes \in Seq(0 .. Base - 1) :
                   Len(bytes) = 4 /\ push_data(bytes) /\ \A j \in 1 .. 4 : bytes[j] = 0
  <2>1. Fetch({"crc"}) /\ push_data([k \in 1 .. 4 |-> 0]) /\ 4 \in Nat
    BY <1>4 DEF PushHash
  <2>2. \E bytes \in Seq(0 .. Base - 1) :
              Len(bytes) = 4 /\ push_data(bytes) /\ \A j \in 1 .. 4 : bytes[j] = 0
    BY ONLY <1>1, <1>2, <2>1
  <2>3. QED
    BY <1>4, <2>1, <2>2, Fetched DEF PushHash, Instr, Fetch
<1>5. QED
  BY <1>3, <1>4

\* Every step keeps BlockInv.
LEMMA BlockStep ==
    ASSUME TypeOK, Typed, SeqInv, PhaseInv, PassInv, BlockInv, PlaceInv, Next
    PROVE  BlockInv'
<1>1. CASE Pushes
  BY <1>1, BlockPush DEF Pushes
<1>2. CASE BlockBegin
  <2>1. /\ Fetch({"begin"}) /\ UNCHANGED buffer
        /\ block' = Append(block, [id |-> Script[offset].block, size |-> 0,
                                   offset |-> Len(buffer), open |-> TRUE])
    BY <1>2 DEF BlockBegin, Instr
  <2>2. offset \in DOMAIN Script /\ Script[offset].op = "begin" /\ offset' = offset + 1
    BY <2>1, Fetched DEF Instr
  <2>3. \A k \in DOMAIN buffer : buffer[k].by < offset
    BY DEF PassInv
  <2>4. QED
    BY <2>1, <2>2, <2>3, BlockOpens
<1>3. CASE BlockEnd
  <2>1. /\ Fetch({"end"}) /\ UNCHANGED buffer
        /\ block' = [block EXCEPT ![CHOOSE k \in DOMAIN block : block[k] = Find(Script[offset].block)].open = FALSE]
    BY <1>3 DEF BlockEnd, Instr
  <2>2. offset \in DOMAIN Script /\ Script[offset].op = "end" /\ offset' = offset + 1
    BY <2>1, Fetched DEF Instr
  <2>3. QED
    BY ONLY BlockInv, <2>1, <2>2, BlockCloses
<1>4. CASE PushLength \/ PushHash
  <2>1. /\ offset \in DOMAIN Script /\ offset' = offset + 1 /\ Script[offset].op \notin {"begin", "end"}
        /\ \E bytes \in Seq(0 .. Base - 1) : push_data(bytes)
    BY <1>4, DummyBytes
  <2>2. QED
    BY <2>1, BlockPush
<1>5. CASE SendOrRecv
  <2>1. Fetch({"send", "recv"}) /\ UNCHANGED <<buffer, block>>
    BY <1>5 DEF SendOrRecv
  <2>2. offset \in DOMAIN Script /\ Script[offset].op \notin {"begin", "end"} /\ offset' = offset + 1
    BY <2>1, Fetched DEF Instr
  <2>3. QED
    BY <2>1, <2>2, BlockOver
<1>6. CASE UNCHANGED <<offset, buffer, block>>
  BY <1>6 DEF BlockInv, BlockEntry, At
<1>7. CASE UpdateLength
  <2>1. UNCHANGED <<offset, block>>
    BY <1>7, LengthUpdate
  <2>2. CASE Sized(length[count + 1])
    BY <1>7, <2>1, <2>2, LengthUpdate, BlockModify
  <2>3. CASE ~Sized(length[count + 1])
    BY <1>6, <1>7, <2>1, <2>3, LengthUpdate
  <2>4. QED
    BY <2>2, <2>3
<1>8. CASE UpdateHash
  BY <1>8, HashUpdate, BlockModify
<1>9. CASE Parsed \/ LengthsUpdated \/ HashesUpdated
  BY <1>6, <1>9 DEF Parsed, LengthsUpdated, HashesUpdated, Lists
<1>10. CASE EndPass
  <2>1. /\ buffer' = [k \in DOMAIN buffer |-> [by |-> 0, byte |-> 0]]
        /\ block' = <<>> /\ offset' = 1
    BY <1>10 DEF EndPass
  <2>2. buffer' \in Seq(Cell) /\ <<>> \in Seq(BlockType) /\ DOMAIN <<>> = {}
    <3>1. [by |-> 0, byte |-> 0] \in Cell
      BY AutodafeAssumption DEF Cell
    <3>2. buffer \in Seq(Cell)
      BY DEF BlockInv
    <3>3. QED
      BY ONLY <2>1, <3>1, <3>2
  <2>3. ASSUME NEW b \in Blocks PROVE ~(BeginOf[b] < 1)
    <3>1. BeginOf[b] \in 1 .. Len(Script)
      BY BlockPlaces, Instruction
    <3>2. QED
      BY ONLY <3>1
  <2>4. QED
    BY ONLY <2>1, <2>2, <2>3 DEF BlockInv
<1>11. CASE Outside
  BY <1>6, <1>11 DEF Outside
<1>12. QED
  BY <1>1, <1>2, <1>3, <1>4, <1>5, <1>7, <1>8, <1>9, <1>10, <1>11, StepKinds

-----------------------------------------------------------------------------
(* The places of the lengths and hashes. *)

\* The entries are where they were.
PlacesKept ==
    \A e, op : \A w \in Nat : w > 0 /\ Placed(buffer, offset, e, op, w) =>
        Placed(buffer', offset', e, op, w) /\ By(buffer', e) = By(buffer, e)

\* When the cells of the past instructions are the same, so are the entries.
LEMMA PlacesStay ==
    ASSUME DOMAIN buffer \subseteq DOMAIN buffer', \A k \in DOMAIN buffer : buffer'[k].by = buffer[k].by,
           \A i \in 1 .. offset - 1 : At(buffer', {i}) = At(buffer, {i}),
           offset \in Nat, offset' \in {offset, offset + 1}
    PROVE  PlacesKept
<1>1. SUFFICES ASSUME NEW e, NEW op, NEW w \in Nat, w > 0, Placed(buffer, offset, e, op, w)
               PROVE  Placed(buffer', offset', e, op, w) /\ By(buffer', e) = By(buffer, e)
  BY DEF PlacesKept
<1>2. 1 \in 1 .. w
  BY ONLY w \in Nat, w > 0
<1>3. e.offset + 1 \in DOMAIN buffer
  BY <1>1, <1>2, EntryCells
<1>4. By(buffer', e) = By(buffer, e)
  BY <1>3 DEF By
<1>5. /\ e.offset \in Nat /\ By(buffer, e) \in 1 .. offset - 1
      /\ Script[By(buffer, e)].op = op
      /\ Script[By(buffer, e)].block = e.id /\ Script[By(buffer, e)].type = e.type
      /\ At(buffer, {By(buffer, e)}) = e.offset + 1 .. e.offset + w
  BY <1>1 DEF Placed
<1>6. At(buffer', {By(buffer, e)}) = e.offset + 1 .. e.offset + w /\ By(buffer, e) \in 1 .. offset' - 1
  BY <1>5
<1>7. QED
  BY ONLY <1>4, <1>5, <1>6 DEF Placed

\* What is pushed is for its own instruction.
LEMMA PlacesPushed ==
    ASSUME BlockInv, offset \in DOMAIN Script, offset' = offset + 1,
           NEW bytes \in Seq(0 .. Base - 1), push_data(bytes)
    PROVE  /\ PlacesKept /\ offset \in Nat /\ Len(buffer) \in Nat /\ Len(bytes) \in Nat
           /\ \A k \in DOMAIN buffer : buffer'[k] = buffer[k]
           /\ \A j \in 1 .. Len(bytes) : /\ buffer'[Len(buffer) + j].by = offset
                                         /\ buffer'[Len(buffer) + j].byte = bytes[j]
           /\ At(buffer', {offset}) = At(buffer, {offset}) \cup (Len(buffer) + 1 .. Len(buffer) + Len(bytes))
<1>1. offset \in Nat /\ buffer \in Seq(Cell)
  BY AutodafeAssumption DEF BlockInv
<1> DEFINE n == Len(bytes)
           m == Len(buffer)
<1>2. /\ m \in Nat /\ n \in Nat
      /\ DOMAIN buffer = 1 .. m /\ DOMAIN buffer' = 1 .. m + n
      /\ \A k \in DOMAIN buffer : buffer'[k] = buffer[k]
      /\ \A k \in 1 .. n : buffer'[m + k] = [by |-> offset, byte |-> bytes[k]]
      /\ \A places : At(buffer', places) =
            At(buffer, places) \cup (IF offset \in places THEN m + 1 .. m + n ELSE {})
  BY ONLY <1>1, bytes \in Seq(0 .. Base - 1), push_data(bytes), CellsPushed
<1> HIDE DEF n, m
<1>3. ASSUME NEW i \in 1 .. offset - 1
      PROVE  At(buffer', {i}) = At(buffer, {i})
  <2>1. offset \notin {i}
    BY ONLY <1>1, <1>3
  <2>2. At(buffer', {i}) = At(buffer, {i}) \cup (IF offset \in {i} THEN m + 1 .. m + n ELSE {})
    BY ONLY <1>2
  <2>3. QED
    BY ONLY <2>1, <2>2
<1>4. DOMAIN buffer \subseteq DOMAIN buffer'
  BY ONLY <1>2
<1>5. PlacesKept
  BY ONLY <1>1, <1>2, <1>3, <1>4, offset' = offset + 1, PlacesStay
<1>6. At(buffer', {offset}) = At(buffer, {offset}) \cup (m + 1 .. m + n)
  <2>1. At(buffer', {offset}) = At(buffer, {offset}) \cup (IF offset \in {offset} THEN m + 1 .. m + n ELSE {})
    BY ONLY <1>2
  <2>2. QED
    BY ONLY <2>1
<1>7. \A j \in 1 .. n : buffer'[m + j].by = offset /\ buffer'[m + j].byte = bytes[j]
  <2>1. TAKE j \in 1 .. n
  <2>2. buffer'[m + j] = [by |-> offset, byte |-> bytes[j]]
    BY ONLY <1>2, j \in 1 .. n
  <2>3. QED
    BY ONLY <2>2
<1>8. QED
  BY <1>1, <1>2, <1>5, <1>6, <1>7 DEF n, m

\* A new entry is placed where its bytes are.
LEMMA PlacedNew ==
    ASSUME BlockInv, \A k \in DOMAIN buffer : buffer[k].by < offset,
           offset \in DOMAIN Script, offset' = offset + 1,
           NEW bytes \in Seq(0 .. Base - 1), push_data(bytes), Len(bytes) > 0,
           NEW e, e = [id |-> Script[offset].block, type |-> Script[offset].type, offset |-> Len(buffer)]
    PROVE  /\ Placed(buffer', offset', e, Script[offset].op, Len(bytes))
           /\ By(buffer', e) = offset
<1>1. /\ offset \in Nat /\ Len(buffer) \in Nat /\ Len(bytes) \in Nat
      /\ \A j \in 1 .. Len(bytes) : buffer'[Len(buffer) + j].by = offset
      /\ At(buffer', {offset}) = At(buffer, {offset}) \cup (Len(buffer) + 1 .. Len(buffer) + Len(bytes))
  BY PlacesPushed
<1>2. e.offset = Len(buffer) /\ e.id = Script[offset].block /\ e.type = Script[offset].type
  OBVIOUS
<1>3. By(buffer', e) = offset
  <2>1. 1 \in 1 .. Len(bytes)
    BY <1>1
  <2>2. QED
    BY <1>1, <1>2, <2>1 DEF By
<1>4. At(buffer, {offset}) = {}
  <2>1. \A k \in DOMAIN buffer : buffer[k].by # offset
    BY <1>1, BlockTypes
  <2>2. QED
    BY ONLY <2>1 DEF At
<1>5. At(buffer', {offset}) = e.offset + 1 .. e.offset + Len(bytes)
  BY ONLY <1>1, <1>2, <1>4
<1>6. offset \in 1 .. offset' - 1
  BY AutodafeAssumption
<1>7. QED
  BY ONLY <1>1, <1>2, <1>3, <1>5, <1>6 DEF Placed

\* The entries of a pass are kept with the cells.
LEMMA OldEntries ==
    ASSUME PlaceInv, PlacesKept
    PROVE  /\ \A k \in DOMAIN length : Sized(length[k]) =>
                 /\ Placed(buffer', offset', length[k], "size", Width(length[k].type))
                 /\ By(buffer', length[k]) = By(buffer, length[k])
           /\ \A k \in DOMAIN hash : /\ Placed(buffer', offset', hash[k], "crc", 4)
                                     /\ By(buffer', hash[k]) = By(buffer, hash[k])
                                     /\ By(buffer, hash[k]) \in 1 .. offset - 1
           /\ \A i \in 1 .. offset - 1 :
                /\ Script[i].op = "size" /\ Sized(Script[i]) =>
                      \E k \in DOMAIN length : Sized(length[k]) /\ By(buffer', length[k]) = i
                /\ Script[i].op = "crc" => \E k \in DOMAIN hash : By(buffer', hash[k]) = i
<1>1. ASSUME NEW k \in DOMAIN length, Sized(length[k])
      PROVE  /\ Placed(buffer', offset', length[k], "size", Width(length[k].type))
             /\ By(buffer', length[k]) = By(buffer, length[k])
  <2>1. Placed(buffer, offset, length[k], "size", Width(length[k].type))
    BY <1>1 DEF PlaceInv
  <2>2. Width(length[k].type) \in Nat /\ Width(length[k].type) > 0
    BY <1>1, SizedTypes DEF Sized
  <2>3. QED
    BY ONLY PlacesKept, <2>1, <2>2 DEF PlacesKept
<1>2. ASSUME NEW k \in DOMAIN hash
      PROVE  /\ Placed(buffer', offset', hash[k], "crc", 4)
             /\ By(buffer', hash[k]) = By(buffer, hash[k])
             /\ By(buffer, hash[k]) \in 1 .. offset - 1
  <2>1. Placed(buffer, offset, hash[k], "crc", 4) /\ 4 \in Nat /\ 4 > 0
    BY DEF PlaceInv
  <2>2. By(buffer, hash[k]) \in 1 .. offset - 1
    BY ONLY <2>1 DEF Placed
  <2>3. QED
    BY ONLY PlacesKept, <2>1, <2>2 DEF PlacesKept
<1>3. ASSUME NEW i \in 1 .. offset - 1
      PROVE  /\ Script[i].op = "size" /\ Sized(Script[i]) =>
                   \E k \in DOMAIN length : Sized(length[k]) /\ By(buffer', length[k]) = i
             /\ Script[i].op = "crc" => \E k \in DOMAIN hash : By(buffer', hash[k]) = i
  <2>1. /\ Script[i].op = "size" /\ Sized(Script[i]) =>
                 \E k \in DOMAIN length : Sized(length[k]) /\ By(buffer, length[k]) = i
        /\ Script[i].op = "crc" => \E k \in DOMAIN hash : By(buffer, hash[k]) = i
    BY DEF PlaceInv
  <2>2. QED
    BY ONLY <1>1, <1>2, <2>1
<1>4. QED
  BY ONLY <1>1, <1>2, <1>3

\* A step that makes no entry.
LEMMA PlaceKept ==
    ASSUME PlaceInv, PlacesKept, UNCHANGED <<length, hash>>,
           \A i \in 1 .. offset' - 1 : i \in 1 .. offset - 1 \/ Script[i].op \notin {"size", "crc"}
    PROVE  PlaceInv'
<1>1. \A j, k \in DOMAIN hash : j < k => By(buffer', hash[j]) < By(buffer', hash[k])
  BY OldEntries DEF PlaceInv
<1>2. \A k \in DOMAIN length : Sized(length[k]) =>
          Placed(buffer', offset', length[k], "size", Width(length[k].type))
  BY OldEntries
<1>3. \A k \in DOMAIN hash : Placed(buffer', offset', hash[k], "crc", 4)
  BY OldEntries
<1>4. ASSUME NEW i \in 1 .. offset' - 1
      PROVE  /\ Script[i].op = "size" /\ Sized(Script[i]) =>
                   \E k \in DOMAIN length : Sized(length[k]) /\ By(buffer', length[k]) = i
             /\ Script[i].op = "crc" => \E k \in DOMAIN hash : By(buffer', hash[k]) = i
  BY OldEntries
<1>5. QED
  BY <1>1, <1>2, <1>3, <1>4 DEF PlaceInv, Sized

\* Where the elements of a list are after an append.
LEMMA AppendCells ==
    ASSUME NEW s, IsList(s), NEW e
    PROVE  /\ Len(s) \in Nat /\ DOMAIN s = 1 .. Len(s) /\ DOMAIN Append(s, e) = 1 .. Len(s) + 1
           /\ Append(s, e)[Len(s) + 1] = e
           /\ \A k \in DOMAIN s : k \in DOMAIN Append(s, e) /\ Append(s, e)[k] = s[k] /\ k # Len(s) + 1
           /\ \A k \in DOMAIN Append(s, e) : k = Len(s) + 1 \/ k \in DOMAIN s
<1>1. PICK A : s \in Seq(A)
  BY DEF IsList
<1>2. /\ Len(s) \in Nat /\ DOMAIN s = 1 .. Len(s) /\ DOMAIN Append(s, e) = 1 .. Len(s) + 1
      /\ Append(s, e)[Len(s) + 1] = e
      /\ \A k \in 1 .. Len(s) : Append(s, e)[k] = s[k]
  BY <1>1
<1>3. QED
  BY ONLY <1>2

\* push_length.
LEMMA PlacePushLength ==
    ASSUME TypeOK, SeqInv, PassInv, BlockInv, PlaceInv, PushLength
    PROVE  PlaceInv' /\ PlacesKept
<1>1. PICK e : e = [id |-> Script[offset].block, type |-> Script[offset].type, offset |-> Len(buffer)]
  OBVIOUS
<1>2. /\ offset \in DOMAIN Script /\ offset' = offset + 1 /\ Script[offset].op = "size"
      /\ UNCHANGED hash /\ length' = Append(length, e)
  BY <1>1, DummyBytes
<1>3. PICK bytes \in Seq(0 .. Base - 1) : Len(bytes) = Width(Script[offset].type) /\ push_data(bytes)
  BY DummyBytes
<1>4. PlacesKept /\ offset \in Nat
  BY <1>2, <1>3, PlacesPushed
<1>5. e.type = Script[offset].type /\ (Sized(e) <=> Sized(Script[offset])) /\ (Sized(e) <=> Len(bytes) > 0)
  BY <1>1, <1>3 DEF Sized
<1>6. ASSUME Sized(e)
      PROVE  Placed(buffer', offset', e, "size", Width(e.type)) /\ By(buffer', e) = offset
  <2>1. \A k \in DOMAIN buffer : buffer[k].by < offset
    BY DEF PassInv
  <2>2. Placed(buffer', offset', e, Script[offset].op, Len(bytes)) /\ By(buffer', e) = offset
    BY <1>1, <1>2, <1>3, <1>5, <1>6, <2>1, PlacedNew
  <2>3. QED
    BY <1>2, <1>3, <1>5, <2>2
<1>7. /\ Len(length) + 1 \in DOMAIN length' /\ length'[Len(length) + 1] = e
      /\ \A k \in DOMAIN length : k \in DOMAIN length' /\ length'[k] = length[k]
      /\ \A k \in DOMAIN length' : k = Len(length) + 1 \/ k \in DOMAIN length
  <2>1. IsList(length)
    BY DEF SeqInv
  <2>2. /\ Len(length) \in Nat /\ DOMAIN Append(length, e) = 1 .. Len(length) + 1
        /\ Append(length, e)[Len(length) + 1] = e
        /\ \A k \in DOMAIN length : k \in DOMAIN Append(length, e) /\ Append(length, e)[k] = length[k]
        /\ \A k \in DOMAIN Append(length, e) : k = Len(length) + 1 \/ k \in DOMAIN length
    BY ONLY <2>1, AppendCells
  <2>3. Len(length) + 1 \in 1 .. Len(length) + 1
    BY ONLY <2>2
  <2>4. QED
    BY ONLY <1>2, <2>2, <2>3
<1>8. \A k \in DOMAIN length' : Sized(length'[k]) =>
          Placed(buffer', offset', length'[k], "size", Width(length'[k].type))
  BY <1>4, <1>6, <1>7, OldEntries
<1>9. /\ \A k \in DOMAIN hash' : Placed(buffer', offset', hash'[k], "crc", 4)
      /\ \A j, k \in DOMAIN hash' : j < k => By(buffer', hash'[j]) < By(buffer', hash'[k])
  <2>1. \A k \in DOMAIN hash : /\ Placed(buffer', offset', hash[k], "crc", 4)
                               /\ By(buffer', hash[k]) = By(buffer, hash[k])
    BY <1>4, OldEntries
  <2>2. \A j, k \in DOMAIN hash : j < k => By(buffer, hash[j]) < By(buffer, hash[k])
    BY DEF PlaceInv
  <2>3. QED
    BY ONLY <1>2, <2>1, <2>2
<1>10. ASSUME NEW i \in 1 .. offset' - 1
       PROVE  /\ Script[i].op = "size" /\ Sized(Script[i]) =>
                    \E k \in DOMAIN length' : Sized(length'[k]) /\ By(buffer', length'[k]) = i
              /\ Script[i].op = "crc" => \E k \in DOMAIN hash' : By(buffer', hash'[k]) = i
  <2>1. CASE i \in 1 .. offset - 1
    <3>1. /\ Script[i].op = "size" /\ Sized(Script[i]) =>
                 \E k \in DOMAIN length : Sized(length[k]) /\ By(buffer', length[k]) = i
          /\ Script[i].op = "crc" => \E k \in DOMAIN hash : By(buffer', hash[k]) = i
      BY <1>4, <2>1, OldEntries
    <3>2. QED
      BY ONLY <1>2, <1>7, <3>1
  <2>2. CASE i = offset
    BY ONLY <1>2, <1>5, <1>6, <1>7, <2>2
  <2>3. i \in 1 .. offset - 1 \/ i = offset
    BY ONLY <1>2, <1>4, i \in 1 .. offset' - 1
  <2>4. QED
    BY ONLY <2>1, <2>2, <2>3
<1>11. PlaceInv'
  BY ONLY <1>8, <1>9, <1>10 DEF PlaceInv, Sized
<1>12. QED
  BY <1>4, <1>11

\* push_hash.
LEMMA PlacePushHash ==
    ASSUME TypeOK, SeqInv, PassInv, BlockInv, PlaceInv, PushHash
    PROVE  PlaceInv' /\ PlacesKept
<1>1. PICK e : e = [id |-> Script[offset].block, type |-> Script[offset].type, offset |-> Len(buffer)]
  OBVIOUS
<1>2. /\ offset \in DOMAIN Script /\ offset' = offset + 1 /\ Script[offset].op = "crc"
      /\ UNCHANGED length /\ hash' = Append(hash, e)
  BY <1>1, DummyBytes
<1>3. PICK bytes \in Seq(0 .. Base - 1) : Len(bytes) = 4 /\ push_data(bytes)
  BY DummyBytes
<1>4. PlacesKept /\ offset \in Nat
  BY <1>2, <1>3, PlacesPushed
<1>5. Placed(buffer', offset', e, "crc", 4) /\ By(buffer', e) = offset
  <2>1. \A k \in DOMAIN buffer : buffer[k].by < offset
    BY DEF PassInv
  <2>2. Len(bytes) > 0
    BY ONLY <1>3
  <2>3. Placed(buffer', offset', e, Script[offset].op, Len(bytes)) /\ By(buffer', e) = offset
    BY <1>1, <1>2, <1>3, <2>1, <2>2, PlacedNew
  <2>4. QED
    BY ONLY <1>2, <1>3, <2>3
<1>6. PICK m : m = Len(hash) + 1
  OBVIOUS
<1>7. /\ m \in DOMAIN hash' /\ hash'[m] = e
      /\ \A k \in DOMAIN hash : k \in DOMAIN hash' /\ hash'[k] = hash[k] /\ k \in Nat /\ k < m
      /\ \A k \in DOMAIN hash' : k = m \/ k \in DOMAIN hash
      /\ m \in Nat
  <2>1. IsList(hash)
    BY DEF SeqInv
  <2>2. /\ Len(hash) \in Nat /\ DOMAIN hash = 1 .. Len(hash) /\ DOMAIN Append(hash, e) = 1 .. Len(hash) + 1
        /\ Append(hash, e)[Len(hash) + 1] = e
        /\ \A k \in DOMAIN hash : k \in DOMAIN Append(hash, e) /\ Append(hash, e)[k] = hash[k]
        /\ \A k \in DOMAIN Append(hash, e) : k = Len(hash) + 1 \/ k \in DOMAIN hash
    BY ONLY <2>1, AppendCells
  <2>3. m \in 1 .. Len(hash) + 1 /\ m \in Nat /\ \A k \in 1 .. Len(hash) : k \in Nat /\ k < m
    BY ONLY <1>6, <2>2
  <2>4. QED
    BY ONLY <1>2, <1>6, <2>2, <2>3
<1>8. /\ \A k \in DOMAIN hash : /\ Placed(buffer', offset', hash[k], "crc", 4)
                                /\ By(buffer', hash[k]) = By(buffer, hash[k])
                                /\ By(buffer, hash[k]) \in 1 .. offset - 1
      /\ \A k \in DOMAIN length : Sized(length[k]) =>
               Placed(buffer', offset', length[k], "size", Width(length[k].type))
      /\ \A j, k \in DOMAIN hash : j < k => By(buffer, hash[j]) < By(buffer, hash[k])
  BY <1>4, OldEntries DEF PlaceInv
<1>9. \A k \in DOMAIN length' : Sized(length'[k]) =>
          Placed(buffer', offset', length'[k], "size", Width(length'[k].type))
  BY ONLY <1>2, <1>8
<1>10. \A k \in DOMAIN hash' : Placed(buffer', offset', hash'[k], "crc", 4)
  BY ONLY <1>5, <1>7, <1>8
<1>11. ASSUME NEW j \in DOMAIN hash', NEW k \in DOMAIN hash', j < k
       PROVE  By(buffer', hash'[j]) < By(buffer', hash'[k])
  <2>1. j \in DOMAIN hash
    BY ONLY <1>7, <1>11
  <2>2. CASE k \in DOMAIN hash
    BY ONLY <1>7, <1>8, <1>11, <2>1, <2>2
  <2>3. CASE k = m
    <3>1. By(buffer', hash'[j]) \in 1 .. offset - 1
      BY ONLY <1>7, <1>8, <2>1
    <3>2. QED
      BY ONLY <1>4, <1>5, <1>7, <2>3, <3>1
  <2>4. QED
    BY ONLY <1>7, <2>2, <2>3, k \in DOMAIN hash'
<1>12. ASSUME NEW i \in 1 .. offset' - 1
       PROVE  /\ Script[i].op = "size" /\ Sized(Script[i]) =>
                    \E k \in DOMAIN length' : Sized(length'[k]) /\ By(buffer', length'[k]) = i
              /\ Script[i].op = "crc" => \E k \in DOMAIN hash' : By(buffer', hash'[k]) = i
  <2>1. CASE i \in 1 .. offset - 1
    <3>1. /\ Script[i].op = "size" /\ Sized(Script[i]) =>
                 \E k \in DOMAIN length : Sized(length[k]) /\ By(buffer', length[k]) = i
          /\ Script[i].op = "crc" => \E k \in DOMAIN hash : By(buffer', hash[k]) = i
      BY <1>4, <2>1, OldEntries
    <3>2. QED
      BY ONLY <1>2, <1>7, <3>1
  <2>2. CASE i = offset
    BY ONLY <1>2, <1>5, <1>7, <2>2
  <2>3. i \in 1 .. offset - 1 \/ i = offset
    BY ONLY <1>2, <1>4, i \in 1 .. offset' - 1
  <2>4. QED
    BY ONLY <2>1, <2>2, <2>3
<1>13. PlaceInv'
  BY ONLY <1>9, <1>10, <1>11, <1>12 DEF PlaceInv, Sized
<1>14. QED
  BY <1>4, <1>13

\* A change of bytes moves no entry.
LEMMA PlaceModify ==
    ASSUME BlockInv, TypeOK, UNCHANGED offset, NEW e, NEW bytes \in Seq(0 .. Base - 1),
           modify_data(e, bytes)
    PROVE  PlacesKept
<1>1. /\ DOMAIN buffer' = DOMAIN buffer /\ \A k \in DOMAIN buffer : buffer'[k].by = buffer[k].by
      /\ \A places : At(buffer', places) = At(buffer, places)
  BY FieldModified DEF BlockInv
<1>2. offset \in Nat
  BY DEF TypeOK
<1>3. QED
  BY <1>1, <1>2, PlacesStay

\* Every step keeps PlaceInv.
LEMMA PlaceStep ==
    ASSUME TypeOK, Typed, SeqInv, PhaseInv, PassInv, BlockInv, PlaceInv, Next
    PROVE  PlaceInv'
<1>0. offset \in Nat
  BY DEF TypeOK
<1>1. CASE Pushes
  <2>1. PlacesKept
    BY <1>1, PlacesPushed DEF Pushes
  <2>2. \A i \in 1 .. offset' - 1 : i \in 1 .. offset - 1 \/ Script[i].op \notin {"size", "crc"}
    BY <1>0, <1>1 DEF Pushes
  <2>3. QED
    BY <1>1, <2>1, <2>2, PlaceKept DEF Pushes
<1>2. CASE BlockBegin \/ BlockEnd \/ SendOrRecv
  <2>1. /\ UNCHANGED <<buffer, length, hash>>
        /\ Fetch({"begin"}) \/ Fetch({"end"}) \/ Fetch({"send", "recv"})
    BY <1>2 DEF BlockBegin, BlockEnd, SendOrRecv
  <2>2. offset' = offset + 1 /\ Script[offset].op \notin {"size", "crc"}
    BY <2>1, Fetched DEF Instr
  <2>3. PlacesKept
    BY <1>0, <2>1, <2>2, PlacesStay
  <2>4. \A i \in 1 .. offset' - 1 : i \in 1 .. offset - 1 \/ Script[i].op \notin {"size", "crc"}
    BY <1>0, <2>2
  <2>5. QED
    BY <2>1, <2>3, <2>4, PlaceKept
<1>3. CASE UNCHANGED <<offset, buffer, length, hash>>
  BY <1>3 DEF PlaceInv, Placed, By, At
<1>4. CASE UpdateLength
  <2>1. UNCHANGED <<offset, length, hash>>
    BY <1>4, LengthUpdate
  <2>2. CASE Sized(length[count + 1])
    <3>1. PlacesKept
      BY <1>4, <2>1, <2>2, LengthUpdate, PlaceModify
    <3>2. QED
      BY <2>1, <3>1, PlaceKept
  <2>3. CASE ~Sized(length[count + 1])
    BY <1>3, <1>4, <2>1, <2>3, LengthUpdate
  <2>4. QED
    BY <2>2, <2>3
<1>5. CASE UpdateHash
  <2>1. UNCHANGED <<offset, length, hash>>
    BY <1>5, HashUpdate
  <2>2. PlacesKept
    BY <1>5, <2>1, HashUpdate, PlaceModify
  <2>3. QED
    BY <2>1, <2>2, PlaceKept
<1>6. CASE Parsed \/ LengthsUpdated \/ HashesUpdated
  BY <1>3, <1>6 DEF Parsed, LengthsUpdated, HashesUpdated, Lists
<1>7. CASE EndPass
  <2>1. length' = <<>> /\ hash' = <<>> /\ offset' = 1
    BY <1>7 DEF EndPass
  <2>2. DOMAIN <<>> = {} /\ 1 .. 1 - 1 = {}
    OBVIOUS
  <2>3. QED
    BY ONLY <2>1, <2>2 DEF PlaceInv
<1>8. CASE Outside
  BY <1>3, <1>8 DEF Outside
<1>9. QED
  BY <1>1, <1>2, <1>4, <1>5, <1>6, <1>7, <1>8, PlacePushLength, PlacePushHash, StepKinds

-----------------------------------------------------------------------------
(* What is written in the lengths and hashes. *)

\* A change of the bytes of an entry leaves the cells of other instructions alone.
LEMMA OthersKept ==
    ASSUME BlockInv, NEW e, NEW op, NEW width \in Nat, Placed(buffer, offset, e, op, width),
           NEW bytes \in Seq(0 .. Base - 1), Len(bytes) = width, modify_data(e, bytes)
    PROVE  /\ \A k \in DOMAIN buffer : buffer[k].by # By(buffer, e) => buffer'[k] = buffer[k]
           /\ \A j \in 1 .. width : buffer'[e.offset + j].byte = bytes[j]
           /\ \A f, o : \A w \in Nat : w > 0 /\ Placed(buffer, offset, f, o, w) =>
                 /\ By(buffer', f) = By(buffer, f)
                 /\ By(buffer, f) # By(buffer, e) =>
                       \A j \in 1 .. w : buffer'[f.offset + j] = buffer[f.offset + j]
<1>1. /\ \A k \in DOMAIN buffer : buffer'[k].by = buffer[k].by
      /\ \A k \in DOMAIN buffer : k - e.offset \notin DOMAIN bytes => buffer'[k] = buffer[k]
      /\ \A k \in DOMAIN buffer : k - e.offset \in DOMAIN bytes => buffer'[k].byte = bytes[k - e.offset]
  BY FieldModified DEF BlockInv
<1>2. DOMAIN bytes = 1 .. width
  BY ONLY SeqFacts, bytes \in Seq(0 .. Base - 1), Len(bytes) = width
<1>3. /\ e.offset \in Nat
      /\ \A j \in 1 .. width : e.offset + j \in DOMAIN buffer /\ buffer[e.offset + j].by = By(buffer, e)
  BY EntryCells
<1>4. DOMAIN buffer \subseteq Int
  BY BlockTypes
<1>5. ASSUME NEW k \in DOMAIN buffer, buffer[k].by # By(buffer, e)
      PROVE  buffer'[k] = buffer[k]
  <2>1. e.offset + (k - e.offset) = k
    BY ONLY <1>3, <1>4, k \in DOMAIN buffer
  <2>2. k - e.offset \notin 1 .. width
    BY ONLY <1>3, <1>5, <2>1
  <2>3. QED
    BY ONLY <1>1, <1>2, <2>2, k \in DOMAIN buffer
<1>6. ASSUME NEW j \in 1 .. width
      PROVE  buffer'[e.offset + j].byte = bytes[j]
  <2>1. (e.offset + j) - e.offset = j
    BY ONLY <1>3, j \in 1 .. width
  <2>2. QED
    BY ONLY <1>1, <1>2, <1>3, <2>1, j \in 1 .. width
<1>7. ASSUME NEW f, NEW o, NEW w \in Nat, w > 0, Placed(buffer, offset, f, o, w)
      PROVE  /\ By(buffer', f) = By(buffer, f)
             /\ By(buffer, f) # By(buffer, e) =>
                   \A j \in 1 .. w : buffer'[f.offset + j] = buffer[f.offset + j]
  <2>1. \A j \in 1 .. w : f.offset + j \in DOMAIN buffer /\ buffer[f.offset + j].by = By(buffer, f)
    BY <1>7, EntryCells
  <2>2. 1 \in 1 .. w
    BY ONLY <1>7
  <2>3. By(buffer', f) = By(buffer, f)
    BY ONLY <1>1, <2>1, <2>2 DEF By
  <2>4. QED
    BY ONLY <1>5, <2>1, <2>3
<1>8. QED
  BY ONLY <1>5, <1>6, <1>7

\* The bytes that are hashed, with those of the hash blank.
LEMMA BlankBytes ==
    ASSUME NEW part \in Seq(Cell), NEW i
    PROVE  /\ Raw(Blank(part, i)) =
                [k \in 1 .. Len(part) |-> IF part[k].by = i THEN 0 ELSE part[k].byte]
           /\ Raw(part) = [k \in 1 .. Len(part) |-> part[k].byte]
           /\ Raw(Blank(part, i)) \in Seq(Nat)
<1>1. DOMAIN part = 1 .. Len(part) /\ Len(part) \in Nat /\ \A k \in DOMAIN part : part[k] \in Cell
  BY ONLY SeqFacts, part \in Seq(Cell)
<1>2. \A c \in Cell : [c EXCEPT !.byte = 0].byte = 0 /\ c.byte \in Nat
  BY Powers DEF Cell
<1>3. Blank(part, i) = [k \in 1 .. Len(part) |->
                          IF part[k].by = i THEN [part[k] EXCEPT !.byte = 0] ELSE part[k]]
  BY <1>1 DEF Blank
<1>4. Raw(Blank(part, i)) = [k \in 1 .. Len(part) |->
          (IF part[k].by = i THEN [part[k] EXCEPT !.byte = 0] ELSE part[k]).byte]
  BY ONLY <1>3 DEF Raw
<1>5. ASSUME NEW k \in 1 .. Len(part)
      PROVE  (IF part[k].by = i THEN [part[k] EXCEPT !.byte = 0] ELSE part[k]).byte
                = (IF part[k].by = i THEN 0 ELSE part[k].byte)
  BY ONLY <1>1, <1>2, k \in 1 .. Len(part)
<1>6. Raw(Blank(part, i)) = [k \in 1 .. Len(part) |-> IF part[k].by = i THEN 0 ELSE part[k].byte]
  BY ONLY <1>4, <1>5
<1>7. \A k \in 1 .. Len(part) : (IF part[k].by = i THEN 0 ELSE part[k].byte) \in Nat
  BY ONLY <1>1, <1>2
<1>8. Raw(Blank(part, i)) \in Seq(Nat)
  BY ONLY <1>1, <1>6, <1>7
<1>9. Raw(part) = [k \in 1 .. Len(part) |-> part[k].byte]
  BY <1>1 DEF Raw
<1>10. QED
  BY ONLY <1>6, <1>8, <1>9

\* The part of a block after a change of bytes.
LEMMA PartModified ==
    ASSUME BlockInv, NEW b \in BlockType, BlockEntry(buffer, offset, b), NEW e,
           NEW bytes \in Seq(0 .. Base - 1), modify_data(e, bytes)
    PROVE  /\ Part(buffer', b) = [k \in 1 .. b.size |-> buffer'[b.offset + k]]
           /\ Part(buffer', b) \in Seq(Cell) /\ Len(Part(buffer', b)) = b.size
           /\ \A k \in 1 .. b.size : /\ b.offset + k \in DOMAIN buffer
                                     /\ buffer[b.offset + k].by \in Between(b.id)
<1>1. b.offset \in Nat /\ b.size \in Nat /\ b.offset + b.size <= Len(buffer)
      /\ At(buffer, Between(b.id)) = b.offset + 1 .. b.offset + b.size
  BY DEF BlockType, BlockEntry
<1>2. buffer' \in Seq(Cell) /\ Len(buffer') = Len(buffer)
  BY FieldModified DEF BlockInv
<1>3. PICK p \in Nat, n \in Nat : p = b.offset /\ n = b.size
  BY <1>1
<1>4. p + n <= Len(buffer')
  BY ONLY <1>1, <1>2, <1>3
<1>5. /\ SubSeq(buffer', p + 1, p + n) = [k \in 1 .. n |-> buffer'[p + k]]
      /\ SubSeq(buffer', p + 1, p + n) \in Seq(Cell) /\ Len(SubSeq(buffer', p + 1, p + n)) = n
  BY ONLY <1>2, <1>4, RunOf
<1>6. /\ Part(buffer', b) = [k \in 1 .. b.size |-> buffer'[b.offset + k]]
      /\ Part(buffer', b) \in Seq(Cell) /\ Len(Part(buffer', b)) = b.size
  BY ONLY <1>3, <1>5 DEF Part
<1>7. ASSUME NEW k \in 1 .. b.size
      PROVE  /\ b.offset + k \in DOMAIN buffer
             /\ buffer[b.offset + k].by \in Between(b.id)
  <2>1. b.offset + k \in b.offset + 1 .. b.offset + b.size
    BY ONLY <1>1, k \in 1 .. b.size
  <2>2. QED
    BY ONLY <1>1, <2>1 DEF At
<1>8. QED
  BY ONLY <1>6, <1>7

\* A hash over its block: its own bytes were zero when it was computed.
LEMMA HashSealed ==
    ASSUME BlockInv, NEW h, Placed(buffer, offset, h, "crc", 4), Zero(buffer, h), h.type \in {"b32", "l32"},
           NEW b \in BlockType, BlockEntry(buffer, offset, b),
           NEW bytes \in Seq(0 .. Base - 1), Len(bytes) = 4, modify_data(h, bytes),
           bytes = Cut(h.type, Digest(Raw(Part(buffer, b))))
    PROVE  Sealed(buffer', h, b)
<1>1. /\ \A k \in DOMAIN buffer : buffer[k].by # By(buffer, h) => buffer'[k] = buffer[k]
      /\ \A j \in 1 .. 4 : buffer'[h.offset + j].byte = bytes[j]
      /\ By(buffer', h) = By(buffer, h)
  <2>1. 4 \in Nat /\ 4 > 0
    OBVIOUS
  <2>2. QED
    BY <2>1, OthersKept
<1>2. \A k \in DOMAIN buffer : buffer[k].by = By(buffer, h) => buffer[k].byte = 0
  <2>1. \A k \in DOMAIN buffer : buffer[k].by = By(buffer, h) =>
                 k - h.offset \in 1 .. 4 /\ k = h.offset + (k - h.offset)
    BY EntryCells
  <2>2. QED
    BY ONLY <2>1, Zero(buffer, h) DEF Zero
<1>3. \A k \in DOMAIN buffer : buffer'[k].by = buffer[k].by
  BY FieldModified DEF BlockInv
<1>4. /\ Part(buffer, b) = [k \in 1 .. b.size |-> buffer[b.offset + k]]
      /\ Part(buffer, b) \in Seq(Cell) /\ Len(Part(buffer, b)) = b.size
  BY PartCells
<1>5. /\ Part(buffer', b) = [k \in 1 .. b.size |-> buffer'[b.offset + k]]
      /\ Part(buffer', b) \in Seq(Cell) /\ Len(Part(buffer', b)) = b.size
      /\ \A k \in 1 .. b.size : b.offset + k \in DOMAIN buffer
  BY PartModified
<1>6. Raw(Blank(Part(buffer', b), By(buffer', h)))
        = [k \in 1 .. b.size |-> IF Part(buffer', b)[k].by = By(buffer', h) THEN 0 ELSE Part(buffer', b)[k].byte]
  <2>1. PICK part, i : part \in Seq(Cell) /\ part = Part(buffer', b) /\ i = By(buffer', h)
    BY <1>5
  <2>2. Raw(Blank(part, i)) = [k \in 1 .. Len(part) |-> IF part[k].by = i THEN 0 ELSE part[k].byte]
    BY ONLY <2>1, BlankBytes
  <2>3. Len(part) = b.size
    BY ONLY <1>5, <2>1
  <2>4. QED
    BY ONLY <2>1, <2>2, <2>3
<1>7. Raw(Part(buffer, b)) = [k \in 1 .. b.size |-> Part(buffer, b)[k].byte]
  BY ONLY <1>4, BlankBytes
<1>8. ASSUME NEW k \in 1 .. b.size
      PROVE  (IF Part(buffer', b)[k].by = By(buffer', h) THEN 0 ELSE Part(buffer', b)[k].byte)
                = Part(buffer, b)[k].byte
  <2>1. Part(buffer', b)[k] = buffer'[b.offset + k] /\ Part(buffer, b)[k] = buffer[b.offset + k]
        /\ b.offset + k \in DOMAIN buffer
    BY ONLY <1>4, <1>5, k \in 1 .. b.size
  <2>2. QED
    BY ONLY <1>1, <1>2, <1>3, <2>1
<1>9. Raw(Blank(Part(buffer', b), By(buffer', h))) = Raw(Part(buffer, b))
  BY ONLY <1>6, <1>7, <1>8
<1>10. Written(buffer', h, Digest(Raw(Part(buffer, b))))
  <2>1. Width(h.type) = 4
    BY DEF Width
  <2>2. QED
    BY <1>1, <2>1 DEF Written
<1>11. QED
  BY <1>9, <1>10 DEF Sealed

\* A hash that was computed stays true when a later one is written.
LEMMA SealedKept ==
    ASSUME BlockInv, NEW h, Placed(buffer, offset, h, "crc", 4), NEW m, Placed(buffer, offset, m, "crc", 4),
           By(buffer, m) < By(buffer, h), m.type \in {"b32", "l32"}, By(buffer, h) \in DOMAIN Script,
           NEW b \in BlockType, BlockEntry(buffer, offset, b), b.id = m.id,
           NEW bytes \in Seq(0 .. Base - 1), Len(bytes) = 4, modify_data(h, bytes),
           Sealed(buffer, m, b)
    PROVE  Sealed(buffer', m, b)
<1>1. /\ \A k \in DOMAIN buffer : buffer[k].by # By(buffer, h) => buffer'[k] = buffer[k]
      /\ By(buffer', m) = By(buffer, m)
      /\ By(buffer, m) # By(buffer, h) => \A j \in 1 .. 4 : buffer'[m.offset + j] = buffer[m.offset + j]
  <2>1. PICK w \in Nat : w = 4
    OBVIOUS
  <2>2. Placed(buffer, offset, h, "crc", w) /\ Placed(buffer, offset, m, "crc", w) /\ Len(bytes) = w
    BY ONLY <2>1, Placed(buffer, offset, h, "crc", 4), Placed(buffer, offset, m, "crc", 4),
            Len(bytes) = 4
  <2>3. /\ \A k \in DOMAIN buffer : buffer[k].by # By(buffer, h) => buffer'[k] = buffer[k]
        /\ \A f, o : \A v \in Nat : v > 0 /\ Placed(buffer, offset, f, o, v) =>
              /\ By(buffer', f) = By(buffer, f)
              /\ By(buffer, f) # By(buffer, h) =>
                    \A j \in 1 .. v : buffer'[f.offset + j] = buffer[f.offset + j]
    BY ONLY BlockInv, <2>1, <2>2, bytes \in Seq(0 .. Base - 1), modify_data(h, bytes), OthersKept
  <2>4. w > 0
    BY ONLY <2>1
  <2>5. /\ By(buffer', m) = By(buffer, m)
        /\ By(buffer, m) # By(buffer, h) =>
              \A j \in 1 .. w : buffer'[m.offset + j] = buffer[m.offset + j]
    BY ONLY <2>1, <2>2, <2>3, <2>4
  <2>6. QED
    BY ONLY <2>1, <2>3, <2>5
<1>2. By(buffer, h) \in Nat /\ By(buffer, m) \in Nat
  BY DEF Placed
<1>3. SUFFICES ASSUME LastIn(buffer', m)
               PROVE  Written(buffer', m, Digest(Raw(Blank(Part(buffer', b), By(buffer', m)))))
  BY DEF Sealed
<1>4. LastIn(buffer, m)
  BY <1>1, <1>3 DEF LastIn
<1>5. Written(buffer, m, Digest(Raw(Blank(Part(buffer, b), By(buffer, m)))))
  BY <1>4 DEF Sealed
<1>6. By(buffer, h) \notin Between(m.id)
  <2>1. Script[By(buffer, h)].op = "crc" /\ Script[By(buffer, m)].block = m.id
    BY DEF Placed
  <2>2. By(buffer, h) \in By(buffer, m) + 1 .. Len(Script)
    <3>1. By(buffer, h) \in 1 .. Len(Script) /\ Len(Script) \in Nat
      BY Instruction
    <3>2. QED
      BY ONLY <1>2, <3>1, By(buffer, m) < By(buffer, h)
  <2>3. ~Holds(m.id, By(buffer, h))
    BY <1>4, <2>1, <2>2 DEF LastIn, IsHash
  <2>4. BeginOf[m.id] \in Nat /\ EndOf[m.id] \in Nat
    <3>1. m.id \in Blocks
      BY DEF BlockType
    <3>2. QED
      BY <3>1, BlockPlaces, Instruction
  <2>5. QED
    BY ONLY <1>2, <2>3, <2>4 DEF Holds, Between
<1>7. Part(buffer', b) = Part(buffer, b)
  <2>1. /\ Part(buffer, b) = [k \in 1 .. b.size |-> buffer[b.offset + k]]
        /\ Part(buffer', b) = [k \in 1 .. b.size |-> buffer'[b.offset + k]]
        /\ \A k \in 1 .. b.size : /\ b.offset + k \in DOMAIN buffer
                                  /\ buffer[b.offset + k].by \in Between(m.id)
    BY PartCells, PartModified
  <2>2. \A k \in 1 .. b.size : buffer'[b.offset + k] = buffer[b.offset + k]
    BY ONLY <1>1, <1>6, <2>1
  <2>3. QED
    BY ONLY <2>1, <2>2
<1>8. \A j \in 1 .. Width(m.type) : buffer'[m.offset + j].byte = buffer[m.offset + j].byte
  <2>1. Width(m.type) = 4
    BY DEF Width
  <2>2. By(buffer, m) # By(buffer, h)
    BY ONLY <1>2, By(buffer, m) < By(buffer, h)
  <2>3. QED
    BY ONLY <1>1, <2>1, <2>2
<1>9. QED
  BY ONLY <1>1, <1>5, <1>7, <1>8 DEF Written

\* While instructions are fetched the hashes are zero.
LEMMA FieldPush ==
    ASSUME TypeOK, SeqInv, BlockInv, PlaceInv, PlacesKept, FieldInv, pc = "fetch", pc' \in {"fetch", "ack"},
           \A k \in DOMAIN buffer : buffer'[k] = buffer[k],
           \A k \in DOMAIN hash' : (k \in DOMAIN hash /\ hash'[k] = hash[k]) \/ Zero(buffer', hash'[k])
    PROVE  FieldInv'
<1>1. ASSUME NEW k \in DOMAIN hash
      PROVE  Zero(buffer', hash[k])
  <2>1. Zero(buffer, hash[k]) /\ Placed(buffer, offset, hash[k], "crc", 4) /\ 4 \in Nat
    BY DEF FieldInv, PlaceInv
  <2>2. \A j \in 1 .. 4 : hash[k].offset + j \in DOMAIN buffer
    BY ONLY <2>1, EntryCells
  <2>3. \A j \in 1 .. 4 : buffer'[hash[k].offset + j] = buffer[hash[k].offset + j]
    BY <2>2
  <2>4. QED
    BY ONLY <2>1, <2>3 DEF Zero
<1>2. \A k \in DOMAIN hash' : Zero(buffer', hash'[k])
  BY <1>1
<1>3. QED
  BY <1>2 DEF FieldInv, Sending

\* push_hash: the new hash is zero too.
LEMMA FieldPushHash ==
    ASSUME TypeOK, SeqInv, PassInv, BlockInv, PlaceInv, FieldInv, PushHash
    PROVE  FieldInv'
<1>1. PICK e : e = [id |-> Script[offset].block, type |-> Script[offset].type, offset |-> Len(buffer)]
  OBVIOUS
<1>2. /\ offset \in DOMAIN Script /\ offset' = offset + 1 /\ UNCHANGED pc /\ pc = "fetch"
      /\ hash' = Append(hash, e)
  BY <1>1, DummyBytes
<1>3. PICK bytes \in Seq(0 .. Base - 1) : /\ Len(bytes) = 4 /\ push_data(bytes)
                                         /\ \A j \in 1 .. 4 : bytes[j] = 0
  BY DummyBytes
<1>4. /\ PlacesKept /\ \A k \in DOMAIN buffer : buffer'[k] = buffer[k]
      /\ \A j \in 1 .. Len(bytes) : buffer'[Len(buffer) + j].byte = bytes[j]
  BY <1>2, <1>3, PlacesPushed
<1>5. Zero(buffer', e)
  BY <1>1, <1>3, <1>4 DEF Zero
<1>6. \A k \in DOMAIN hash' : (k \in DOMAIN hash /\ hash'[k] = hash[k]) \/ Zero(buffer', hash'[k])
  <2>1. \A k \in DOMAIN hash' : hash'[k] = e \/ (k \in DOMAIN hash /\ hash'[k] = hash[k])
    BY <1>2, AppendSplit DEF SeqInv
  <2>2. QED
    BY ONLY <1>5, <2>1
<1>7. QED
  BY <1>2, <1>4, <1>6, FieldPush

\* update_length: the length of the entry in turn is written, and none of the others changes.
LEMMA FieldLength ==
    ASSUME TypeOK, SeqInv, PhaseInv, BlockInv, PlaceInv, FieldInv, UpdateLength
    PROVE  FieldInv'
<1>1. PICK l : l = length[count + 1]
  OBVIOUS
<1>2. /\ count \in Nat /\ count' = count + 1 /\ count + 1 \in DOMAIN length
      /\ UNCHANGED <<offset, block, length, hash, pc>> /\ pc = "length"
      /\ ~Sized(l) => UNCHANGED buffer
  BY <1>1, LengthUpdate
<1>3. /\ \A k \in DOMAIN hash : Zero(buffer, hash[k]) /\ Placed(buffer, offset, hash[k], "crc", 4)
      /\ \A k \in DOMAIN length : k <= count => Written(buffer, length[k], Find(length[k].id).size)
      /\ \A k \in DOMAIN length : Sized(length[k]) =>
            Placed(buffer, offset, length[k], "size", Width(length[k].type))
  BY <1>2 DEF FieldInv, PlaceInv
<1>4. \A id : Find(id)' = Find(id)
  BY <1>2 DEF Find
<1>5. \A cells, k, n : ~Sized(length[k]) => Written(cells, length[k], n)
  <2>1. TAKE cells, k, n
  <2>2. SUFFICES ASSUME ~Sized(length[k]) PROVE Written(cells, length[k], n)
    OBVIOUS
  <2>3. Width(length[k].type) = 0
    BY <2>2, SizedTypes DEF Sized
  <2>4. QED
    BY ONLY <2>3 DEF Written
<1>6. \A k \in DOMAIN length : k <= count + 1 => k <= count \/ length[k] = l
  <2>1. IsList(length)
    BY DEF SeqInv
  <2>2. DOMAIN length \subseteq Int
    <3>1. PICK A : length \in Seq(A)
      BY <2>1 DEF IsList
    <3>2. QED
      BY ONLY <3>1
  <2>3. QED
    BY ONLY <1>1, <1>2, <2>2
<1>7. SUFFICES /\ \A k \in DOMAIN hash : Zero(buffer', hash[k])
               /\ \A k \in DOMAIN length : k <= count + 1 =>
                     Written(buffer', length[k], Find(length[k].id).size)
  BY ONLY <1>2, <1>4, <1>7 DEF FieldInv, Sending
<1>8. CASE ~Sized(l)
  BY ONLY <1>2, <1>3, <1>5, <1>6, <1>8 DEF Sized
<1>9. CASE Sized(l)
  <2>1. PICK bytes, w : bytes = Cut(l.type, Find(l.id).size) /\ w = Width(l.type)
    OBVIOUS
  <2>2. /\ Placed(buffer, offset, l, "size", w) /\ bytes \in Seq(0 .. Base - 1) /\ Len(bytes) = w
        /\ w \in Nat /\ w > 0
    BY <1>1, <1>9, <2>1, LengthUpdate, SizedTypes DEF Sized
  <2>3. modify_data(l, bytes)
    <3>1. modify_data(l, Cut(l.type, Find(l.id).size))
      BY <1>1, <1>9, LengthUpdate DEF modify_data
    <3>2. QED
      BY ONLY <2>1, <3>1 DEF modify_data
  <2>4. /\ \A j \in 1 .. w : buffer'[l.offset + j].byte = bytes[j]
        /\ \A f, o : \A v \in Nat : v > 0 /\ Placed(buffer, offset, f, o, v) =>
            /\ By(buffer, f) # By(buffer, l) =>
                    \A j \in 1 .. v : buffer'[f.offset + j] = buffer[f.offset + j]
    BY ONLY BlockInv, <2>2, <2>3, OthersKept
  <2>5. ASSUME NEW k \in DOMAIN hash
        PROVE  Zero(buffer', hash[k])
    <3>1. Placed(buffer, offset, hash[k], "crc", 4) /\ Zero(buffer, hash[k]) /\ 4 \in Nat /\ 4 > 0
      BY <1>3
    <3>2. By(buffer, hash[k]) # By(buffer, l)
      BY ONLY <2>2, <3>1 DEF Placed
    <3>3. \A j \in 1 .. 4 : buffer'[hash[k].offset + j] = buffer[hash[k].offset + j]
      BY ONLY <2>4, <3>1, <3>2
    <3>4. QED
      BY ONLY <3>1, <3>3 DEF Zero
  <2>6. Written(buffer', l, Find(l.id).size)
    BY ONLY <2>1, <2>4 DEF Written
  <2>7. ASSUME NEW k \in DOMAIN length, k <= count + 1
        PROVE  Written(buffer', length[k], Find(length[k].id).size)
    <3>1. CASE length[k] = l
      BY ONLY <2>6, <3>1
    <3>2. CASE ~Sized(length[k])
      BY ONLY <1>5, <3>2
    <3>3. CASE length[k] # l /\ Sized(length[k])
      <4>1. PICK f, v : f = length[k] /\ v = Width(f.type)
        OBVIOUS
      <4>2. Placed(buffer, offset, f, "size", v) /\ v \in Nat /\ v > 0
        BY <1>3, <3>3, <4>1, SizedTypes DEF Sized
      <4>3. Written(buffer, f, Find(f.id).size)
        BY <1>3, <1>6, <2>7, <3>3, <4>1
      <4>4. CASE By(buffer, f) # By(buffer, l)
        <5>1. \A j \in 1 .. v : buffer'[f.offset + j] = buffer[f.offset + j]
          BY ONLY <2>4, <4>2, <4>4
        <5>2. QED
          BY ONLY <4>1, <4>3, <5>1 DEF Written
      <4>5. CASE By(buffer, f) = By(buffer, l)
        <5>1. f.offset = l.offset /\ f.id = l.id /\ f.type = l.type
          BY ONLY <2>2, <4>2, <4>5, SamePlace
        <5>2. Written(buffer', f, Find(f.id).size)
          BY ONLY <2>6, <5>1 DEF Written
        <5>3. QED
          BY ONLY <4>1, <5>2
      <4>6. QED
        BY ONLY <4>4, <4>5
    <3>4. QED
      BY ONLY <3>1, <3>2, <3>3
  <2>8. QED
    BY ONLY <2>5, <2>7
<1>10. QED
  BY <1>8, <1>9

\* update_hash: the hash of the entry in turn is computed, and the ones before it stay true.
LEMMA FieldHash ==
    ASSUME TypeOK, SeqInv, PhaseInv, PassInv, BlockInv, PlaceInv, FieldInv, UpdateHash
    PROVE  FieldInv'
<1>1. PICK h : h = hash[count + 1]
  OBVIOUS
<1>2. /\ count \in Nat /\ count' = count + 1 /\ count + 1 \in DOMAIN hash
      /\ UNCHANGED <<offset, block, length, hash, pc>> /\ pc = "hash" /\ offset = Len(Script) + 1
      /\ h.type \in {"b32", "l32"} /\ Placed(buffer, offset, h, "crc", 4)
  BY <1>1, HashUpdate
<1>3. PICK bytes \in Seq(0 .. Base - 1) :
          /\ Len(bytes) = 4 /\ bytes = Cut(h.type, Digest(Raw(Part(buffer, Find(h.id)))))
          /\ modify_data(h, bytes)
  BY <1>1, HashUpdate DEF modify_data
<1>4. /\ \A k \in DOMAIN length : Written(buffer, length[k], Find(length[k].id).size)
      /\ \A k \in DOMAIN hash : IF k <= count THEN Sealed(buffer, hash[k], Find(hash[k].id))
                                ELSE Zero(buffer, hash[k])
      /\ \A k \in DOMAIN length : Sized(length[k]) =>
            Placed(buffer, offset, length[k], "size", Width(length[k].type))
      /\ \A k \in DOMAIN hash : Placed(buffer, offset, hash[k], "crc", 4) /\ hash[k].type \in {"b32", "l32"}
      /\ \A j, k \in DOMAIN hash : j < k => By(buffer, hash[j]) < By(buffer, hash[k])
  BY <1>2 DEF FieldInv, PlaceInv, PassInv
<1>5. \A id : Find(id)' = Find(id)
  BY <1>2 DEF Find
<1>6. DOMAIN hash \subseteq Int
  <2>1. PICK A : hash \in Seq(A)
    BY DEF SeqInv, IsList
  <2>2. QED
    BY ONLY <2>1
<1>7. \A f, o : \A v \in Nat : v > 0 /\ Placed(buffer, offset, f, o, v) =>
            /\ By(buffer, f) # By(buffer, h) =>
                    \A j \in 1 .. v : buffer'[f.offset + j] = buffer[f.offset + j]
  <2>1. PICK w \in Nat : w = 4
    OBVIOUS
  <2>2. Placed(buffer, offset, h, "crc", w) /\ Len(bytes) = w
    BY ONLY <1>2, <1>3, <2>1
  <2>3. QED
    BY ONLY BlockInv, <1>3, <2>2, OthersKept
<1>8. \A k \in DOMAIN hash : /\ Find(hash[k].id) \in BlockType /\ Find(hash[k].id).id = hash[k].id
                             /\ BlockEntry(buffer, offset, Find(hash[k].id))
                             /\ By(buffer, hash[k]) \in DOMAIN Script
  <2>1. TAKE k \in DOMAIN hash
  <2>2. Placed(buffer, offset, hash[k], "crc", 4) /\ "crc" \in {"size", "crc"}
    BY <1>4
  <2>3. QED
    BY ONLY BlockInv, <1>2, <2>2, EntryBlock
<1>9. ASSUME NEW k \in DOMAIN length
      PROVE  Written(buffer', length[k], Find(length[k].id).size)
  <2>1. Written(buffer, length[k], Find(length[k].id).size)
    BY <1>4
  <2>2. Width(length[k].type) \in Nat
    BY SizedTypes
  <2>3. CASE Sized(length[k])
    <3>1. Placed(buffer, offset, length[k], "size", Width(length[k].type)) /\ Width(length[k].type) > 0
      BY <1>4, <2>3 DEF Sized
    <3>2. By(buffer, length[k]) # By(buffer, h)
      BY ONLY <1>2, <3>1 DEF Placed
    <3>3. \A j \in 1 .. Width(length[k].type) : buffer'[length[k].offset + j] = buffer[length[k].offset + j]
      BY ONLY <1>7, <2>2, <3>1, <3>2
    <3>4. QED
      BY ONLY <2>1, <3>3 DEF Written
  <2>4. CASE ~Sized(length[k])
    BY ONLY <2>2, <2>4 DEF Written, Sized
  <2>5. QED
    BY ONLY <2>3, <2>4
<1>10. ASSUME NEW k \in DOMAIN hash
       PROVE  IF k <= count + 1 THEN Sealed(buffer', hash[k], Find(hash[k].id)) ELSE Zero(buffer', hash[k])
  <2>1. PICK m, b : m = hash[k] /\ b = Find(m.id)
    OBVIOUS
  <2>2. /\ Placed(buffer, offset, m, "crc", 4) /\ m.type \in {"b32", "l32"}
        /\ b \in BlockType /\ BlockEntry(buffer, offset, b) /\ b.id = m.id
    BY <1>4, <1>8, <2>1
  <2>3. CASE k = count + 1
    <3>1. m = h /\ Zero(buffer, h)
      BY ONLY <1>1, <1>2, <1>4, <2>1, <2>3, k \in DOMAIN hash
    <3>2. bytes = Cut(h.type, Digest(Raw(Part(buffer, b))))
      BY ONLY <1>3, <2>1, <3>1
    <3>3. Sealed(buffer', h, b)
      BY ONLY BlockInv, <1>2, <1>3, <2>2, <3>1, <3>2, HashSealed
    <3>4. QED
      BY ONLY <1>2, <2>1, <2>3, <3>1, <3>3
  <2>4. CASE k < count + 1
    <3>1. Sealed(buffer, m, b)
      BY ONLY <1>2, <1>4, <1>6, <2>1, <2>4, k \in DOMAIN hash
    <3>2. By(buffer, m) < By(buffer, h) /\ By(buffer, h) \in DOMAIN Script
      BY ONLY <1>1, <1>2, <1>4, <1>8, <2>1, <2>4, k \in DOMAIN hash
    <3>3. Sealed(buffer', m, b)
      BY ONLY BlockInv, <1>2, <1>3, <2>2, <3>1, <3>2, SealedKept
    <3>4. QED
      BY ONLY <1>2, <1>6, <2>1, <2>4, <3>3, k \in DOMAIN hash
  <2>5. CASE k > count + 1
    <3>1. Zero(buffer, m)
      BY ONLY <1>2, <1>4, <1>6, <2>1, <2>5, k \in DOMAIN hash
    <3>2. By(buffer, h) < By(buffer, m)
      BY ONLY <1>1, <1>2, <1>4, <2>1, <2>5, k \in DOMAIN hash
    <3>3. By(buffer, m) # By(buffer, h)
      <4>1. By(buffer, m) \in Nat /\ By(buffer, h) \in Nat
        BY ONLY <1>2, <2>2 DEF Placed
      <4>2. QED
        BY ONLY <3>2, <4>1
    <3>4. \A j \in 1 .. 4 : buffer'[m.offset + j] = buffer[m.offset + j]
      <4>1. 4 \in Nat /\ 4 > 0
        OBVIOUS
      <4>2. QED
        BY ONLY <1>7, <2>2, <3>3, <4>1
    <3>5. Zero(buffer', m)
      BY ONLY <3>1, <3>4 DEF Zero
    <3>6. QED
      BY ONLY <1>2, <1>6, <2>1, <2>5, <3>5, k \in DOMAIN hash
  <2>6. QED
    BY ONLY <1>2, <1>6, <2>3, <2>4, <2>5, k \in DOMAIN hash
<1>11. QED
  BY ONLY <1>2, <1>5, <1>9, <1>10 DEF FieldInv, Sending

-----------------------------------------------------------------------------
(* Every script is sent with right lengths and hashes. *)

\* Every step keeps FieldInv.
LEMMA FieldStep ==
    ASSUME TypeOK, Typed, SeqInv, PhaseInv, PassInv, BlockInv, PlaceInv, FieldInv, Next
    PROVE  FieldInv'
<1>1. CASE Pushes
  <2>1. PlacesKept /\ \A k \in DOMAIN buffer : buffer'[k] = buffer[k]
    BY <1>1, PlacesPushed DEF Pushes
  <2>2. pc = "fetch" /\ pc' \in {"fetch", "ack"} /\ UNCHANGED hash
    BY <1>1 DEF Pushes
  <2>3. QED
    BY <2>1, <2>2, FieldPush
<1>2. CASE PushLength
  <2>1. PlacesKept /\ \A k \in DOMAIN buffer : buffer'[k] = buffer[k]
    BY <1>2, DummyBytes, PlacesPushed
  <2>2. pc = "fetch" /\ pc' \in {"fetch", "ack"} /\ UNCHANGED hash
    BY <1>2, DummyBytes
  <2>3. QED
    BY <2>1, <2>2, FieldPush
<1>3. CASE BlockBegin \/ BlockEnd \/ SendOrRecv
  <2>1. UNCHANGED <<buffer, hash, pc>> /\ pc = "fetch"
    BY <1>3 DEF BlockBegin, BlockEnd, SendOrRecv, Fetch
  <2>2. QED
    BY <2>1 DEF FieldInv, Zero, Sending
<1>4. CASE Parsed \/ LengthsUpdated \/ HashesUpdated
  <2>1. UNCHANGED <<buffer, block, length, hash, offset>>
    BY <1>4 DEF Parsed, LengthsUpdated, HashesUpdated, Lists
  <2>2. \A id : Find(id)' = Find(id)
    BY <2>1 DEF Find
  <2>3. /\ \A k \in DOMAIN length : k \in Nat /\ k >= 1 /\ k <= Len(length)
        /\ \A k \in DOMAIN hash : k \in Nat /\ k >= 1 /\ k <= Len(hash)
    <3>1. PICK A, B : length \in Seq(A) /\ hash \in Seq(B)
      BY DEF SeqInv, IsList
    <3>2. QED
      BY ONLY <3>1
  <2>4. CASE Parsed
    <3>1. pc = "fetch" /\ pc' = "length" /\ count' = 0
      BY <2>4 DEF Parsed, Lists
    <3>2. \A k \in DOMAIN hash : Zero(buffer, hash[k])
      BY <3>1 DEF FieldInv
    <3>3. QED
      BY ONLY <2>1, <2>3, <3>1, <3>2 DEF FieldInv, Sending
  <2>5. CASE LengthsUpdated
    <3>1. pc = "length" /\ pc' = "hash" /\ count' = 0 /\ count = Len(length)
      BY <2>5 DEF LengthsUpdated, Lists
    <3>2. /\ \A k \in DOMAIN hash : Zero(buffer, hash[k])
          /\ \A k \in DOMAIN length : Written(buffer, length[k], Find(length[k].id).size)
      BY <2>3, <3>1 DEF FieldInv
    <3>3. \A k \in DOMAIN hash : ~(k <= 0)
      BY ONLY <2>3
    <3>4. QED
      BY ONLY <2>1, <2>2, <3>1, <3>2, <3>3 DEF FieldInv, Sending
  <2>6. CASE HashesUpdated
    <3>1. pc = "hash" /\ pc' \in {"started", "connect"} /\ count = Len(hash)
      BY <2>6 DEF HashesUpdated, Lists
    <3>2. /\ \A k \in DOMAIN hash : Sealed(buffer, hash[k], Find(hash[k].id))
          /\ \A k \in DOMAIN length : Written(buffer, length[k], Find(length[k].id).size)
      BY <2>3, <3>1 DEF FieldInv
    <3>3. QED
      BY ONLY <2>1, <2>2, <3>1, <3>2 DEF FieldInv, Sending
  <2>7. QED
    BY <1>4, <2>4, <2>5, <2>6
<1>5. CASE EndPass
  <2>1. length' = <<>> /\ hash' = <<>>
    BY <1>5 DEF EndPass
  <2>2. DOMAIN <<>> = {}
    OBVIOUS
  <2>3. QED
    BY ONLY <2>1, <2>2 DEF FieldInv
<1>6. CASE Outside
  <2>1. UNCHANGED <<buffer, block, length, hash>>
    BY <1>6 DEF Outside
  <2>2. \A id : Find(id)' = Find(id)
    BY <2>1 DEF Find
  <2>3. CASE UNCHANGED <<pc, count>>
    BY ONLY FieldInv, <2>1, <2>2, <2>3 DEF FieldInv
  <2>4. CASE pc' = "end"
    BY ONLY <2>4 DEF FieldInv, Sending
  <2>5. CASE pc \in {"hello", "ack"} /\ pc' \in {"ack", "fetch"}
    <3>1. \A k \in DOMAIN hash : Zero(buffer, hash[k])
      BY ONLY FieldInv, <2>5 DEF FieldInv
    <3>2. QED
      BY ONLY <2>1, <2>5, <3>1 DEF FieldInv, Sending
  <2>6. CASE pc \in {"started"} \cup Sending /\ pc' \in Sending
    <3>1. /\ \A k \in DOMAIN hash : Sealed(buffer, hash[k], Find(hash[k].id))
          /\ \A k \in DOMAIN length : Written(buffer, length[k], Find(length[k].id).size)
      BY ONLY FieldInv, <2>6 DEF FieldInv
    <3>2. QED
      BY ONLY <2>1, <2>2, <2>6, <3>1 DEF FieldInv, Sending
  <2>7. QED
    BY <1>6, <2>3, <2>4, <2>5, <2>6 DEF Outside
<1>7. QED
  BY <1>1, <1>2, <1>3, <1>4, <1>5, <1>6, FieldPushHash, FieldLength, FieldHash, StepKinds

\* What a receiver reads is what was written.
LEMMA FieldRead ==
    ASSUME BlockInv, NEW e, NEW op, NEW n \in Nat, e.type \in {"b32", "l32", "b16", "b8"},
           Placed(buffer, offset, e, op, Width(e.type)), Written(buffer, e, n),
           Script[By(buffer, e)].type = e.type
    PROVE  FieldOf(By(buffer, e)) = n % Power[Width(e.type)]
<1>1. PICK w, p, i, type, bytes :
          /\ w \in Nat /\ w = Width(e.type) /\ p \in Nat /\ p = e.offset
          /\ i = By(buffer, e) /\ type = e.type /\ bytes = Cut(type, n)
  BY SizedTypes DEF Placed
<1>2. bytes \in Seq(0 .. Base - 1) /\ Len(bytes) = w /\ w > 0 /\ DOMAIN bytes = 1 .. w
  <2>1. type \in {"b32", "l32", "b16", "l16", "b8"}
    BY <1>1
  <2>2. bytes \in Seq(0 .. Base - 1) /\ Len(bytes) = Width(type) /\ Width(type) \in {1, 2, 4}
    BY <1>1, <2>1, CutBytes
  <2>3. w = Width(type)
    BY <1>1
  <2>4. QED
    BY ONLY <2>2, <2>3, SeqFacts
<1>3. Placed(buffer, offset, e, op, w)
  BY <1>1
<1>4. At(buffer, {i}) = p + 1 .. p + w
  BY <1>1 DEF Placed
<1>5. p + w <= Len(buffer)
  <2>1. w \in 1 .. w
    BY ONLY <1>2, w \in Nat
  <2>2. e.offset + w \in DOMAIN buffer
    BY ONLY <1>3, <2>1, EntryCells
  <2>3. QED
    BY <1>1, <2>2, BlockTypes
<1>6. buffer \in Seq(Cell)
  BY DEF BlockInv
<1>7. CellsIn({i}) = [k \in 1 .. w |-> buffer[p + k]]
  <2>1. p \in Nat /\ w \in Nat
    BY ONLY <1>1
  <2>2. QED
    BY ONLY <2>1, <1>4, <1>5, <1>6, CellsInRun
<1>8. Raw(CellsIn({i})) = [k \in 1 .. w |-> buffer[p + k].byte]
  BY ONLY <1>7 DEF Raw
<1>9. \A k \in 1 .. w : buffer[p + k].byte = bytes[k]
  BY ONLY <1>1, Written(buffer, e, n) DEF Written
<1>10. Raw(CellsIn({i})) = bytes
  BY ONLY <1>2, <1>8, <1>9
<1>11. FieldOf(i) = Value(IF type = "l32" THEN Reverse(bytes) ELSE bytes)
  <2>1. Script[i].type = type
    BY <1>1
  <2>2. QED
    BY ONLY <1>10, <2>1 DEF FieldOf
<1>12. type \in {"b32", "l32", "b16", "b8"}
  BY ONLY <1>1, e.type \in {"b32", "l32", "b16", "b8"}
<1>13. Value(IF type = "l32" THEN Reverse(Cut(type, n)) ELSE Cut(type, n)) = n % Power[Width(type)]
  BY ONLY <1>12, n \in Nat, CutValue
<1>14. QED
  BY ONLY <1>1, <1>11, <1>13

\* When the script is over, the cells of a block are its part of the buffer.
LEMMA BlockCells ==
    ASSUME BlockInv, offset = Len(Script) + 1, NEW b \in Blocks
    PROVE  /\ Find(b) \in BlockType /\ BlockEntry(buffer, offset, Find(b))
           /\ CellsOf(b) = Part(buffer, Find(b)) /\ Content(Find(b)) = CellsOf(b)
           /\ Len(CellsOf(b)) = Find(b).size /\ CellsOf(b) \in Seq(Cell)
<1>1. BeginOf[b] < offset
  <2>1. BeginOf[b] \in 1 .. Len(Script) /\ Len(Script) \in Nat
    BY BlockPlaces, Instruction
  <2>2. QED
    BY ONLY <2>1, offset = Len(Script) + 1
<1>2. PICK e : e = Find(b)
  OBVIOUS
<1>3. e \in BlockType /\ e.id = b /\ BlockEntry(buffer, offset, e)
  BY <1>1, <1>2, FindBlock
<1>4. PICK p \in Nat, n \in Nat : p = e.offset /\ n = e.size
  BY <1>3 DEF BlockType
<1>5. At(buffer, Between(b)) = p + 1 .. p + n /\ p + n <= Len(buffer)
  BY ONLY <1>3, <1>4 DEF BlockEntry
<1>6. /\ CellsIn(Between(b)) = SubSeq(buffer, p + 1, p + n)
      /\ CellsIn(Between(b)) \in Seq(Cell) /\ Len(CellsIn(Between(b))) = n
  <2>1. buffer \in Seq(Cell)
    BY DEF BlockInv
  <2>2. QED
    BY ONLY <1>5, <2>1, CellsInRun
<1>7. CellsOf(b) = CellsIn(Between(b))
  BY DEF CellsOf, Between
<1>8. Part(buffer, e) = SubSeq(buffer, p + 1, p + n) /\ Content(e) = SubSeq(buffer, p + 1, p + n)
  BY <1>4 DEF Part, Content
<1>9. QED
  BY ONLY <1>2, <1>3, <1>4, <1>6, <1>7, <1>8

\* The lengths and the hashes that are sent are those of the blocks.
LEMMA FieldsRead ==
    ASSUME PhaseInv, PassInv, BlockInv, PlaceInv, FieldInv
    PROVE  FieldsAgree
<1>1. SUFFICES ASSUME pc \in {"connect", "accept", "play", "select"}
               PROVE  /\ \A b \in Blocks : Content(Find(b)) = CellsOf(b)
                      /\ \A i \in DOMAIN Script :
                            /\ Script[i].op = "size" /\ Script[i].type \notin {"l16", "s16", "s10"} =>
                                  FieldOf(i) = Len(CellsOf(Script[i].block)) % Power[Width(Script[i].type)]
                            /\ IsHash(i) /\ (\A j \in i + 1 .. Len(Script) : IsHash(j) => ~Holds(Script[i].block, j)) =>
                                  FieldOf(i) = Digest(Raw(Blank(CellsOf(Script[i].block), i)))
  BY DEF FieldsAgree
<1>2. offset = Len(Script) + 1 /\ Len(Script) \in Nat /\ DOMAIN Script = 1 .. Len(Script)
  BY <1>1, AutodafeAssumption DEF PhaseInv, Sending
<1>3. /\ \A k \in DOMAIN length : Written(buffer, length[k], Find(length[k].id).size)
      /\ \A k \in DOMAIN hash : Sealed(buffer, hash[k], Find(hash[k].id))
  BY <1>1 DEF FieldInv, Sending
<1>4. \A b \in Blocks : Content(Find(b)) = CellsOf(b)
  BY <1>2, BlockCells
<1>5. \A i \in DOMAIN Script : i \in 1 .. offset - 1
  BY ONLY <1>2
<1>6. ASSUME NEW i \in DOMAIN Script, Script[i].op = "size", Script[i].type \notin {"l16", "s16", "s10"}
      PROVE  FieldOf(i) = Len(CellsOf(Script[i].block)) % Power[Width(Script[i].type)]
  <2>1. Script[i].type \in {"b32", "l32", "b16", "b8"}
    <3>1. Script[i] \in [op : {"size"}, block : Nat,
                         type : {"b32", "l32", "b16", "l16", "b8", "s16", "s10"}]
      BY <1>6, Instruction DEF Instructions
    <3>2. QED
      BY <1>6, <3>1
  <2>2. Sized(Script[i])
    BY <2>1, SizedTypes DEF Sized
  <2>3. PICK k \in DOMAIN length : Sized(length[k]) /\ By(buffer, length[k]) = i
    BY <1>5, <1>6, <2>2 DEF PlaceInv
  <2>4. PICK l : l = length[k]
    OBVIOUS
  <2>5. Placed(buffer, offset, l, "size", Width(l.type)) /\ Written(buffer, l, Find(l.id).size)
    BY <1>3, <2>3, <2>4 DEF PlaceInv
  <2>6. l.id = Script[i].block /\ l.type = Script[i].type
    BY <2>3, <2>4, <2>5 DEF Placed
  <2>7. l.id \in Blocks
    BY <1>6, <2>6, BlockPlaces
  <2>8. Len(CellsOf(l.id)) = Find(l.id).size /\ Find(l.id).size \in Nat
    BY <1>2, <2>7, BlockCells DEF BlockType
  <2>9. FieldOf(By(buffer, l)) = Find(l.id).size % Power[Width(l.type)]
    BY <2>1, <2>3, <2>4, <2>5, <2>6, <2>8, FieldRead
  <2>10. QED
    BY ONLY <2>3, <2>4, <2>6, <2>8, <2>9
<1>7. ASSUME NEW i \in DOMAIN Script, IsHash(i),
             \A j \in i + 1 .. Len(Script) : IsHash(j) => ~Holds(Script[i].block, j)
      PROVE  FieldOf(i) = Digest(Raw(Blank(CellsOf(Script[i].block), i)))
  <2>1. PICK k \in DOMAIN hash : By(buffer, hash[k]) = i
    BY <1>5, <1>7 DEF PlaceInv, IsHash
  <2>2. PICK h : h = hash[k]
    OBVIOUS
  <2>3. /\ Placed(buffer, offset, h, "crc", 4) /\ Sealed(buffer, h, Find(h.id))
        /\ h.type \in {"b32", "l32"}
    BY <1>3, <2>1, <2>2 DEF PlaceInv, PassInv
  <2>4. h.id = Script[i].block /\ h.type = Script[i].type
    BY <2>1, <2>2, <2>3 DEF Placed
  <2>5. h.id \in Blocks
    BY <1>7, <2>4, BlockPlaces DEF IsHash
  <2>6. LastIn(buffer, h)
    BY <1>7, <2>1, <2>2, <2>4 DEF LastIn
  <2>7. CellsOf(h.id) = Part(buffer, Find(h.id)) /\ CellsOf(h.id) \in Seq(Cell)
    BY <1>2, <2>5, BlockCells
  <2>8. PICK n : n = Digest(Raw(Blank(CellsOf(h.id), i)))
    OBVIOUS
  <2>9. Written(buffer, h, n)
    BY <2>1, <2>2, <2>3, <2>6, <2>7, <2>8 DEF Sealed
  <2>10. n \in 0 .. Power[4] - 1
    <3>1. Raw(Blank(CellsOf(h.id), i)) \in Seq(Nat)
      BY <2>7, BlankBytes
    <3>2. QED
      BY <2>8, <3>1, DigestType
  <2>11. Width(h.type) = 4
    BY <2>3 DEF Width
  <2>12. FieldOf(By(buffer, h)) = n % Power[Width(h.type)]
    <3>1. n \in Nat /\ h.type \in {"b32", "l32", "b16", "b8"} /\ Script[By(buffer, h)].type = h.type
      BY <2>1, <2>2, <2>3, <2>4, <2>10, Powers
    <3>2. Placed(buffer, offset, h, "crc", Width(h.type))
      BY <2>3, <2>11
    <3>3. QED
      BY <2>9, <3>1, <3>2, FieldRead
  <2>13. n % Power[4] = n
    <3>1. Power[4] \in Nat \ {0} /\ 4 \in 0 .. 4
      BY Powers
    <3>2. n = Power[4] * 0 + n /\ n \in Nat
      BY ONLY <2>10, <3>1
    <3>3. QED
      BY ONLY <2>10, <3>1, <3>2, Remainder
  <2>14. QED
    BY ONLY <2>1, <2>2, <2>4, <2>8, <2>11, <2>12, <2>13
<1>8. QED
  BY ONLY <1>4, <1>6, <1>7

\* The inductive invariant.
SentInv == CaseInv /\ BlockInv /\ PlaceInv /\ FieldInv

\* What is sent is consistent, whatever the script and the case: every block is sent from its
\* begin to its end, with the length of what is sent in its length fields and the digest in
\* its hashes, however the blocks are nested and the fields are in them.
THEOREM SentFieldsAgree == Spec => []FieldsAgree
<1>1. Init => SentInv
  <2>1. SUFFICES ASSUME Init PROVE SentInv
    OBVIOUS
  <2>2. CaseInv
    BY <2>1, InitCases
  <2>3. /\ buffer = <<>> /\ block = <<>> /\ length = <<>> /\ hash = <<>> /\ offset = 1
    BY <2>1 DEF Init
  <2>4. BlockInv
    BY <2>3, BlockEmpty
  <2>5. DOMAIN length = {} /\ DOMAIN hash = {} /\ 1 .. offset - 1 = {}
    BY ONLY <2>3
  <2>6. PlaceInv /\ FieldInv
    BY ONLY <2>5 DEF PlaceInv, FieldInv
  <2>7. QED
    BY <2>2, <2>4, <2>6 DEF SentInv
<1>2. SentInv /\ [Next]_vars => SentInv'
  <2>1. ASSUME SentInv, Next PROVE SentInv'
    <3>1. TypeOK /\ Typed /\ SeqInv /\ PhaseInv /\ PassInv /\ CaseInv /\ BlockInv /\ PlaceInv /\ FieldInv
      BY <2>1 DEF SentInv, CaseInv
    <3>2. CaseInv'
      BY <2>1, <3>1, CasesStep
    <3>3. BlockInv' /\ PlaceInv' /\ FieldInv'
      BY <2>1, <3>1, BlockStep, PlaceStep, FieldStep
    <3>4. QED
      BY ONLY <3>2, <3>3 DEF SentInv
  <2>2. ASSUME SentInv, UNCHANGED vars PROVE SentInv'
    <3>1. CaseInv'
      BY <2>2, StutterCases DEF SentInv
    <3>2. UNCHANGED <<pc, count, offset, buffer, block, length, hash>>
      BY <2>2 DEF vars, lists
    <3>3. BlockInv'
      BY <2>2, <3>2 DEF SentInv, BlockInv, BlockEntry, At
    <3>4. PlaceInv'
      BY <2>2, <3>2 DEF SentInv, PlaceInv, Placed, By, At
    <3>5. FieldInv'
      <4>1. \A id : Find(id)' = Find(id)
        BY <3>2 DEF Find
      <4>2. QED
        BY <2>2, <3>2, <4>1 DEF SentInv, FieldInv
    <3>6. QED
      BY ONLY <3>1, <3>3, <3>4, <3>5 DEF SentInv
  <2>3. QED
    BY <2>1, <2>2
<1>3. SentInv => FieldsAgree
  BY FieldsRead DEF SentInv, CaseInv
<1>4. QED
  BY <1>1, <1>2, <1>3, PTL DEF Spec

=============================================================================
