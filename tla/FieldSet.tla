------------------------------ MODULE FieldSet ------------------------------
(***************************************************************************)
(* Field sets of hachoir-core (field/generic_field_set.py): a parser and a *)
(* field set in it, both fed lazily by their generators createFields().    *)
(*                                                                         *)
(* Fields are created when somebody asks for them: for a number of fields, *)
(* a name, all of them, or the next one of an iteration.  A set whose size *)
(* is not given is fed completely when it is added to the parser.  A field *)
(* that is too large, an error of a generator and the end of the stream    *)
(* are repaired (autofix).  The size of a stream that is a pipe is only    *)
(* known when a read meets its end; the parser is truncated then.          *)
(***************************************************************************)
EXTENDS Integers, Sequences, FiniteSets, SequencesExt

CONSTANTS
    RootScripts,    \* what createFields() of the parser may yield: sequences of items
    SubScripts,     \* and that of the set in it
    SubSizes,       \* sizes that may be given to the set, or Unknown
    StreamSize,     \* size of the stream
    Unknown         \* None

Sets == {"root", "sub"}
Kinds == {"data", "set", "error"}
Items == [kind : Kinds, size : Nat]

ASSUME FieldSetAssumption ==
    /\ RootScripts \subseteq Seq(Items) /\ SubScripts \subseteq Seq(Items)
    /\ \A items \in SubScripts : \A i \in DOMAIN items : items[i].kind # "set"
    /\ \A items \in RootScripts : \A i, j \in DOMAIN items :
          items[i].kind = "set" /\ items[j].kind = "set" => i = j
    /\ StreamSize \in Nat \ {0} /\ Unknown \notin Int
    /\ SubSizes \subseteq (Nat \ {0}) \cup {Unknown}

VARIABLES
    script,         \* what the generator of a set yields
    given,          \* the size that is given to the set in the parser
    autofix,        \* config.autofix
    piped,          \* the size of the stream was not known at the beginning
    tree,           \* of a set: _fields, _size, _current_size, _field_generator
    address,        \* _address of the set in the parser
    goal,           \* what a set is fed for: see Goals
    adding,         \* the parser is in _addField with the other set
    answer,         \* how the last feeding has ended: see Answers
    iter,           \* an iteration of the parser, __iter__: see Iterations
    seen,           \* history: the fields that the iteration has yielded
    kept,           \* history: the set was kept although its generator has raised
    edited          \* history: a field was replaced

inputs == <<script, given, autofix, piped>>
vars == <<inputs, tree, address, goal, adding, answer, iter, seen, kept, edited>>

\* A generator is the number of its next item, one more than its items when it has
\* ended, and Done when the set has dropped it.
Done == 0
Idle == [want |-> "nothing", n |-> 0]
Goals == [want : {"nothing", "all", "count", "item", "next"}, n : Nat]
Answers == {"none", "ok", "error"}

\* An iteration that is off, suspended, feeding the parser, at its end, broken by an
\* exception, or spinning in its loop; done fields were yielded, then comes snap.
Iterations == {"off", "at", "feeding", "ended", "failed", "spinning"}

\* A field; the name of an item is its number.
RawName == -1       \* "raw[]"
PadName == -2       \* "padding[0]"
NewName == -3       \* a field that replaces a part of another
PadAfter == -4      \* "padding[1]"
Field(name, kind, where, size) == [name |-> name, kind |-> kind, address |-> where, size |-> size]

Empty(size) == [fields |-> <<>>, size |-> size, current |-> 0, gen |-> 1]

Init ==
    /\ script \in [root : RootScripts, sub : SubScripts]
    /\ given \in SubSizes
    /\ autofix \in BOOLEAN /\ piped \in BOOLEAN
    /\ tree = [root |-> Empty(IF piped THEN Unknown ELSE StreamSize), sub |-> Empty(given)]
    /\ address = 0
    /\ goal = [s \in Sets |-> Idle] /\ adding = FALSE /\ answer = "none"
    /\ iter = [state |-> "off", done |-> 0, snap |-> <<>>] /\ seen = <<>>
    /\ kept = FALSE /\ edited = FALSE

-----------------------------------------------------------------------------
\* Operators on a tree t.

SizeOf(t, f) == IF f.kind = "set" THEN t.sub.size ELSE f.size

AddTo(t, s, f) ==
    [t EXCEPT ![s].fields = Append(@, f), ![s].current = @ + SizeOf(t, f)]

\* _checkSize, not strict: what is left behind a position, or Unknown.
Room(t, s, where, position) ==
    IF t[s].size # Unknown THEN t[s].size - position
    ELSE IF s = "sub" /\ t.root.size # Unknown THEN t.root.size - (where + position)
    ELSE Unknown

\* _truncate: fields are deleted from the end while they begin behind the size; the last
\* one that remains may be cut.
Before(fields, size) ==
    SubSeq(fields, 1, Max({0} \cup {i \in DOMAIN fields : fields[i].address < size}))
KeepsLast(t, s, size) ==   \* a plausible error: the field that is cut keeps its size
    [t EXCEPT ![s].size = size, ![s].current = size,
              ![s].fields = Before(@, size)]
CutLast(t, s, size) ==
    LET fields == Before(t[s].fields, size)
        last == Last(fields)
        rest == size - last.address
    IN [t EXCEPT ![s].size = size, ![s].current = size,
                 ![s].fields = IF rest < SizeOf(t, last) /\ last.kind # "set"
                               THEN Append(Front(fields), Field(RawName, "data", last.address, rest))
                               ELSE fields]
TruncateOne(t, s, size) ==
    LET cut == IF size < t[s].current THEN CutLast(t, s, size) ELSE [t EXCEPT ![s].size = size]
    IN [cut EXCEPT ![s].gen = IF cut[s].size = cut[s].current THEN Done ELSE @]
Truncate(t, s, size) ==
    LET cut == TruncateOne(t, s, size)
        last == Last(cut[s].fields)
    IN IF cut[s].fields # <<>> /\ last.kind = "set" /\ size - last.address < t.sub.size
       THEN TruncateOne(cut, "sub", size - last.address)
       ELSE cut

\* _fixLastField: the fields that do not fit are deleted, the rest is a raw field.
Fitting(t, s) ==
    LET fields == t[s].fields
        fits == {i \in DOMAIN fields : fields[i].address + SizeOf(t, fields[i]) <= t[s].size}
    IN SubSeq(fields, 1, Max({0} \cup fits))
FixLast(t, s) ==
    LET fields == IF t[s].size < t[s].current THEN Fitting(t, s) ELSE t[s].fields
        filled == IF fields = <<>> THEN 0 ELSE Last(fields).address + SizeOf(t, Last(fields))
        rest == t[s].size - filled
    IN [t EXCEPT ![s].gen = Done, ![s].current = t[s].size,
                 ![s].fields = IF rest = 0 THEN fields
                               ELSE Append(fields, Field(RawName, "data", filled, rest))]

\* _stopFeeding; StopFails is its ParserError.
StopFails(t, s) == t[s].size # Unknown /\ t[s].size # t[s].current /\ ~autofix
StopFeeding(t, s) ==
    IF t[s].size = Unknown
    THEN [t EXCEPT ![s].gen = Done, ![s].size = IF s = "sub" THEN t[s].current ELSE @]
    ELSE IF t[s].size = t[s].current THEN [t EXCEPT ![s].gen = Done]
    ELSE FixLast(t, s)

\* _fixFeedError; ErrorStays is its answer False.
ErrorStays(t, s) == t[s].size = Unknown \/ ~autofix

Has(t, s, name) == \E i \in DOMAIN t[s].fields : t[s].fields[i].name = name
Present == \E i \in DOMAIN tree.root.fields : tree.root.fields[i].kind = "set"

\* lowerBound, as getFieldByAddress calls it: how many fields end at an address or before.
LowerBound(t, s, where) ==
    LET size == Len(t[s].fields)
        EndsBefore(i) == t[s].fields[i].address + SizeOf(t, t[s].fields[i]) <= where
        Ranges == {r \in (0..size) \X (0..size) : r[1] + r[2] <= size}
        search[r \in Ranges] ==
            IF r[2] = 0 THEN r[1]
            ELSE LET half == r[2] \div 2
                     middle == r[1] + half + 1
                 IN IF EndsBefore(middle) THEN search[<<middle, r[2] - (half + 1)>>]
                    ELSE search[<<r[1], half>>]
    IN search[<<0, size>>]

-----------------------------------------------------------------------------
\* Feeding.  One of the sets is being fed: the set that is added, or that of the call.

Fed(s) == goal[s] # Idle /\ (s = "root" => ~adding)
AtRest == goal = [s \in Sets |-> Idle] /\ ~adding /\ iter.state # "feeding"

\* The loop of the call is left, after t was made of s; an iteration yields the raw field
\* that was added for it, if there is one.
Leave(s, old, t, outcome) ==
    /\ tree' = t /\ answer' = outcome /\ goal' = [goal EXCEPT ![s] = Idle]
    /\ IF goal[s].want = "next"
       THEN /\ iter' = [iter EXCEPT !.state = IF outcome = "ok" THEN "ended" ELSE "failed"]
            /\ seen' = IF ~Has(old, s, RawName) /\ Has(t, s, RawName)
                       THEN Append(seen, Last(t[s].fields)) ELSE seen
       ELSE UNCHANGED <<iter, seen>>

\* except StopIteration, and except HACHOIR_ERRORS.
OnStop(s, t) == IF StopFails(t, s) THEN Leave(s, t, t, "error") ELSE Leave(s, t, StopFeeding(t, s), "ok")
OnError(s, t) == IF ErrorStays(t, s) THEN Leave(s, t, t, "error") ELSE Leave(s, t, FixLast(t, s), "ok")

\* The field is in _fields: the call goes on, or has what it wants.
OnAdded(s, t, name) ==
    /\ tree' = t
    /\ goal' = [goal EXCEPT ![s] = CASE @.want = "all" -> @
                                      [] @.want = "count" /\ @.n > 1 -> [@ EXCEPT !.n = @ - 1]
                                      [] @.want = "item" /\ @.n # name -> @
                                      [] OTHER -> Idle]
    /\ answer' = IF goal'[s] = Idle THEN "ok" ELSE answer
    /\ UNCHANGED <<iter, seen>>

\* A field that is not a set and too large: rest is what is left for it.
TooLarge(s, t, rest) ==
    IF autofix /\ t[s].current > 0
    THEN OnStop(s, IF rest > 0 /\ t[s].size = Unknown
                   THEN [t EXCEPT ![s].size = t[s].current + rest] ELSE t)
    ELSE OnError(s, t)

NextItem(s) == script[s][tree[s].gen]
HasItem(s) == tree[s].gen # Done /\ tree[s].gen <= Len(script[s])
Advanced(s) == [tree EXCEPT ![s].gen = @ + 1]

\* createFields() returns; the set may have dropped its generator in the meantime, which
\* is an AttributeError.
GenEnds(s) ==
    /\ Fed(s) /\ ~HasItem(s)
    /\ IF tree[s].gen = Done THEN OnError(s, tree) ELSE OnStop(s, tree)
    /\ UNCHANGED <<inputs, address, adding, kept, edited>>

\* createFields() raises an error, and is finished.
GenFails(s) ==
    /\ Fed(s) /\ HasItem(s) /\ NextItem(s).kind = "error"
    /\ OnError(s, [tree EXCEPT ![s].gen = Len(script[s]) + 1])
    /\ UNCHANGED <<inputs, address, adding, kept, edited>>

\* _addField with a field that is not a set.
AddData(s) ==
    /\ Fed(s) /\ HasItem(s) /\ NextItem(s).kind = "data"
    /\ LET at == tree[s].current
           size == NextItem(s).size
           room == Room(tree, s, address, at + size)
       IN IF room # Unknown /\ room < 0
          THEN TooLarge(s, Advanced(s), size + room)
          ELSE OnAdded(s, AddTo(Advanced(s), s, Field(tree[s].gen, "data", at, size)), tree[s].gen)
    /\ UNCHANGED <<inputs, address, adding, kept, edited>>

\* _addField with a set: its size is asked for, which feeds it when it is not given.
OpenSet ==
    /\ Fed("root") /\ HasItem("root") /\ NextItem("root").kind = "set"
    /\ tree' = [Advanced("root") EXCEPT !.sub = Empty(given)]
    /\ address' = tree.root.current /\ adding' = TRUE
    /\ goal' = [goal EXCEPT !.sub = IF given = Unknown THEN [want |-> "all", n |-> 0] ELSE Idle]
    /\ answer' = "ok"
    /\ UNCHANGED <<inputs, iter, seen, kept, edited>>

\* The end of _addField with a set, which was fed if its size was not given.
SetName == CHOOSE i \in DOMAIN script.root : script.root[i].kind = "set"
InsertSet(t, raised) ==
    LET added == AddTo(t, "root", Field(SetName, "set", address, 0))
    IN IF raised THEN OnStop("root", added) ELSE OnAdded("root", added, SetName)
FitSet(t, raised) ==
    LET size == t.sub.size
        room == Room(t, "root", 0, address + size)
        tight == room # Unknown /\ room < 0
    IN IF ~tight /\ size > 0 THEN InsertSet(t, raised) /\ kept' = raised
       ELSE IF ~autofix \/ t.root.current = 0 \/ room = Unknown
            THEN OnError("root", t) /\ UNCHANGED kept
       ELSE IF size > 0 /\ size + room > 0
            THEN InsertSet(TruncateOne(t, "sub", size + room), raised) /\ kept' = raised
       ELSE OnStop("root", t) /\ UNCHANGED kept

\* eof reads one bit more, and the size of a pipe is known if that fails.
Looked == IF tree.root.size = Unknown /\ address + tree.sub.current + 1 > StreamSize
          THEN Truncate(tree, "root", StreamSize) ELSE tree
KeepsAny(t) == TRUE         \* a plausible error: any set with an error is kept
Eof(t) == t.root.size # Unknown /\ t.root.size < address + t.sub.current + 1

FinishAdd ==
    /\ adding /\ goal.sub = Idle
    /\ adding' = FALSE
    /\ IF answer # "error" THEN FitSet(tree, FALSE)
       ELSE IF tree.sub.fields = <<>> THEN OnError("root", tree) /\ UNCHANGED kept
       ELSE IF Eof(Looked) THEN FitSet(StopFeeding(Looked, "sub"), TRUE)
       ELSE OnError("root", tree) /\ UNCHANGED kept
    /\ UNCHANGED <<inputs, address, edited>>

-----------------------------------------------------------------------------
\* Calls, for the parser and for the set once it is a field.

\* _feedAll, readMoreFields, and _feedUntil for a name that is not there.
Call(s, g) ==
    /\ AtRest /\ (s = "sub" => Present) /\ tree[s].gen # Done
    /\ g.want = "item" => ~Has(tree, s, g.n)
    /\ goal' = [goal EXCEPT ![s] = g]
    /\ UNCHANGED <<inputs, tree, address, adding, answer, iter, seen, kept, edited>>

Requests(s) == {[want |-> "all", n |-> 0]}
                 \cup [want : {"count"}, n : 1..2]
                 \cup [want : {"item"}, n : 1..(Len(script[s]) + 1)]

\* The next step of an iteration, which is suspended in a yield.
CountsLate(fields) ==       \* a plausible error: done is not counted for the last field
    /\ seen' = Append(seen, Head(fields))
    /\ iter' = [state |-> "at", snap |-> Tail(fields),
                done |-> IF Len(fields) > 1 THEN iter.done + 1 ELSE iter.done]
    /\ UNCHANGED goal
Yield(fields) ==
    /\ seen' = Append(seen, Head(fields))
    /\ iter' = [state |-> "at", done |-> iter.done + 1, snap |-> Tail(fields)]
    /\ UNCHANGED goal
IterNext ==
    /\ iter.state \in {"off", "at", "feeding"}
    /\ goal = [s \in Sets |-> Idle] /\ ~adding
    /\ LET total == Len(tree.root.fields)
       IN \/ iter.snap # <<>> /\ Yield(iter.snap)
          \/ /\ iter.snap = <<>> /\ iter.done < total
             /\ Yield(SubSeq(tree.root.fields, iter.done + 1, total))
          \/ /\ iter.snap = <<>> /\ iter.done = total /\ tree.root.gen # Done
             /\ goal' = [goal EXCEPT !.root = [want |-> "next", n |-> 0]]
             /\ iter' = [iter EXCEPT !.state = "feeding"] /\ UNCHANGED seen
          \/ /\ iter.snap = <<>> /\ iter.done >= total /\ (iter.done = total => tree.root.gen = Done)
             /\ iter' = [iter EXCEPT !.state = IF iter.done > total THEN "spinning" ELSE "ended"]
             /\ UNCHANGED <<goal, seen>>
    /\ UNCHANGED <<inputs, tree, address, adding, answer, kept, edited>>

\* The size of a pipe becomes known when a read meets its end: _setSize of the parser.
Discover ==
    /\ piped /\ tree.root.size = Unknown
    /\ tree' = Truncate(tree, "root", StreamSize)
    /\ UNCHANGED <<inputs, address, goal, adding, answer, iter, seen, kept, edited>>

\* writeFieldsIn: a part of a field of the parser is replaced, the rest of it is padding.
WriteFieldsIn(i, offset, size) ==
    /\ AtRest /\ ~edited
    /\ LET old == tree.root.fields[i]
           Part(name, from, to) == IF from < to
               THEN <<Field(name, "data", old.address + from, to - from)>> ELSE <<>>
           parts == Part(PadName, 0, offset) \o Part(NewName, offset, offset + size)
                      \o Part(PadAfter, offset + size, old.size)
       IN /\ old.kind = "data" /\ offset + size <= old.size
          /\ tree' = [tree EXCEPT !.root.fields =
                        SubSeq(@, 1, i - 1) \o parts \o SubSeq(@, i + 1, Len(@))]
    /\ edited' = TRUE
    /\ UNCHANGED <<inputs, address, goal, adding, answer, iter, seen, kept>>

Next ==
    \/ \E s \in Sets : GenEnds(s) \/ GenFails(s) \/ AddData(s)
    \/ OpenSet \/ FinishAdd \/ IterNext \/ Discover
    \/ \E s \in Sets : \E g \in Requests(s) : Call(s, g)
    \/ \E i \in DOMAIN tree.root.fields : \E offset \in 0..1 : WriteFieldsIn(i, offset, 1)

Spec == Init /\ [][Next]_vars

-----------------------------------------------------------------------------
Names == {RawName, PadName, NewName, PadAfter} \cup Nat
Fields == [name : Names, kind : {"data", "set"}, address : Nat, size : Nat]
OptSize == Nat \cup {Unknown}

(* The types of the variables. *)
TypeOK ==
    /\ DOMAIN tree = Sets
    /\ \A s \in Sets :
          /\ tree[s].fields \in Seq(Fields) /\ tree[s].size \in OptSize
          /\ tree[s].current \in Nat /\ tree[s].gen \in 0..(Len(script[s]) + 1)
    /\ address \in Nat /\ goal \in [Sets -> Goals] /\ adding \in BOOLEAN
    /\ answer \in Answers /\ iter.state \in Iterations /\ iter.done \in Nat
    /\ iter.snap \in Seq(Fields) /\ seen \in Seq(Fields)
    /\ kept \in BOOLEAN /\ edited \in BOOLEAN

(* After any calls, truncations, repairs and replacements, the fields of a *)
(* set that is not being added follow each other without a gap or an       *)
(* overlap, with names of their own; _current_size is their sum and within *)
(* the size, a set that is complete is exactly filled if the size of the   *)
(* stream was known, and the search of getFieldByAddress finds the field   *)
(* that holds an address.                                                  *)
End(s, i) == tree[s].fields[i].address + SizeOf(tree, tree[s].fields[i])
Contiguous ==
  /\ TypeOK
  /\ \A s \in {"root"} \cup (IF Present THEN {"sub"} ELSE {}) :
        LET fields == tree[s].fields
            current == tree[s].current
        IN /\ \A i \in DOMAIN fields :
                 /\ fields[i].address = IF i = 1 THEN 0 ELSE End(s, i - 1)
                 /\ \A j \in DOMAIN fields : fields[i].name = fields[j].name => i = j
           /\ current = IF fields = <<>> THEN 0 ELSE End(s, Len(fields))
           /\ tree[s].size # Unknown => current <= tree[s].size
           /\ ~piped /\ tree[s].gen = Done => tree[s].size = current
           /\ \A where \in 0..(current - 1) :
                 LET i == LowerBound(tree, s, where) + 1
                 IN i \in DOMAIN fields /\ fields[i].address <= where /\ where < End(s, i)

\* What a complete parser of a stream of known size holds, whoever asked for what and when:
\* the first items that fit, up to one that fails, then a raw field for the rest.
Sum(items, n) ==
    LET sum[k \in 0..n] == IF k = 0 THEN 0 ELSE sum[k - 1] + items[k].size
    IN sum[n]
Fits(items, n, limit) ==
    (\A i \in 1..n : items[i].kind # "error") /\ Sum(items, n) <= limit
Lead(items, limit) ==
    CHOOSE n \in 0..Len(items) :
        Fits(items, n, limit) /\ (n < Len(items) => ~Fits(items, n + 1, limit))
Filled(items, span) ==
    LET n == Lead(items, span)
        sum == Sum(items, n)
    IN [i \in 1..n |-> Field(i, items[i].kind, Sum(items, i - 1),
                             IF items[i].kind = "set" THEN 0 ELSE items[i].size)]
         \o (IF sum = span THEN <<>> ELSE <<Field(RawName, "data", sum, span - sum)>>)

\* What is left of the stream behind an address.
Behind(where) == IF where < StreamSize THEN StreamSize - where ELSE 0

\* The set, at an address: whether its generator fails before it has its size, and the size
\* that it gets; 0 if it is not kept.
SetFails(where) ==
    LET n == Lead(script.sub, Behind(where))
    IN given = Unknown /\ n < Len(script.sub) /\ script.sub[n + 1].kind = "error"
SetSpan(where) ==
    LET left == Behind(where)
        n == Lead(script.sub, left)
        sum == Sum(script.sub, n)
    IN IF given # Unknown THEN IF given <= left THEN given ELSE IF where > 0 THEN left ELSE 0
       ELSE IF n = Len(script.sub) THEN sum
       ELSE IF SetFails(where) THEN IF sum = left THEN sum ELSE 0
       ELSE IF sum > 0 THEN left ELSE 0

\* The items of the parser, with the set as one of that size: an error if it is not kept,
\* and the last one if its generator fails.
ParserItems ==
    IF \A i \in DOMAIN script.root : script.root[i].kind # "set" THEN script.root
    ELSE LET where == Sum(script.root, SetName - 1)
             span == SetSpan(where)
         IN [i \in DOMAIN script.root |->
               IF i < SetName \/ (i > SetName /\ ~SetFails(where)) THEN script.root[i]
               ELSE IF i = SetName /\ span > 0 THEN [kind |-> "set", size |-> span]
               ELSE [kind |-> "error", size |-> 0]]

(* With autofix and a stream of known size, what a complete parser holds   *)
(* does not depend on who asked for which fields in which order, nor on    *)
(* where an iteration was suspended: the fields that fit in the stream,    *)
(* then a raw field for what the parser could not make of the rest.        *)
SameParse ==
    autofix /\ ~piped /\ ~edited =>
        /\ tree.root.gen = Done => tree.root.fields = Filled(ParserItems, StreamSize)
        /\ Present => /\ tree.sub.size = SetSpan(address)
                      /\ tree.sub.gen = Done => tree.sub.fields = Filled(script.sub, tree.sub.size)

(* An iteration yields the fields of the parser in their order and each    *)
(* one once, whatever other calls add while it is suspended, and all of    *)
(* them when it ends, if the size of the stream is known, no field was     *)
(* replaced and no set with an error was kept.                             *)
YieldsInOrder ==
    ~piped /\ ~edited =>
        /\ iter.state # "spinning" /\ IsPrefix(seen, tree.root.fields)
        /\ iter.state = "ended" /\ ~kept => Len(seen) = Len(tree.root.fields)
=============================================================================
