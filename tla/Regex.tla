-------------------------------- MODULE Regex --------------------------------
(***************************************************************************)
(* The algebra of hachoir_regex/regex.py: a & b, a | b and RegexRepeat      *)
(* build new expressions out of old ones and simplify them on the way.     *)
(*                                                                         *)
(* Expressions are objects that share their parts, and a & b changes the   *)
(* list of parts of a RegexAnd in place, so they live in a heap and an      *)
(* expression is its place there.  An operator that may build or change     *)
(* objects returns the new heap (h) and an expression (r).                  *)
(*                                                                         *)
(* The letters are the numbers ord() gives them, all of them letters of a   *)
(* word for \b.  The texts (_str, escapeRegex) are left out.                *)
(***************************************************************************)
EXTENDS Integers, Sequences, FiniteSets, SequencesExt

CONSTANTS
    Letters,        \* the alphabet, an interval of numbers
    MaxWord,        \* the words over which expressions are compared
    Pool,           \* the expressions there are at first, as calls that make them
    Repeats,        \* the <<rmin, rmax>> of the calls of RegexRepeat
    NoLimit,        \* rmax = None
    CallBound

ASSUME RegexAssumption ==
    /\ Letters \subseteq Nat /\ MaxWord \in Nat /\ CallBound \in Nat
    /\ NoLimit \notin Nat /\ \A m \in Repeats : m[1] \in Nat /\ m[2] \in Nat \cup {NoLimit}

VARIABLES
    heap,           \* the objects
    made,           \* the expressions that the program holds, in the order of making
    call            \* the last call

vars == <<heap, made, call>>

-----------------------------------------------------------------------------
(* Objects.                                                                *)

None == 0               \* the None of _and, or_, _or_ and findPrefix
Raised == -1            \* a ValueError of RegexRepeat
New(h, object) == [h |-> Append(h, object), r |-> Len(h) + 1]
Is(h, r) == [h |-> h, r |-> r]
Nothing(h) == Is(h, None)

\* The next call, with what the last one gave, and the "if new_regex: return new_regex".
With(got, F(_)) == F(got)
Unless(got, F(_)) == IF got.r # None THEN got ELSE F(got.h)

Atom(cls) == [cls |-> cls]
Item(cmin, cmax) == [cls |-> "Item", cmin |-> cmin, cmax |-> cmax]
\* The ranges are a list, which is sorted, or a tuple (optimize=False).
Ranged(ranges, exclude, optimize) ==
    [cls |-> "Range", ranges |-> ranges, exclude |-> exclude, list |-> optimize]
AndOf(items) == [cls |-> "And", items |-> items]
OrOf(items) == [cls |-> "Or", items |-> items]
RepeatOf(regex, rmin, rmax) == [cls |-> "Repeat", regex |-> regex, min |-> rmin, max |-> rmax]

CreateString(h, text) ==
    New(h, IF text = <<>> THEN Atom("Empty") ELSE [cls |-> "String", text |-> text])
IsLetter(h, r) == h[r].cls = "String" /\ Len(h[r].text) = 1

\* a == b.  The items of a range have no __eq__: they are equal if they are the same
\* objects, and a list is not equal to a tuple.
RECURSIVE Equal(_, _, _)
Equal(h, a, b) ==
    LET x == h[a]
        y == h[b]
    IN /\ x.cls = y.cls
       /\ CASE x.cls = "String" -> x.text = y.text
            [] x.cls = "Range" -> x = y
            [] x.cls \in {"And", "Or"} ->
                  /\ Len(x.items) = Len(y.items)
                  /\ \A i \in DOMAIN x.items : Equal(h, x.items[i], y.items[i])
            [] x.cls = "Repeat" -> x.min = y.min /\ x.max = y.max /\ Equal(h, x.regex, y.regex)
            [] OTHER -> TRUE

\* matchSingleValue
RECURSIVE SingleValue(_, _)
SingleValue(h, r) ==
    CASE h[r].cls \in {"Empty", "String", "Start", "End"} -> TRUE
      [] h[r].cls = "And" -> \A i \in DOMAIN h[r].items : SingleValue(h, h[r].items[i])
      [] h[r].cls = "Range" ->
            Len(h[r].ranges) = 1 /\ h[h[r].ranges[1]].cmin = h[h[r].ranges[1]].cmax
      [] OTHER -> FALSE

-----------------------------------------------------------------------------
(* Ranges.                                                                 *)

Inside(x, y) == y.cmin <= x.cmin /\ x.cmax <= y.cmax
Adjacent(x, y) == x.cmax + 1 = y.cmin \/ y.cmax + 1 = x.cmin

\* rangeAdd: an item that meets a range of the list is merged with it and added anew.
RECURSIVE RangeAdd(_, _, _)
RangeAdd(h, ranges, item) ==
    LET meets == {i \in DOMAIN ranges :
                    \/ Inside(h[ranges[i]], h[item]) \/ Inside(h[item], h[ranges[i]])
                    \/ Adjacent(h[ranges[i]], h[item])}
        i == CHOOSE n \in meets : \A k \in meets : n <= k
        x == h[ranges[i]]
        y == h[item]
        merged == New(h, Item(IF x.cmin < y.cmin THEN x.cmin ELSE y.cmin,
                              IF x.cmax < y.cmax THEN y.cmax ELSE x.cmax))
    IN IF meets = {} THEN [h |-> h, ranges |-> Append(ranges, item)]
       ELSE IF Inside(x, y) THEN RangeAdd(h, RemoveAt(ranges, i), item)
       ELSE IF Inside(y, x) THEN [h |-> h, ranges |-> ranges]
       ELSE RangeAdd(merged.h, RemoveAt(ranges, i), merged.r)

RangeAddAll(h, ranges, items) ==
    FoldLeft(LAMBDA got, item : RangeAdd(got.h, got.ranges, item),
             [h |-> h, ranges |-> ranges], items)

\* createRange
CreateRange(h, letters, exclude) ==
    LET items == [i \in DOMAIN letters |-> Item(letters[i], letters[i])]
        got == RangeAddAll(h \o items, <<>>, [i \in DOMAIN letters |-> Len(h) + i])
        Before(x, y) == got.h[x].cmin < got.h[y].cmin
    IN New(got.h, Ranged(SortSeq(got.ranges, Before), exclude, TRUE))

\* The ranges that b adds to the range a; a single letter counts as one.
Combines(h, a, b) ==
    \/ ~h[a].exclude /\ IsLetter(h, b)
    \/ h[b].cls = "Range" /\ h[a].exclude = h[b].exclude
RangesOf(h, b) ==
    IF h[b].cls = "Range" THEN [h |-> h, ranges |-> h[b].ranges]
    ELSE LET letter == New(h, Item(h[b].text[1], h[b].text[1]))
         IN [h |-> letter.h, ranges |-> <<letter.r>>]

\* _match
Matches(h, a, b) ==
    \/ h[a].cls = "Dot" /\ (h[b].cls = "Range" \/ IsLetter(h, b))
    \/ /\ h[a].cls = "Range" /\ Combines(h, a, b)
       /\ LET other == RangesOf(h, b)
          IN \A i \in DOMAIN other.ranges : \E k \in DOMAIN h[a].ranges :
                Inside(other.h[other.ranges[i]], other.h[h[a].ranges[k]])

\* Mutant: the ranges of a are not copied.
ExtendRange(h, a, b) ==
    LET other == RangesOf(h, b)
        got == RangeAddAll(other.h, h[a].ranges, other.ranges)
    IN IF Combines(h, a, b)
       THEN New([got.h EXCEPT ![a].ranges = got.ranges], Ranged(got.ranges, h[a].exclude, FALSE))
       ELSE Nothing(h)
OrRange(h, a, b) ==
    LET other == RangesOf(h, b)
        got == RangeAddAll(other.h, h[a].ranges, other.ranges)
    IN IF Combines(h, a, b) THEN New(got.h, Ranged(got.ranges, h[a].exclude, FALSE))
       ELSE Nothing(h)

-----------------------------------------------------------------------------
(* a & b.                                                                  *)

RECURSIVE _And(_, _, _), And(_, _, _)
And(h, a, b) ==
    IF h[b].cls = "Empty" THEN Is(h, a)
    ELSE Unless(_And(h, a, b), LAMBDA k : New(k, AndOf(<<a, b>>)))

\* a._and(b).  The parts of b are read while a, which may be b, is changed.
AndParts(h, a, b) ==
    FoldLeft(LAMBDA total, i : And(total.h, total.r, total.h[b].items[i]),
             Is(h, a), [i \in DOMAIN h[b].items |-> i])
AndLast(h, a, b) ==
    With(_And(h, Last(h[a].items), b), LAMBDA new :
        IF new.r # None THEN Is([new.h EXCEPT ![a].items = Append(Front(@), new.r)], a)
        ELSE New(new.h, AndOf(Append(h[a].items, b))))
_And(h, a, b) ==
    CASE h[a].cls = "Empty" -> Is(h, b)
      [] h[a].cls \in {"Word", "Start", "End"} /\ h[b].cls = h[a].cls -> Is(h, a)
      [] h[a].cls = "String" /\ h[b].cls = "String" -> CreateString(h, h[a].text \o h[b].text)
      [] h[a].cls = "And" /\ h[b].cls = "And" -> AndParts(h, a, b)
      [] h[a].cls = "And" /\ h[b].cls # "And" -> AndLast(h, a, b)
      [] OTHER -> Nothing(h)

\* RegexAnd.join
AndJoin(h, items) ==
    IF items = <<>> THEN New(h, Atom("Empty"))
    ELSE FoldLeft(LAMBDA got, item : And(got.h, got.r, item), Is(h, items[1]), Tail(items))

-----------------------------------------------------------------------------
(* a | b.                                                                  *)

\* findPrefix: a common start and the two rests, None without one.
CommonLength(s, t) ==
    CHOOSE n \in 0..Len(s) :
        /\ n <= Len(t) /\ SubSeq(s, 1, n) = SubSeq(t, 1, n)
        /\ n < Len(s) /\ n < Len(t) => s[n + 1] # t[n + 1]
NoPrefix(h) == [h |-> h, r |-> None, a |-> None, b |-> None]
FindPrefix(h, a, b) ==
    LET s == h[a].text
        t == h[b].text
        n == CommonLength(s, t)
        letters == CreateRange(h, <<s[1], t[1]>>, FALSE)
        head == CreateString(h, SubSeq(s, 1, n))
        Rests(got, x, y) ==
            LET left == CreateString(got.h, x)
                right == CreateString(left.h, y)
            IN [h |-> right.h, r |-> got.r, a |-> left.r, b |-> right.r]
    IN IF {h[a].cls, h[b].cls} # {"String"} THEN NoPrefix(h)
       ELSE IF IsLetter(h, a) /\ IsLetter(h, b) THEN Rests(letters, <<>>, <<>>)
       ELSE IF n = 0 THEN NoPrefix(h)
       ELSE Rests(head, SubSeq(s, n + 1, Len(s)), SubSeq(t, n + 1, Len(t)))

RECURSIVE or_(_, _, _), _or_(_, _, _, _), Or(_, _, _)
Or(h, a, b) ==
    Unless(or_(h, a, b), LAMBDA k : New(k, OrOf(<<a, b>>)))

or_(h, a, b) ==
    IF Equal(h, a, b) \/ Matches(h, a, b) THEN Is(h, a)
    ELSE IF Matches(h, b, a) THEN Is(h, b)
    ELSE Unless(_or_(h, a, b, FALSE), LAMBDA k :
             IF h[a].cls = h[b].cls THEN Nothing(k) ELSE _or_(k, b, a, TRUE))

OrString(h, a, b, reverse) ==
    With(FindPrefix(h, a, b), LAMBDA common :
        IF common.r = None THEN Nothing(h)
        ELSE With(IF reverse THEN Or(common.h, common.b, common.a)
                  ELSE Or(common.h, common.a, common.b), LAMBDA rest :
                 And(rest.h, common.r, rest.r)))

\* RegexAnd._or_: equal parts or a common prefix of the first parts are taken out.
\* join() may change the parts that are RegexAnd themselves.
PartsOf(h, b) == IF h[b].cls = "String" THEN <<b>> ELSE h[b].items
EqualParts(h, as, bs) ==
    CHOOSE n \in 0..Len(as) :
        /\ n <= Len(bs) /\ \A i \in 1..n : Equal(h, as[i], bs[i])
        /\ n < Len(as) /\ n < Len(bs) => ~Equal(h, as[n + 1], bs[n + 1])
From(items, n) == SubSeq(items, n, Len(items))
OrOfRests(h, a, b, n) ==
    With(AndJoin(h, From(PartsOf(h, a), n + 1)), LAMBDA left :
    With(AndJoin(left.h, From(PartsOf(left.h, b), n + 1)), LAMBDA right :
    With(Or(right.h, left.r, right.r), LAMBDA rest :
    With(AndJoin(rest.h, SubSeq(PartsOf(rest.h, a), 1, n)), LAMBDA head :
        And(head.h, head.r, rest.r)))))

\* A rest of a common start, and what follows it.
Follow(h, start, items) ==
    With(AndJoin(h, items), LAMBDA tail : And(tail.h, start, tail.r))
\* Mutant: the common start is taken out whatever it is.
OrOfAnyPrefix(h, a, b) ==
    With(FindPrefix(h, PartsOf(h, a)[1], PartsOf(h, b)[1]), LAMBDA common :
        IF common.r = None THEN Nothing(h)
        ELSE With(Follow(common.h, common.a, Tail(PartsOf(common.h, a))), LAMBDA left :
             With(Follow(left.h, common.b, Tail(PartsOf(left.h, b))), LAMBDA right :
             With(Or(right.h, left.r, right.r), LAMBDA rest : And(rest.h, common.r, rest.r)))))
OrOfPrefixed(h, a, b) ==
    With(FindPrefix(h, PartsOf(h, a)[1], PartsOf(h, b)[1]), LAMBDA common :
        IF common.r = None THEN Nothing(h)
        ELSE With(Follow(common.h, common.a, Tail(PartsOf(common.h, a))), LAMBDA left :
             With(Follow(left.h, common.b, Tail(PartsOf(left.h, b))), LAMBDA right :
             With(Or(right.h, left.r, right.r), LAMBDA rest :
                 IF SingleValue(rest.h, common.r) \/ SingleValue(rest.h, rest.r)
                 THEN And(rest.h, common.r, rest.r)
                 ELSE Nothing(rest.h)))))
OrAnd(h, x, y, reverse) ==
    LET a == IF reverse THEN y ELSE x
        b == IF reverse THEN x ELSE y
        n == EqualParts(h, PartsOf(h, a), PartsOf(h, b))
    IN IF h[y].cls \notin {"String", "And"} THEN Nothing(h)
       ELSE IF n > 0 THEN OrOfRests(h, a, b, n)
       ELSE OrOfPrefixed(h, a, b)

\* RegexOr._or_: the first part that b can be merged with takes it.
OrParts(h, a, b) ==
    FoldLeft(LAMBDA total, item : Or(total.h, total.r, item), Is(h, a), h[b].items)
RECURSIVE OrInto(_, _, _, _, _)
OrInto(h, a, b, reverse, i) ==
    LET items == h[a].items
    IN IF i > Len(items) THEN New(h, OrOf(IF reverse THEN <<b>> \o items ELSE Append(items, b)))
       ELSE With(or_(h, items[i], b), LAMBDA new :
                IF new.r # None THEN New(new.h, OrOf([items EXCEPT ![i] = new.r]))
                ELSE OrInto(new.h, a, b, reverse, i + 1))

_or_(h, a, b, reverse) ==
    CASE h[a].cls = "String" -> OrString(h, a, b, reverse)
      [] h[a].cls = "Range" -> OrRange(h, a, b)
      [] h[a].cls = "And" -> OrAnd(h, a, b, reverse)
      [] h[a].cls = "Or" /\ h[b].cls = "Or" -> OrParts(h, a, b)
      [] h[a].cls = "Or" /\ h[b].cls # "Or" -> OrInto(h, a, b, reverse, 1)
      [] OTHER -> Nothing(h)

OrJoin(h, items) ==
    IF items = <<>> THEN New(h, Atom("Empty"))
    ELSE FoldLeft(LAMBDA got, item : Or(got.h, got.r, item), Is(h, items[1]), Tail(items))

-----------------------------------------------------------------------------
(* RegexRepeat(regex, rmin, rmax).                                         *)

\* __init__ without optimize.
Checked(h, regex, rmin, rmax) ==
    IF rmax # NoLimit /\ (rmax < rmin \/ rmax = 0 \/ <<rmin, rmax>> = <<1, 1>>)
    THEN Is(h, Raised)
    ELSE New(h, RepeatOf(regex, rmin, rmax))

\* optimizeRepeatOr: the parts of a RegexOr that are empty or repetitions themselves.
RepeatMin(h, items, rmin) ==
    IF \E i \in DOMAIN items :
          \/ h[items[i]].cls = "Empty"
          \/ h[items[i]].cls = "Repeat" /\ h[items[i]].min = 0 /\ rmin = 1
    THEN 0 ELSE rmin
RepeatPart(h, r, rmin, rmax) ==
    LET open == rmax = NoLimit /\ h[r].max = NoLimit
    IN IF h[r].cls # "Repeat" THEN Is(h, r)
       ELSE IF h[r].min = 0 /\ rmin \notin {0, 1} THEN Is(h, r)
       ELSE IF open /\ h[r].min \in {0, 1} THEN Is(h, h[r].regex)
       ELSE IF open THEN Checked(h, h[r].regex, h[r].min, h[r].min)
       ELSE IF h[r].min = 0 THEN Checked(h, h[r].regex, 1, h[r].max)
       ELSE Is(h, r)
RepeatParts(h, items, rmin, rmax) ==
    FoldLeft(LAMBDA got, r :
               LET part == RepeatPart(got.h, r, rmin, rmax)
               IN IF got.h[r].cls = "Empty" \/ Raised \in ToSet(got.items) THEN got
                  ELSE [h |-> part.h, items |-> Append(got.items, part.r)],
             [h |-> h, items |-> <<>>], items)
RepeatOr(h, regex, low, rmax) ==
    LET rmin == RepeatMin(h, h[regex].items, low)
        parts == RepeatParts(h, h[regex].items, rmin, rmax)
        joined == OrJoin(parts.h, parts.items)
    IN IF Raised \in ToSet(parts.items) THEN Is(parts.h, Raised)
       ELSE Checked(joined.h, joined.r, rmin, rmax)

Repeat(h, regex, rmin, rmax) ==
    LET inner == h[regex]
        most == IF {inner.max, rmax} \cap {0, NoLimit} = {} THEN rmax * inner.max ELSE NoLimit
    IN IF inner.cls = "Or" THEN RepeatOr(h, regex, rmin, rmax)
       ELSE IF inner.cls = "Repeat" /\ <<rmin, rmax>> # <<0, 1>>
       THEN Checked(h, inner.regex, rmin * inner.min, most)
       ELSE Checked(h, regex, rmin, rmax)

-----------------------------------------------------------------------------
(* minLength() and maxLength(): NoLimit is None, Raised a TypeError.       *)

Total(lengths) ==
    IF NoLimit \in ToSet(lengths) THEN NoLimit ELSE FoldLeft(LAMBDA m, n : m + n, 0, lengths)

RECURSIVE MinLength(_, _), MaxLength(_, _)
MinLength(h, r) ==
    LET x == h[r]
        parts == [i \in DOMAIN x.items |-> MinLength(h, x.items[i])]
    IN CASE x.cls = "String" -> Len(x.text)
         [] x.cls \in {"Dot", "Range"} -> 1
         [] x.cls = "And" -> Total(parts)
         [] x.cls = "Or" -> Min(ToSet(parts))
         [] x.cls = "Repeat" -> MinLength(h, x.regex) * x.min
         [] OTHER -> 0
MaxLength(h, r) ==
    LET x == h[r]
        parts == [i \in DOMAIN x.items |-> MaxLength(h, x.items[i])]
        most == MaxLength(h, x.regex)
    IN CASE x.cls \in {"And", "Or"} /\ Raised \in ToSet(parts) -> Raised
         [] x.cls = "And" /\ Raised \notin ToSet(parts) -> Total(parts)
         [] x.cls = "Or" /\ Raised \notin ToSet(parts) ->
               IF NoLimit \in ToSet(parts) THEN NoLimit ELSE Max(ToSet(parts))
         [] x.cls = "Repeat" ->
               IF x.max = NoLimit THEN NoLimit
               ELSE IF most \in {NoLimit, Raised} THEN Raised ELSE most * x.max
         [] OTHER -> MinLength(h, r)

-----------------------------------------------------------------------------
(* The calls of a program that builds expressions.                         *)

\* The expression that a call of the pool makes; Pool is a sequence of them.
RECURSIVE Build(_, _)
Build(h, term) ==
    CASE term[1] \in {"Empty", "Word", "Start", "End", "Dot"} -> New(h, Atom(term[1]))
      [] term[1] = "string" -> CreateString(h, term[2])
      [] term[1] = "range" -> CreateRange(h, term[2], term[3])
      [] term[1] = "repeat" ->
            With(Build(h, term[2]), LAMBDA part : Repeat(part.h, part.r, term[3][1], term[3][2]))
      [] OTHER ->
            With(Build(h, term[2]), LAMBDA left :
            With(Build(left.h, term[3]), LAMBDA right :
                IF term[1] = "and" THEN And(right.h, left.r, right.r)
                                   ELSE Or(right.h, left.r, right.r)))

Built ==
    FoldLeft(LAMBDA got, term :
                 With(Build(got.h, term), LAMBDA new : [h |-> new.h, made |-> Append(got.made, new.r)]),
             [h |-> <<>>, made |-> <<>>], Pool)

NoCall == [op |-> "none", a |-> 1, b |-> 1]
Init == heap = Built.h /\ made = Built.made /\ call = NoCall

\* A call that raises leaves the program without a new expression.
Makes(op, a, b, new) ==
    /\ Len(made) < Len(Pool) + CallBound
    /\ heap' = new.h
    /\ made' = IF new.r = Raised THEN made ELSE Append(made, new.r)
    /\ call' = [op |-> op, a |-> a, b |-> b]

CallAnd(a, b) == Makes("and", a, b, And(heap, made[a], made[b]))
CallOr(a, b) == Makes("or", a, b, Or(heap, made[a], made[b]))
CallRepeat(a, m) == Makes("repeat", a, m, Repeat(heap, made[a], m[1], m[2]))

Next ==
    \E a \in DOMAIN made :
        \/ \E b \in DOMAIN made : CallAnd(a, b) \/ CallOr(a, b)
        \/ \E m \in Repeats : CallRepeat(a, m)

Spec == Init /\ [][Next]_vars

-----------------------------------------------------------------------------
(* What expressions mean: where in a word they match, from which place to  *)
(* which.                                                                  *)

Words == UNION {[1..n -> Letters] : n \in 0..MaxWord}
Compose(R, S) ==
    {<<pq[1][1], pq[2][2]>> : pq \in {x \in R \X S : x[1][2] = x[2][1]}}
Stays(w) == {<<i, i>> : i \in 0..Len(w)}

\* R from rmin to rmax times: steps that stay where they are add nothing, so more
\* than the length of the word is never needed.
Powers(R, w, rmin, rmax) ==
    LET last == IF rmax = NoLimit THEN rmin + Len(w) ELSE rmax
        power[n \in 0..last] == IF n = 0 THEN Stays(w) ELSE Compose(power[n - 1], R)
    IN UNION {power[n] : n \in rmin..last}

RECURSIVE Spans(_, _, _)
Spans(h, r, w) ==
    LET x == h[r]
        parts == [i \in DOMAIN x.items |-> Spans(h, x.items[i], w)]
    IN CASE x.cls = "Empty" -> Stays(w)
         [] x.cls = "Word" -> IF w = <<>> THEN {} ELSE {<<0, 0>>, <<Len(w), Len(w)>>}
         [] x.cls = "Start" -> {<<0, 0>>}
         [] x.cls = "End" -> {<<Len(w), Len(w)>>}
         [] x.cls = "Dot" -> {<<i - 1, i>> : i \in DOMAIN w}
         [] x.cls = "Range" ->
               {<<i - 1, i>> : i \in {n \in DOMAIN w : x.exclude #
                  \E k \in DOMAIN x.ranges : w[n] \in h[x.ranges[k]].cmin..h[x.ranges[k]].cmax}}
         [] x.cls = "String" ->
               {<<i, i + Len(x.text)>> : i \in {n \in 0..(Len(w) - Len(x.text)) :
                                                  SubSeq(w, n + 1, n + Len(x.text)) = x.text}}
         [] x.cls = "And" -> FoldLeft(Compose, Stays(w), parts)
         [] x.cls = "Or" -> UNION ToSet(parts)
         [] x.cls = "Repeat" -> Powers(Spans(h, x.regex, w), w, x.min, x.max)

RECURSIVE Reach(_, _)
Reach(h, r) ==
    {r} \cup (IF h[r].cls \in {"And", "Or"}
              THEN UNION {Reach(h, h[r].items[i]) : i \in DOMAIN h[r].items}
              ELSE IF h[r].cls = "Repeat" THEN Reach(h, h[r].regex) ELSE {})

\* What a & b changes in place: a RegexAnd, or the RegexAnd at its end.
RECURSIVE Spine(_, _)
Spine(h, r) ==
    IF h[r].cls # "And" THEN {} ELSE {r} \cup Spine(h, Last(h[r].items))

\* A union of two ranges of excluded letters excludes the letters of both.
Excluding(h, r) == {p \in Reach(h, r) : h[p].cls = "Range" /\ h[p].exclude}

\* (a{n,p}){x,y} is taken for a{n*x,p*y}: the numbers between k*p and (k+1)*n must not
\* be missing.  (a{n,}|b){x,} is taken for (a{n}|b){x,}.
Counted(x, rmin, rmax) ==
    CASE x.cls = "Repeat" ->
            \/ <<rmin, rmax>> = <<0, 1>>
            \/ rmax # 0 /\ rmin = rmax
            \/ rmax # 0 /\ IF x.max = NoLimit THEN rmin > 0 \/ x.min <= 1
                           ELSE (rmin + 1) * x.min <= rmin * x.max + 1
      [] x.cls = "Or" ->
            rmax = NoLimit => \A i \in DOMAIN x.items :
                LET part == heap[x.items[i]]
                IN part.cls = "Repeat" /\ part.max = NoLimit => part.min <= 1
      [] OTHER -> TRUE

Sound(op, a, b) ==
    CASE op = "and" -> Spine(heap, made[a]) \cap Reach(heap, made[b]) = {}
      [] op = "or" -> Excluding(heap, made[a]) = {} \/ Excluding(heap, made[b]) = {}
      [] op = "repeat" -> Counted(heap[made[a]], b[1], b[2])

Meaning(op, a, b, w) ==
    CASE op = "and" -> Compose(Spans(heap, made[a], w), Spans(heap, made[b], w))
      [] op = "or" -> Spans(heap, made[a], w) \cup Spans(heap, made[b], w)
      [] op = "repeat" -> Powers(Spans(heap, made[a], w), w, b[1], b[2])

\* minLength() and maxLength() of an expression bound the words that match it.
Bounded(h, r, length) ==
    /\ MinLength(h, r) <= length
    /\ MaxLength(h, r) \in {NoLimit, Raised} \/ length <= MaxLength(h, r)

\* A simplified expression matches exactly the words that its operands, read before the
\* call, give it (and, or_, RegexRepeat.__init__ and optimizeRepeatOr), apart from the
\* calls that Sound leaves out; its lengths are those of words that match.
Denotes ==
    [][Len(made') > Len(made) /\ Sound(call'.op, call'.a, call'.b) =>
          \A w \in Words :
             LET r == made'[Len(made')]
                 spans == Spans(heap', r, w)
             IN /\ spans = Meaning(call'.op, call'.a, call'.b, w)
                /\ <<0, Len(w)>> \in spans => Bounded(heap', r, Len(w))]_vars

\* Objects are shared by the expressions they are parts of, so a call must not change
\* them: a | b and RegexRepeat, whose join() of parts uses &, change none, a & b only
\* the RegexAnd a and the ones at its end (RegexAnd._and).
Changed == {r \in DOMAIN heap : heap'[r] # heap[r]}
Undisturbed ==
    [][Changed \subseteq IF call'.op = "and" THEN Spine(heap, made[call'.a]) ELSE {}]_vars
=============================================================================
