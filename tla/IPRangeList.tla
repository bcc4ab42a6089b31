----------------------------- MODULE IPRangeList -----------------------------
(***************************************************************************)
(* The range lists pkg/ipam keeps addresses in: a sequence of [start, end] *)
(* ranges over Width-bit addresses, whose arithmetic wraps around as that  *)
(* of IP.Add and IP.Sub does.  r is the list under construction, x the     *)
(* operand of the binary operations, out what the last call returned.      *)
(* The operators XBug are X with a plausible mistake and are not used.     *)
(***************************************************************************)
EXTENDS Integers, Sequences

SE == INSTANCE SequencesExt

CONSTANTS
    Width,      \* bits of an address (32 or 128 in the code)
    Points,     \* the addresses given to Add, Remove and Contains
    Ranges,     \* the <<first, last>> pairs that lists are made from
    Skips       \* the sequences of addresses Allocate is told to skip

VARIABLES r, x, out

vars == <<r, x, out>>

Size == 2 ^ Width

Plus1(ip) == (ip + 1) % Size

Minus1(ip) == (ip + Size - 1) % Size

NewIPRange(start, end) == [start |-> start, end |-> end]

\* A range if it is not empty.
Piece(start, end) == IF start <= end THEN <<NewIPRange(start, end)>> ELSE <<>>

\* IPRange.Add: the ranges that one range and an address next to it become.
Extended(q, ip) ==
    IF Minus1(q.start) = ip THEN {NewIPRange(ip, q.end)}
    ELSE IF Plus1(q.end) = ip THEN {NewIPRange(q.start, ip)}
    ELSE {}

\* IPRange.Remove of an address the range contains.
Without(q, ip) == Piece(q.start, Minus1(ip)) \o Piece(Plus1(ip), q.end)

\* sort.Find: the first range that does not lie before the address.
FindIndex(l, ip) ==
    CHOOSE n \in 1..Len(l) + 1 :
        /\ n <= Len(l) => ip <= l[n].end
        /\ \A k \in 1..n - 1 : l[k].end < ip

Found(l, ip) ==
    LET n == FindIndex(l, ip)
    IN  n <= Len(l) /\ l[n].start <= ip

AddToBug(l, ip) == SE!InsertAt(l, FindIndex(l, ip), NewIPRange(ip, ip))

\* IPRangeList.Add of an address the list does not contain: a neighbour is
\* extended, and joined with the next range if that closes the gap.
AddTo(l, ip) ==
    LET n == FindIndex(l, ip)
        before == IF n > 1 THEN Extended(l[n - 1], ip) ELSE {}
        after == IF n <= Len(l) THEN Extended(l[n], ip) ELSE {}
        grown == IF before # {}
                 THEN SE!ReplaceAt(l, n - 1, CHOOSE q \in before : TRUE)
                 ELSE SE!ReplaceAt(l, n, CHOOSE q \in after : TRUE)
        touching == n > 1 /\ n <= Len(l) /\ Plus1(grown[n - 1].end) = grown[n].start
    IN  IF before \cup after = {}
        THEN SE!InsertAt(l, n, NewIPRange(ip, ip))
        ELSE IF touching
        THEN SE!RemoveAt([grown EXCEPT ![n - 1].end = grown[n].end], n)
        ELSE grown

\* IPRangeList.Remove of an address the list contains.
RemoveFrom(l, ip) ==
    LET n == FindIndex(l, ip)
    IN  SubSeq(l, 1, n - 1) \o Without(l[n], ip) \o SubSeq(l, n + 1, Len(l))

\* The loop of Separate: l[i], from start on, against y[j] and what follows.
RECURSIVE SeparateFrom(_, _, _, _, _)
SeparateFrom(l, y, i, j, start) ==
    LET end == l[i].end
        rest(k) == IF i = Len(l) THEN <<>>
                   ELSE SeparateFrom(l, y, i + 1, k, l[i + 1].start)
        head == IF start < y[j].start
                THEN <<NewIPRange(start, Minus1(y[j].start))>> ELSE <<>>
    IN  IF j > Len(y) THEN <<NewIPRange(start, end)>> \o rest(j)
        ELSE IF y[j].end < start THEN SeparateFrom(l, y, i, j + 1, start)
        ELSE IF y[j].start > end THEN <<NewIPRange(start, end)>> \o rest(j)
        ELSE IF y[j].end >= end THEN head \o rest(j)
        ELSE head \o SeparateFrom(l, y, i, j + 1, Plus1(y[j].end))

SeparateOf(l, y) ==
    IF l = <<>> \/ y = <<>> THEN l ELSE SeparateFrom(l, y, 1, 1, l[1].start)

\* The two loops of Merge.
RECURSIVE Interleave(_, _)
Interleave(l, y) ==
    IF l = <<>> THEN y
    ELSE IF y = <<>> THEN l
    ELSE IF Head(l).start < Head(y).start
    THEN <<Head(l)>> \o Interleave(Tail(l), y)
    ELSE <<Head(y)>> \o Interleave(l, Tail(y))

RECURSIVE Coalesce(_)
Coalesce(l) ==
    IF Len(l) < 2 THEN l
    ELSE IF Plus1(l[1].end) = l[2].start
    THEN Coalesce(<<NewIPRange(l[1].start, l[2].end)>> \o SubSeq(l, 3, Len(l)))
    ELSE <<l[1]>> \o Coalesce(Tail(l))

MergeOf(l, y) == Coalesce(Interleave(SeparateOf(l, y), y))

IntersectOfBug(l, y) == SeparateOf(MergeOf(l, y), SeparateOf(l, y))

IntersectOf(l, y) ==
    SeparateOf(SeparateOf(MergeOf(l, y), SeparateOf(l, y)), SeparateOf(y, l))

\* The list Allocate makes of the addresses to skip.
SkipList(skip) ==
    SE!FoldLeft(LAMBDA l, ip : IF Found(l, ip) THEN l ELSE AddTo(l, ip), <<>>, skip)

\* countTrailingZeros.
TrailingZeros(ip) ==
    CHOOSE z \in 0..Width : ip % 2 ^ z = 0 /\ (z < Width => ip % 2 ^ (z + 1) # 0)

Log2Bug(k) == CHOOSE z \in 1..Width + 1 : 2 ^ (z - 1) <= k /\ k < 2 ^ z

\* big.Int.BitLen of a positive number, less one.
Log2(k) == CHOOSE z \in 0..Width : 2 ^ z <= k /\ k < 2 ^ (z + 1)

\* The CIDRs of a range, as <<network, size exponent>>.
RECURSIVE RangeToCIDRs(_, _)
RangeToCIDRs(start, end) ==
    LET z1 == TrailingZeros(start)
        z2 == Log2(end - start + 1)
        size == IF z1 < z2 THEN z1 ELSE z2
    IN  IF start > end THEN {}
        ELSE {<<start, size>>} \cup RangeToCIDRs(start + 2 ^ size, end)

ToCIDRs(l) == UNION {RangeToCIDRs(l[i].start, l[i].end) : i \in DOMAIN l}

------------------------------------------------------------------------------
None == -1

Returned(ok, ip) == out' = [ok |-> ok, ip |-> ip]

Init == r = <<>> /\ x = <<>> /\ out = [ok |-> TRUE, ip |-> None]

\* NewIPRangeListFrom starts from an empty list and merges the ranges it is
\* given one by one.
NewEmptyIPRangeList == x' = <<>> /\ Returned(TRUE, None) /\ UNCHANGED r

MergeRange(p) ==
    /\ x' = MergeOf(x, <<NewIPRange(p[1], p[2])>>)
    /\ Returned(TRUE, None)
    /\ UNCHANGED r

Add(ip) ==
    /\ r' = IF Found(r, ip) THEN r ELSE AddTo(r, ip)
    /\ Returned(~Found(r, ip), None)
    /\ UNCHANGED x

Remove(ip) ==
    /\ r' = IF Found(r, ip) THEN RemoveFrom(r, ip) ELSE r
    /\ Returned(Found(r, ip), None)
    /\ UNCHANGED x

Contains(ip) == Returned(Found(r, ip), None) /\ UNCHANGED <<r, x>>

Allocate(skip) ==
    LET filtered == IF skip = <<>> THEN r ELSE SeparateOf(r, SkipList(skip))
    IN  /\ r' = IF filtered = <<>> THEN r ELSE RemoveFrom(r, filtered[1].start)
        /\ Returned(filtered # <<>>, IF filtered = <<>> THEN None ELSE filtered[1].start)
        /\ UNCHANGED x

Separate == r' = SeparateOf(r, x) /\ Returned(TRUE, None) /\ UNCHANGED x

Merge == r' = MergeOf(r, x) /\ Returned(TRUE, None) /\ UNCHANGED x

Intersect == r' = IntersectOf(r, x) /\ Returned(TRUE, None) /\ UNCHANGED x

\* Equal compares the ranges pairwise.
Equal == Returned(r = x, None) /\ UNCHANGED <<r, x>>

Next ==
    \/ NewEmptyIPRangeList \/ \E p \in Ranges : MergeRange(p)
    \/ \E ip \in Points : Add(ip) \/ Remove(ip) \/ Contains(ip)
    \/ \E skip \in Skips : Allocate(skip)
    \/ Separate \/ Merge \/ Intersect \/ Equal

Spec == Init /\ [][Next]_vars

------------------------------------------------------------------------------
SetOf(l) == UNION {l[i].start..l[i].end : i \in DOMAIN l}

\* Both lists stay sorted with a gap between any two ranges, the form that
\* Find's binary search and Equal's pairwise comparison rely on.
Canonical(l) ==
    /\ \A i \in DOMAIN l : 0 <= l[i].start /\ l[i].start <= l[i].end /\ l[i].end < Size
    /\ \A i \in 1..Len(l) - 1 : l[i].end + 1 < l[i + 1].start

ListsCanonical == Canonical(r) /\ Canonical(x)

\* ToCIDRs yields the largest aligned blocks that fit, hence the fewest:
\* "the minimal set of CIDRs that cover it".
Block(c) == c[1]..(c[1] + 2 ^ c[2] - 1)

Blocks == {c \in (0..Size - 1) \X (0..Width) : c[1] % 2 ^ c[2] = 0}

CIDRsMinimal ==
    LET inside == {c \in Blocks : Block(c) \subseteq SetOf(r)}
    IN  ToCIDRs(r) = {c \in inside : \A d \in inside : Block(c) \subseteq Block(d) => c = d}

Set == INSTANCE IPSet WITH a <- SetOf(r), b <- SetOf(x)

\* Range lists implement sets: every operation changes the set and returns the
\* answer that the set operation would, Equal and Allocate included.
ImplementsSet == Set!Spec

==============================================================================
