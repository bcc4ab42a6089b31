-------------------------------- MODULE IPSet --------------------------------
(***************************************************************************)
(* What an IPRangeList is for: a set of addresses.  a is the list under    *)
(* construction, b the operand of the binary operations, out what the last *)
(* call returned.                                                          *)
(***************************************************************************)
EXTENDS Integers

CONSTANTS
    Points,     \* the addresses given to Add and Remove
    Ranges,     \* the <<first, last>> pairs that lists are made from
    Skips       \* the sequences of addresses Allocate is told to skip

VARIABLES a, b, out

vars == <<a, b, out>>

None == -1

Returned(ok, ip) == out' = [ok |-> ok, ip |-> ip]

Init == a = {} /\ b = {} /\ out = [ok |-> TRUE, ip |-> None]

NewEmptyIPRangeList == b' = {} /\ Returned(TRUE, None) /\ UNCHANGED a

MergeRange(p) == b' = b \cup (p[1]..p[2]) /\ Returned(TRUE, None) /\ UNCHANGED a

Add(ip) == a' = a \cup {ip} /\ Returned(ip \notin a, None) /\ UNCHANGED b

Remove(ip) == a' = a \ {ip} /\ Returned(ip \in a, None) /\ UNCHANGED b

\* The lowest address that is not to be skipped, if there is one.
Allocate(skip) ==
    LET left == a \ {skip[i] : i \in DOMAIN skip}
        ip == CHOOSE x \in left : \A y \in left : x <= y
    IN  /\ a' = IF left = {} THEN a ELSE a \ {ip}
        /\ Returned(left # {}, IF left = {} THEN None ELSE ip)
        /\ UNCHANGED b

Separate == a' = a \ b /\ Returned(TRUE, None) /\ UNCHANGED b

Merge == a' = a \cup b /\ Returned(TRUE, None) /\ UNCHANGED b

Intersect == a' = a \cap b /\ Returned(TRUE, None) /\ UNCHANGED b

Contains(ip) == Returned(ip \in a, None) /\ UNCHANGED <<a, b>>

Equal == Returned(a = b, None) /\ UNCHANGED <<a, b>>

Next ==
    \/ NewEmptyIPRangeList \/ \E p \in Ranges : MergeRange(p)
    \/ \E ip \in Points : Add(ip) \/ Remove(ip) \/ Contains(ip)
    \/ \E skip \in Skips : Allocate(skip)
    \/ Separate \/ Merge \/ Intersect \/ Equal

Spec == Init /\ [][Next]_vars

==============================================================================
