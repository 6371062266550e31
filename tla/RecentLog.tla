----------------------------- MODULE RecentLog -----------------------------
(***************************************************************************)
(* What a capped log of entries promises: the newest first, an id once, and *)
(* nothing goes but what Max newer ids displace.                            *)
(***************************************************************************)
EXTENDS Integers, Sequences

CONSTANTS Ids, Max

VARIABLE recent   \* ids, the newest first

Init == recent = <<>>

\* The id comes first, from its place p or, if it has none, from behind the last; the ids before
\* that move up, the ids after it stay, and at the end what is over Max is cut off.
Put(id) ==
    \E p \in 1 .. Len(recent) + 1 :
        /\ \A n \in 1 .. Len(recent) : recent[n] = id <=> n = p
        /\ LET length == IF p <= Len(recent) THEN Len(recent) ELSE Len(recent) + 1 IN
           recent' = [n \in 1 .. (IF length <= Max THEN length ELSE Max) |->
                        IF n = 1 THEN id ELSE IF n <= p THEN recent[n - 1] ELSE recent[n]]

Next == \E id \in Ids : Put(id)

Spec == Init /\ [][Next]_recent
=============================================================================
