------------------------------- MODULE Helper -------------------------------
(***************************************************************************)
(* The slice helper of pkg/helper/helper.go that every slice balancer      *)
(* removes a Backend with.  A Go slice is a sequence; the copy loop is     *)
(* defined by the positions it keeps, without recursion, so that its       *)
(* properties can be proved for slices of every length.                    *)
(***************************************************************************)
EXTENDS Naturals, Sequences, FiniteSets

\* How many positions of keep are at or before position p.
Rank(keep, p) == Cardinality({q \in keep : q <= p})

\* The elements of s at the positions in keep, in their order in s.
SubsequenceAt(s, keep) ==
    [k \in 1 .. Cardinality(keep) |->
        s[CHOOSE p \in keep : Rank(keep, p) = k]]

\* helper.RemoveByValue: a fresh slice with every element equal to value left out.
RemoveByValue(s, value) ==
    SubsequenceAt(s, {p \in DOMAIN s : s[p] # value})

=============================================================================
