------------------------------ MODULE StringSet ------------------------------
(***************************************************************************)
(* util.StringSet.Subset, which docker.Config.Equals calls on the          *)
(* environment of a container: one scan of two sorted slices.  Strings are *)
(* numbers, whose order is the order of the strings; indices start from 1. *)
(***************************************************************************)
EXTENDS Integers, Sequences

CONSTANTS Values,   \* the strings
          MaxLen    \* bound on the length of a slice

ASSUME StringSetAssumption == Values \subseteq Int /\ MaxLen \in Nat

VARIABLES self, other,  \* the two slices
          i, j,         \* the loop's indices
          result        \* "scan" until Subset returns

vars == <<self, other, i, j, result>>

Contents(s) == {s[k] : k \in 1 .. Len(s)}

(* MakeStringSet and Add leave a slice sorted.  The manager's own environment *)
(* has no string twice; the one that docker reports may.                      *)
Sorted(s) == \A k, l \in 1 .. Len(s) : k < l => s[k] <= s[l]
Distinct(s) == \A k, l \in 1 .. Len(s) : k # l => s[k] # s[l]

Slices == UNION {[1 .. n -> Values] : n \in 0 .. MaxLen}

(* The length test before the loop. *)
FirstLook_Equal(a, b) == IF Len(a) >= Len(b) THEN "no" ELSE "scan"
FirstLook(a, b) == IF Len(a) > Len(b) THEN "no" ELSE "scan"

Init ==
    /\ self \in {s \in Slices : Sorted(s) /\ Distinct(s)}
    /\ other \in {s \in Slices : Sorted(s)}
    /\ i = 1 /\ j = 1
    /\ result = FirstLook(self, other)

InLoop == result = "scan" /\ i <= Len(self) /\ j <= Len(other)

(* self[i] may still come. *)
Skip_Both == InLoop /\ self[i] > other[j] /\ i' = i + 1 /\ j' = j + 1 /\ UNCHANGED <<self, other, result>>
Skip ==
    /\ InLoop
    /\ self[i] > other[j]
    /\ j' = j + 1
    /\ UNCHANGED <<self, other, i, result>>

(* other has passed self[i]. *)
Miss ==
    /\ InLoop
    /\ self[i] < other[j]
    /\ result' = "no"
    /\ UNCHANGED <<self, other, i, j>>

Match ==
    /\ InLoop
    /\ self[i] = other[j]
    /\ i' = i + 1 /\ j' = j + 1
    /\ UNCHANGED <<self, other, result>>

(* Either slice is exhausted. *)
Return ==
    /\ result = "scan" /\ ~InLoop
    /\ result' = "yes"
    /\ UNCHANGED <<self, other, i, j>>

Next == Skip \/ Miss \/ Match \/ Return

Spec == Init /\ [][Next]_vars

-----------------------------------------------------------------------------
TypeOK ==
    /\ self \in Seq(Values) /\ other \in Seq(Values)
    /\ i \in 1 .. Len(self) + 1 /\ j \in 1 .. Len(other) + 1
    /\ result \in {"scan", "yes", "no"}

(* "no" is never wrong: some string of self is not in other. *)
NoIsRight == result = "no" => ~(Contents(self) \subseteq Contents(other))

(* What "yes" does say: a string of self that other lacks is beyond all of   *)
(* other's strings.                                                          *)
YesUpToLast == result = "yes" =>
    \A v \in Contents(self) : v \in Contents(other) \/ \A u \in Contents(other) : u < v

(* util/stringset.go:64: "Returns true if env is a subset of the other env." *)
YesIsRight == result = "yes" => Contents(self) \subseteq Contents(other)

=============================================================================
