-------------------------------- MODULE Arrange --------------------------------
(***************************************************************************)
(* Sorted rows, and rows left out.  The screens sort by sort.SliceStable   *)
(* with orders that leave no ties, what breaks them included: the id of a  *)
(* snapshot, the place of a repository in the configuration, the spelling  *)
(* of a label.                                                             *)
(***************************************************************************)
EXTENDS Naturals, FiniteSets, SequencesExt

\* The members of S in the order given: each follows those that go before it.
Arranged(S, before(_, _)) ==
    [i \in 1..Cardinality(S) |-> CHOOSE x \in S : Cardinality({y \in S : before(y, x)}) = i - 1]

\* sort.SliceStable of any sequence: "before" has the pairs of places of which the
\* first must come before the second; others stay in the order they are in.
StableSorted(s, before) ==
    LET ahead(j) == {i \in DOMAIN s : <<i, j>> \in before \/ (<<j, i>> \notin before /\ i < j)}
    IN  [r \in DOMAIN s |-> s[CHOOSE j \in DOMAIN s : Cardinality(ahead(j)) = r - 1]]

\* The elements of a sequence that are to be kept, one after the other.
KeptOf(s, keep) == FlattenSeq([i \in DOMAIN s |-> IF keep[i] THEN <<s[i]>> ELSE <<>>])
===============================================================================
