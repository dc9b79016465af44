---------------------------- MODULE MCMatchFeed ----------------------------
(* Values of the constants of MatchFeed for the runs of TLC. *)
EXTENDS MatchFeed

Both(fields) == [s \in Side |-> fields]

FullRows == {Both(Field)}
AnyRows == {Both({}), Both(Field), Both({"H1", "H2"})}

Says == {TRUE}
NoEnding == {}
AnyEnding == Held \cup CalledOff

=============================================================================
