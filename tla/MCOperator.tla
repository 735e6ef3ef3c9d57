----------------------------- MODULE MCOperator -----------------------------
(* Two nodes, two resources that may share a profile name. *)
EXTENDS OperatorSync

Profile(n, refs, phc, s, ch) ==
  [name |-> n, refs |-> refs, phc2sys |-> phc, secret |-> s, chronyd |-> ch]
Rec(p, prio, m) == [profile |-> p, priority |-> prio, match |-> m]

MCNodes == {[name |-> "n1", labels |-> {"gm"}], [name |-> "n2", labels |-> {"bc"}]}

A == [name |-> "a",
      profiles |-> <<Profile(<<"q">>, {<<"p">>}, FALSE, NoSecret, FALSE),
                     Profile(<<"p">>, {}, TRUE, "s1", FALSE)>>,
      recommend |-> {Rec(<<"p">>, 1, {"gm"}), Rec(<<"q">>, 1, {"n1"})}]
B == [name |-> "b",
      profiles |-> <<Profile(<<"r">>, {<<"a", "p">>}, TRUE, "s1", TRUE)>>,
      recommend |-> {Rec(<<"r">>, 0, {"bc"}), Rec(<<"r">>, 1, {"gm"})}]
(* B, and a profile of the same name as one of A. *)
B2 == [B EXCEPT !.profiles = Append(@, Profile(<<"p">>, {}, FALSE, NoSecret, FALSE))]
(* A recommendation without a profile. *)
Bad == [B EXCEPT !.recommend = {Rec(<<"x">>, 0, {"n2"})}]

MCResource == [A |-> A, B |-> B, B2 |-> B2, Bad |-> Bad]
MCWorlds == {{"A", "B"}, {"A", "B2"}, {"A", "Bad"}}
MCRelated == {<<"p">>, <<"a", "q">>}
MCNameOrder == <<<<"a", "p">>, <<"a", "q">>, <<"b", "p">>, <<"b", "r">>>>
=============================================================================
