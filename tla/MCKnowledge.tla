------------------------------ MODULE MCKnowledge ------------------------------
(* An instance of KnowledgeQuery for TLC.  Facts have an atom, a list or a     *)
(* variable in them; rules none, one or two conditions; goals up to two        *)
(* variables, at any place, twice, inside a list, or too few keys.             *)
EXTENDS KnowledgeQuery

A == Atom("a")
B == Atom("b")
P == Atom("p")
X == Var("x")
Y == Var("y")

Fact(subject, object) == Dict(<<subject, P, object>>)

MCFacts ==
  {Fact(A, object) : object \in {A, B, List(<<A, A>>), List(<<A, B>>)}}
    \union {Fact(B, A), Fact(X, B), Dict(<<A, Atom("q"), B>>)}

MCRules ==
  [conditions : {<< >>, <<Fact(B, A)>>, <<Fact(A, A), Fact(A, B)>>},
   conclusion : {Fact(B, List(<<B, A>>)), Fact(Y, A)}]

MCGoals ==
  {Dict(<<s, p, o>>) : s \in {A, X, Y}, p \in {P, X},
                       o \in {A, X, Y, List(<<X, Y>>), List(<<X, X>>), List(<<A, Y>>)}}
    \union {Dict(<<X, Y>>)}
================================================================================
