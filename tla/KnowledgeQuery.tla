----------------------------- MODULE KnowledgeQuery -----------------------------
(***************************************************************************)
(* Queries on a knowledge base (KnowledgeBase of cognitive/sim_core.py,    *)
(* EnhancedInferenceEngine of inference/unification.py).                   *)
(*                                                                         *)
(* A term is a tree: the set of its nodes, each a place, which is the path *)
(* from the root, and a label, <<kind, what it is>>; of a list or a dict,  *)
(* that is how many children it has.  The children of a dict are its       *)
(* values in the order of its keys; dicts with other keys have another     *)
(* length.                                                                 *)
(***************************************************************************)
EXTENDS Naturals, Sequences, SequencesExt, FiniteSets

CONSTANTS
  FactIds, RuleIds,
  Facts,    \* facts as the dicts that queries compare: subject, predicate, object
  Rules,    \* [conditions : sequence of facts, conclusion : fact], as such dicts
  Goals,
  MaxPairs  \* bound of the model: the pairs of terms that one unify compares

VARIABLES
  facts,    \* KnowledgeBase.facts: for each id one fact or none
  rules     \* KnowledgeBase.rules

kbVars == <<facts, rules>>

Atom(a) == {<< << >>, <<"atom", a>> >>}
Var(x) == {<< << >>, <<"var", x>> >>}
Compound(kind, s) ==
  {<< << >>, <<kind, Len(s)>> >>}
    \union UNION {{<< <<i>> \o n[1], n[2] >> : n \in s[i]} : i \in DOMAIN s}
List(s) == Compound("list", s)
Dict(s) == Compound("dict", s)

\* A Fact itself, and not the dict of it: no list, no dict, no variable.
Object(fact) == {<< << >>, <<"object", fact>> >>}

Arity(label) == IF label[1] \in {"list", "dict"} THEN label[2] ELSE 0

IsTerm(t) ==
  /\ \A n \in t : n = <<n[1], n[2]>> /\ n[1] \in Seq(Nat) /\ Arity(n[2]) \in Nat
  /\ \E n \in t : n[1] = << >>
  /\ \A n, m \in t : n[1] = m[1] => n = m
  /\ \A n \in t : \A i \in 1 .. Arity(n[2]) : \E m \in t : m[1] = Append(n[1], i)
  /\ \A n \in t : \A k \in 1 .. Len(n[1]) :
       \E m \in t : m[1] = SubSeq(n[1], 1, k - 1) /\ n[1][k] \in 1 .. Arity(m[2])

Root(t) == (CHOOSE n \in t : n[1] = << >>)[2]
IsVar(t) == Root(t)[1] = "var"
IsCompound(t) == Root(t)[1] \in {"list", "dict"}

\* The subterm of t at a place.
At(t, place) ==
  {<<SubSeq(n[1], Len(place) + 1, Len(n[1])), n[2]>> : n \in {m \in t : IsPrefix(place, m[1])}}

VarsOf(t) == {n[2] : n \in {m \in t : m[2][1] = "var"}}

Conclusions(rs) == {r.conclusion : r \in rs}

ASSUME KnowledgeAssumption ==
  /\ MaxPairs \in Nat
  /\ \A t \in Goals \union Facts \union Conclusions(Rules) : IsTerm(t)
  /\ \A t \in Facts \union Conclusions(Rules) :
       Root(t)[1] = "dict" /\ IsFiniteSet(t) /\ Cardinality(t) <= MaxPairs
  /\ \A r \in Rules : r.conditions \in Seq(Facts)

--------------------------------------------------------------------------------
(* Unification.  A substitution is a function from the variables it binds.  *)

\* Substitution.apply: a binding is not looked up again.
Apply(subst, t) ==
  UNION {IF n[2] \in DOMAIN subst THEN {<<n[1] \o m[1], m[2]>> : m \in subst[n[2]]} ELSE {n} :
           n \in t}

OccursCheck(var, t) == \E n \in t : n[2] = var

\* A new binding replaces an old one of its variable.
Bind(subst, var, t) ==
  IF OccursCheck(var, t) THEN {}
  ELSE {[v \in DOMAIN subst \union {var} |-> IF v = var THEN t ELSE subst[v]]}

Children(t1, t2) == [i \in 1 .. Arity(Root(t1)) |-> <<At(t1, <<i>>), At(t2, <<i>>)>>]

\* Mutant: the bindings of the pairs before it are not applied to a pair.
UnifyPairApart(todo, subst) ==
  LET t1 == Head(todo)[1]
      t2 == Head(todo)[2]
      Then(pairs, substs) == {<<pairs \o Tail(todo), s>> : s \in substs}
  IN IF t1 = t2 THEN Then(<< >>, {subst})
     ELSE IF IsVar(t1) THEN Then(<< >>, Bind(subst, Root(t1), t2))
     ELSE IF IsVar(t2) THEN Then(<< >>, Bind(subst, Root(t2), t1))
     ELSE IF IsCompound(t1) /\ Root(t1) = Root(t2) THEN Then(Children(t1, t2), {subst})
     ELSE {}

\* One call of unify, for the first of the pairs still to be unified: what is
\* left to do after it, unless it fails.  The pairs of a list or a dict are
\* unified one by one, each with the bindings the ones before it have left.
UnifyPair(todo, subst) ==
  LET t1 == Apply(subst, Head(todo)[1])
      t2 == Apply(subst, Head(todo)[2])
      Then(pairs, substs) == {<<pairs \o Tail(todo), s>> : s \in substs}
  IN IF t1 = t2 THEN Then(<< >>, {subst})
     ELSE IF IsVar(t1) THEN Then(<< >>, Bind(subst, Root(t1), t2))
     ELSE IF IsVar(t2) THEN Then(<< >>, Bind(subst, Root(t2), t1))
     ELSE IF IsCompound(t1) /\ Root(t1) = Root(t2) THEN Then(Children(t1, t2), {subst})
     ELSE {}

\* The substitution that unify returns, if any.
Unify(term1, term2, subst) ==
  LET after[n \in 0 .. MaxPairs] ==
        IF n = 0 THEN {<< << <<term1, term2>> >>, subst>>}
        ELSE UNION {IF m[1] = << >> THEN {m} ELSE UnifyPair(m[1], m[2]) : m \in after[n - 1]}
  IN {m[2] : m \in {x \in after[MaxPairs] : x[1] = << >>}}

--------------------------------------------------------------------------------
(* The knowledge base.                                                      *)

KBInit ==
  /\ facts = [id \in FactIds |-> {}]
  /\ rules = [id \in RuleIds |-> {}]

AssertFact(id, fact) == facts' = [facts EXCEPT ![id] = {fact}] /\ UNCHANGED rules
RetractFact(id) == facts' = [facts EXCEPT ![id] = {}] /\ UNCHANGED rules
RegisterRule(id, rule) == rules' = [rules EXCEPT ![id] = {rule}] /\ UNCHANGED facts

KBNext ==
  \/ \E id \in FactIds : RetractFact(id) \/ \E fact \in Facts : AssertFact(id, fact)
  \/ \E id \in RuleIds, rule \in Rules : RegisterRule(id, rule)

KnownFacts == UNION {facts[id] : id \in FactIds}
KnownRules == UNION {rules[id] : id \in RuleIds}

AllKnown == KnownFacts \union Conclusions(KnownRules)

\* What query finds for a condition.  It is given the Fact itself, and what it unifies
\* that with are dicts; the conditions of a rule whose conclusion unified would be next.
QueryCondition(condition) == UNION {Unify(Object(condition), t, << >>) : t \in AllKnown}

\* Each solution of a condition takes the place of the substitution so far.
ProveConditions(conditions, subst) ==
  LET proved[n \in 0 .. Len(conditions)] ==
        IF n = 0 THEN {subst} ELSE UNION {QueryCondition(conditions[n]) : s \in proved[n - 1]}
  IN proved[Len(conditions)]

\* The solutions of query.
Query(goal) ==
  (UNION {Unify(goal, fact, << >>) : fact \in KnownFacts})
    \union
  (UNION {UNION {ProveConditions(rule.conditions, s) : s \in Unify(goal, rule.conclusion, << >>)} :
            rule \in KnownRules})

KBSpec == KBInit /\ [][KBNext]_kbVars

--------------------------------------------------------------------------------
(* Properties *)

\* What is known without proving a condition.
Known == KnownFacts \union Conclusions({r \in KnownRules : r.conditions = << >>})
IsGround(t) == VarsOf(t) = {}
Subterms(t) == {At(t, n[1]) : n \in t}

\* The ways to bind the variables of a goal that make it the term t.
Solutions(goal, t) == {s \in [VarsOf(goal) -> Subterms(t)] : Apply(s, goal) = t}

\* Of a fact, or the conclusion of a rule without conditions, that has no variables,
\* query finds exactly the bindings that make the goal that fact, a variable that
\* occurs twice, or inside a list, included; what it finds besides comes from unifying
\* with those that have variables.  Rules with conditions give nothing, because no
\* condition is ever proved, although the docstrings say that query returns all the
\* substitutions that satisfy the goal, and that conditions are proved: see QueryFindsAll.
AnswersExact ==
  \A goal \in Goals :
    Query(goal) =
      UNION {IF IsGround(t) THEN Solutions(goal, t) ELSE Unify(goal, t, << >>) : t \in Known}

\* The facts, and what the rules conclude from them.
Follows(t) ==
  \A T \in SUBSET AllKnown :
    /\ KnownFacts \subseteq T
    /\ \A r \in KnownRules : Range(r.conditions) \subseteq T => r.conclusion \in T
    => t \in T

\* "Returns all substitutions that satisfy the goal": in a base without variables, all
\* the ways to make the goal a fact, or what rules conclude from the facts.
QueryFindsAll ==
  (\A t \in AllKnown \union UNION {Range(r.conditions) : r \in KnownRules} : IsGround(t)) =>
    \A goal \in Goals, t \in AllKnown : Follows(t) => Solutions(goal, t) \subseteq Query(goal)
================================================================================
