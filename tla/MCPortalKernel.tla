---------------------------- MODULE MCPortalKernel ----------------------------
(* Instances of PortalKernel for TLC: one envelope of each kind that matters.  *)
EXTENDS PortalKernel

CONSTANTS k1, k2, v1

MCKeys == {k1, k2}
MCValues == {v1, NaN}

Operator == {"operator"}

Plain(id, type, roles) ==
  [id |-> id, type |-> type, form |-> "complete", roles |-> roles, tenant |-> None,
   wants |-> None, deny |-> FALSE, key |-> k1, value |-> v1, read |-> FALSE,
   badChanges |-> FALSE, task |-> <<>>]

Do(operation, key) == [operation |-> operation, key |-> key, value |-> v1]

\* A step of the ecosystem (cognitive, orchestration and substrate lanes).
Step == [Plain(1, "ecosystem.step", Operator) EXCEPT !.task = <<Do("universe.tick", None)>>]

\* Tasks: one that succeeds, one that fails half way, one that is too long.
Task == [Plain(2, "tec", Operator) EXCEPT
           !.task = <<Do("substrate.write", k2), Do("universe.start", None),
                      Do("substrate.read", k1)>>]
HalfTask == [Plain(3, "ecosystem.step", {"admin"}) EXCEPT
               !.task = <<Do("substrate.write", k2), Do("malformed", None)>>]
BadTick == [Plain(4, "task", Operator) EXCEPT !.task = <<Do("noop", None), Do("universe.badTick", None)>>]
BadWrite == [Plain(5, "tec", Operator) EXCEPT !.task = <<Do("substrate.write", None)>>]
LongTask == [Plain(6, "tec", Operator) EXCEPT !.task = [i \in 1 .. 4 |-> Do("noop", None)]]

\* An envelope that is no object, and a task that writes NaN.
NoObject == [Plain(17, "other", None) EXCEPT !.form = "noObject"]
PoisonedTask == [Plain(18, "tec", Operator) EXCEPT
                   !.task = <<[Do("substrate.write", k1) EXCEPT !.value = NaN]>>]

Observer(id, type) == Plain(id, type, {"observer"})

MCMessages ==
  {Step, Task, HalfTask, BadTick, BadWrite, LongTask,
   Observer(7, "sim"), Observer(8, "universe.umbrella"), Observer(9, "ecosystem.step"),
   Observer(10, "governance"), Plain(11, "substrate", None),
   [Plain(12, "substrate", Operator) EXCEPT !.read = TRUE, !.tenant = "t1", !.wants = "t1"],
   [Plain(13, "universe.start", Operator) EXCEPT !.tenant = "t1", !.wants = "t2"],
   [Plain(14, "cognitive", {"admin"}) EXCEPT !.deny = TRUE],
   [Plain(15, "sim", {"admin"}) EXCEPT !.form = "incomplete"],
   [Plain(16, "universe.tick", Operator) EXCEPT !.badChanges = TRUE],
   NoObject, PoisonedTask}

MCIntrospection == {Plain(1, "introspection", {"admin"}), Plain(2, "sim", {"admin"})}

MCNoObject == {NoObject, Plain(2, "sim", {"admin"})}
===============================================================================
