------------------------- MODULE MCWorkDistribution -------------------------
(***************************************************************************)
(* Values for the constants of WorkDistribution: agents in the order of    *)
(* their names, the kinds of requests, and five settings, each as large as *)
(* its question needs.                                                     *)
(***************************************************************************)
EXTENDS WorkDistribution, TLC

CONSTANTS a1, a2, a3, k1, k2

InOrder == a1 :> 1 @@ a2 :> 2 @@ a3 :> 3

Plain == [requiredSkills |-> {}, stickyKey |-> None, routingHint |-> None]
Skilled(s) == [Plain EXCEPT !.requiredSkills = s]
Keyed(k) == [Plain EXCEPT !.stickyKey = k]
Hinted(r, h) == [r EXCEPT !.routingHint = h]

\* Tasks of all kinds, and all that may happen between two claims.
AnyTask ==
  [agents |-> {a1, a2}, skills |-> {"s1", "s2"}, default |-> "load-based", maxCapacity |-> 2,
   requests |-> {Plain, Skilled({"s1", "s2"}), Keyed(k1), Hinted(Plain, "round-robin"),
                 Hinted(Plain, "sticky"), Hinted(Plain, "skill-based")},
   allowed |-> {"release", "offline", "restart", "crash"}]

\* Three skills, of which a task requires all or one.
BySkill ==
  [AnyTask EXCEPT !.skills = {"s1", "s2", "s3"}, !.maxCapacity = 5, !.allowed = {"release"},
              !.requests = {Skilled({"s1", "s2", "s3"}), Skilled({"s1"})}]

\* Two keys, and a task with a key that asks for another strategy.
ByKey ==
  [AnyTask EXCEPT !.skills = {}, !.allowed = {"release", "offline", "restart"},
              !.requests = {Keyed(k1), Keyed(k2), Hinted(Keyed(k1), "round-robin")}]

InTurn ==
  [AnyTask EXCEPT !.agents = {a1, a2, a3}, !.skills = {}, !.requests = {Plain},
              !.default = "round-robin", !.maxCapacity = 3, !.allowed = {"release", "offline"}]

ByLoad ==
  [InTurn EXCEPT !.default = "load-based", !.maxCapacity = 4, !.allowed = {}]

FiveSettings == {AnyTask, BySkill, ByKey, InTurn, ByLoad}
=============================================================================
