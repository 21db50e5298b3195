---------------------------- MODULE MCJobFanout ----------------------------
(* JobFanout as a small instance for TLC.  The configs that the parent may  *)
(* find bound the product of what goes on at once: a child with a slow      *)
(* heartbeat is the only child; else a batch is the only child, or there    *)
(* are any number of children with one config each.                         *)
EXTENDS JobFanout

SmallPlan(S) ==
  IF slow \cap Group = {}
    THEN S \cap MultiConfig = {} \/ Cardinality(S) = 1
    ELSE S \subseteq slow

MCNext == Next /\ SmallPlan(groups')

MCSpec == Init /\ [][MCNext]_vars /\ Fairness
=============================================================================
