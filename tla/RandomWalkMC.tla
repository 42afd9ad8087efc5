---------------------------- MODULE RandomWalkMC ----------------------------
(* An instance of RandomWalk: machines of two states, one of them bad, and  *)
(* the schedules of two steps with up to two entries each.                  *)
EXTENDS RandomWalk, TLC

To(kind, first, second) == [kind |-> kind, to |-> (0 :> first @@ 1 :> second)]
Inits == {To("plain", 0, 0), To("choice", 0, 1), To("choice", -1, 0)}
Steps == {To("plain", 0, 0), To("plain", -1, -1), To("choice", 0, 1),
          To("oneOf", 1, -1), To("oneOf", 0, -2), To("choice", -1, 0)}
SmallMachines == [init : Inits, step : [{0, 1} -> Steps]]

Groups ==
  {<<>>} \cup {<<e>> : e \in ScheduleEntries} \cup {<<d, e>> : d, e \in ScheduleEntries}
TwoSteps == {<<g, h>> : g, h \in Groups}
=============================================================================
