----------------------------- MODULE MCWeather -----------------------------
(* A small instance of Weather. *)
EXTENDS Weather

\* One that asks slow providers, one that is quick, without the surface.
MCConfigs == {{"alerts", "surface", "weather", "forecast"}, {"surface", "forecast"},
              {"weather", "radar"}}

MCInterval == [s \in Source |-> 1]

MCPatience == [s \in Source |-> IF s \in {"alerts", "weather"} THEN 1 ELSE 0]

Row(station, at, distance, temp) ==
  [station |-> station, at |-> at, distance |-> distance, temp |-> temp]

Sky(temp) == [kind |-> "weather", temp |-> temp]
Day == [kind |-> "day", rest |-> None]

\* A near station without a temperature beside a far one that has two
\* reports; a report from the future; reports that are too old; no answer.
MCAnswers ==
  [s \in Source |->
     CASE s = "alerts"  -> {Fails}
       [] s = "surface" ->
            { <<Row(1, 0, 3, None), Row(2, 1, None, 60), Row(2, 1, None, 50), None>>,
              <<Row(2, 2, 9, 60), Row(1, None, 3, 70)>>, Fails }
       [] s = "weather" ->
            { [current |-> Sky(62), day |-> Day, daily |-> Day],
              [current |-> Sky(62), daily |-> Fails] }
       [] s = "forecast" ->
            { <<[start |-> 1, temp |-> 58], [start |-> -1, temp |-> 56]>>, Fails }
       [] OTHER -> { <<Partial(s, [kind |-> s], {<<"partial", s>>})>> }]
=============================================================================
