----------------------------- MODULE MCRuntime -----------------------------
(* Small instances of Runtime: the two workers the code has, with what the
   first derives, one other source of it, and what the second derives.      *)
EXTENDS Runtime

CONSTANTS estimate, radar, situation

MCSource    == {estimate, radar, situation}
MCCollector == [s \in MCSource |-> IF s = situation THEN 2 ELSE 1]

\* Every configuration has every worker and a surface.
MCFullConfig ==
  {[workers |-> Worker, sources |-> Source, presents |-> TRUE]}

\* Traffic awareness is constructed only inside an enabled world awareness, of
\* which the other source may be disabled.
MCConfigs ==
  MCFullConfig \union
    {[workers |-> {1}, sources |-> {estimate}, presents |-> TRUE],
     [workers |-> {}, sources |-> {}, presents |-> FALSE]}

\* The instance with one worker, for the liveness properties.
MCOneSource    == {estimate}
MCOneCollector == [s \in MCOneSource |-> 1]
=============================================================================
