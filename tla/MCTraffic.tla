----------------------------- MODULE MCTraffic -----------------------------
(* A small instance of Traffic. *)
EXTENDS Traffic

\* Two providers that report the events of one first source, two with
\* requests of their own for tiles and probes, and two of the city.
MCConfigs == {{"drivenc", "wzdx"}, {"tomtom"}, {"cmpd", "charlotte"}}

Report(id, organization, place, upstream, closed) ==
  [id |-> id, organization |-> organization, place |-> place, county |-> TRUE,
   upstream |-> upstream, closed |-> closed]
Fixture(id, place, messages) ==
  [id |-> id, organization |-> None, place |-> place, county |-> TRUE,
   messages |-> messages]
Incident(id, place, odd) ==
  [id |-> id, place |-> place, odd |-> odd, category |-> TRUE]

\* A closure that both report, one that came through Waze under the same
\* identifier, one of an organization that is not NCDOT's, for which each of the
\* two has a family of its own, rows that are out of scope or cannot be read; a table without
\* a header; an incident in two tiles, and a tile that fails.
MCAnswers ==
  [s \in Source |->
     CASE s = "events" ->
            { <<Report("r1", "ATMSERS", "near", "u1", TRUE),
                Report("r2", "waze", None, "u1", TRUE),
                Report("r3", "ATMSERS", "far", "u3", TRUE),
                Report("r6", "city", "near", "u4", TRUE)>>, Fails }
       [] s = "wzdx" ->
            { <<Report("r4", "ATMSERS", "near", "u1", TRUE),
                Report("r5", None, None, "u2", None),
                Report("r7", "city", "near", "u4", TRUE)>> }
       [] s = "cmpd" -> { <<"title", "header", "row">>, <<"title">> }
       [] s = "charlotte" ->
            { <<Report("r8", None, "near", None, TRUE)>>, Fails }
       [] s = "cameras" -> { <<Fixture("c1", "near", {}), Fixture("c2", "far", {}),
                [Fixture("c3", "near", {}) EXCEPT !.organization = "city"]>> }
       [] s = "signs" ->
            { <<Fixture("s1", "near", {"NO_MESSAGE"}), Fixture("s2", "near", {"slow"})>> }
       [] s = "flow" -> { <<[id |-> "p1"]>>, <<[id |-> "p1"], Fails>> }
       [] s = "incidents" ->
            { << <<Incident("i1", "near", FALSE), Incident(None, "near", FALSE)>>,
                 <<Incident("i1", "near", FALSE)>> >>,
              << <<Incident("i2", "near", FALSE)>>, Fails >>, Fails }]
=============================================================================
