---------------------------- MODULE TrafficProofs ----------------------------
(***************************************************************************)
(* Theorems about Traffic, for every set of configurations, whatever the   *)
(* providers answer, and any number of processes.                          *)
(***************************************************************************)
EXTENDS Traffic, FiniteSetTheorems, WellFoundedInduction, TLAPS

-----------------------------------------------------------------------------
(* What an adapter reports                                                 *)

\* The batch of a provider that was not heard, and of one that listed items.
Unanswered(b) == \E source : b = Unheard(source)
Lists(b, items) ==
  \E source, family, active, detail :
    LET c == [kind |-> "collection", family |-> family, items |-> items, active |-> active]
    IN b = <<Observed(source, c)>> \/ b = <<Partial(source, c, detail)>>

\* Where the families of a provider begin, unless it is that of NCDOT's system.
Roots == [DriveNC   |-> {"DriveNC", "Waze"},   WZDx   |-> {"NCDOT"},
          Charlotte |-> {"City of Charlotte"}, TomTom |-> {"TomTom Traffic"},
          CMPD      |-> {"CMPD CAD"}]
InOwn(family, provider) == family = ATMSERS \/ family[1] \in Roots[provider]

\* Items that are events, as a provider tells them.
Tells(items, provider) ==
  \A i \in DOMAIN items : \E record, family, upstream, closed :
    /\ items[i] = Event(provider, record, family, upstream, closed)
    /\ InOwn(family, provider)

\* The families of each provider, whatever the organization.
LEMMA FamiliesAre ==
  ASSUME NEW organization
  PROVE  /\ InOwn(DriveNCFamily(organization), "DriveNC")
         /\ InOwn(WZDxFamily(organization), "WZDx")
         /\ InOwn(<<"CMPD CAD">>, "CMPD")
         /\ InOwn(<<"City of Charlotte", "CDOT">>, "Charlotte")
         /\ InOwn(<<"TomTom Traffic">>, "TomTom")
BY DEF DriveNCFamily, WZDxFamily, InOwn, Roots

LEMMA PartialIs ==
  ASSUME NEW source, NEW c, NEW detail
  PROVE  <<Partial(source, c, detail)>>[1].status # "observed"
BY DEF Partial

LEMMA ActiveIs ==
  ASSUME NEW family, NEW items, NEW n
  PROVE  [Collection(family, items) EXCEPT !.active = n] =
           [kind |-> "collection", family |-> family, items |-> items, active |-> n]
BY DEF Collection

\* Reported makes one observation of a collection.
LEMMA ReportedLists ==
  ASSUME NEW source, NEW c, NEW items, NEW omitted, NEW family, NEW active,
         c = [kind |-> "collection", family |-> family, items |-> items, active |-> active]
  PROVE  Lists(Reported(source, c, omitted), items)
BY DEF Reported, Lists

LEMMA EventsListed ==
  ASSUME NEW rows
  PROVE  \/ Unanswered(EventsCollect(rows))
         \/ \E items : Lists(EventsCollect(rows), items) /\ Tells(items, "DriveNC")
<1>1. CASE rows = Fails
  BY <1>1 DEF EventsCollect, Unanswered
<1>2. CASE rows # Fails
  <2> DEFINE Local(r) == r.id # None /\ (InScope(r) \/ (r.place = None /\ r.county))
             Item(r)  == Event("DriveNC", r.id, DriveNCFamily(r.organization),
                               r.upstream, r.closed)
             events   == Items(rows, Rows(rows, Local), Item)
             c        == Collection(FamilyLabel(events, ATMSERS), events)
  <2>1. EventsCollect(rows) = Reported("events", c, Broken(rows))
    BY <1>2 DEF EventsCollect
  <2>2. Tells(events, "DriveNC")
    BY FamiliesAre DEF Tells, Items
  <2> HIDE DEF events
  <2>3. Lists(Reported("events", c, Broken(rows)), events)
    BY ReportedLists DEF Collection
  <2> QED BY <2>1, <2>2, <2>3
<1> QED BY <1>1, <1>2

LEMMA WZDxListed ==
  ASSUME NEW rows
  PROVE  \/ Unanswered(WZDxCollect(rows))
         \/ \E items : Lists(WZDxCollect(rows), items) /\ Tells(items, "WZDx")
<1> DEFINE lost == rows = Fails \/ (\E i \in DOMAIN rows : rows[i] = Fails)
<1>1. CASE lost
  BY <1>1 DEF WZDxCollect, Unanswered
<1>2. CASE ~lost
  <2> DEFINE Whole(r)  == r.id # None /\ r.upstream # None /\ r.place # None
             Local(r)  == Whole(r) /\ InScope(r)
             Torn(r)   == ~Whole(r)
             Item(r)   == Event("WZDx", r.id, WZDxFamily(r.organization), r.upstream,
                              IF r.closed = TRUE THEN TRUE ELSE None)
             events    == Items(rows, Rows(rows, Local), Item)
             c         == Collection(FamilyLabel(events, <<"NCDOT", "WZDx">>), events)
             omitted   == Broken(rows) \union Rows(rows, Torn)
  <2>1. WZDxCollect(rows) = Reported("wzdx", c, omitted)
    BY <1>2 DEF WZDxCollect
  <2>2. Tells(events, "WZDx")
    BY FamiliesAre DEF Tells, Items
  <2> HIDE DEF events, omitted
  <2>3. Lists(Reported("wzdx", c, omitted), events)
    BY ReportedLists DEF Collection
  <2> QED BY <2>1, <2>2, <2>3
<1> QED BY <1>1, <1>2

LEMMA CMPDListed ==
  ASSUME NEW rows
  PROVE  \/ Unanswered(CMPDCollect(rows))
         \/ \E items : Lists(CMPDCollect(rows), items) /\ Tells(items, "CMPD")
<1> DEFINE lost == rows = Fails \/ "header" \notin ToSet(rows)
<1>1. CASE lost
  BY <1>1 DEF CMPDCollect, Unanswered
<1>2. CASE ~lost
  <2> DEFINE header   == Min({i \in DOMAIN rows : rows[i] = "header"})
             body     == SubSeq(rows, header + 1, Len(rows))
             Item(r)  == Event("CMPD", r, <<"CMPD CAD">>, None, None)
             events   == Items(body, DOMAIN body \ Broken(body), Item)
             c        == Collection(<<"CMPD CAD">>, events)
  <2>1. CMPDCollect(rows) = Reported("cmpd", c, Broken(body))
    BY <1>2 DEF CMPDCollect
  <2>2. Tells(events, "CMPD")
    BY FamiliesAre DEF Tells, Items
  <2> HIDE DEF events, body
  <2>3. Lists(Reported("cmpd", c, Broken(body)), events)
    BY ReportedLists DEF Collection
  <2> QED BY <2>1, <2>2, <2>3
<1> QED BY <1>1, <1>2

LEMMA CharlotteListed ==
  ASSUME NEW rows
  PROVE  \/ Unanswered(CharlotteCollect(rows))
         \/ \E items : Lists(CharlotteCollect(rows), items) /\ Tells(items, "Charlotte")
<1> DEFINE lost == rows = Fails \/ (\E i \in DOMAIN rows : rows[i] = Fails)
<1>1. CASE lost
  BY <1>1 DEF CharlotteCollect, Unanswered
<1>2. CASE ~lost
  <2> DEFINE Local(r)  == InScope(r) /\ r.id # None
             Item(r)   == Event("Charlotte", r.id, <<"City of Charlotte", "CDOT">>, r.id, r.closed)
             events    == Items(rows, Rows(rows, Local), Item)
             c         == Collection(<<"City of Charlotte", "CDOT">>, events)
  <2>1. CharlotteCollect(rows) = Reported("charlotte", c, Broken(rows))
    BY <1>2 DEF CharlotteCollect
  <2>2. Tells(events, "Charlotte")
    BY FamiliesAre DEF Tells, Items
  <2> HIDE DEF events
  <2>3. Lists(Reported("charlotte", c, Broken(rows)), events)
    BY ReportedLists DEF Collection
  <2> QED BY <2>1, <2>2, <2>3
<1> QED BY <1>1, <1>2

\* A tile that failed is always mentioned.
LEMMA IncidentsListed ==
  ASSUME NEW tiles
  PROVE  LET b == IncidentsCollect(tiles)
         IN /\ Unanswered(b) \/ \E items : Lists(b, items) /\ Tells(items, "TomTom")
            /\ tiles = Fails \/ LostTiles(tiles) # {} => b[1].status # "observed"
<1> DEFINE lost == tiles = Fails \/ \A i \in DOMAIN tiles : tiles[i] = Fails
<1>1. CASE lost
  BY <1>1 DEF IncidentsCollect, Unanswered, Unheard, Unavailable
<1>2. CASE ~lost
  <2> DEFINE rows     == FlattenSeq(SelectSeq(tiles, LAMBDA t : t # Fails))
             last     == {i \in DOMAIN rows : /\ rows[i] # None /\ rows[i].id # None
                            /\ \A j \in i + 1 .. Len(rows) :
                                 rows[j] = None \/ rows[j].id # rows[i].id}
             Local(i) == ~rows[i].odd /\ rows[i].category /\ InScope(rows[i])
             Item(r)  == Event("TomTom", r.id, <<"TomTom Traffic">>, r.id, None)
             events   == Items(rows, {i \in last : Local(i)}, Item)
             c        == Collection(<<"TomTom Traffic">>, events)
             odd      == {i \in last : rows[i].odd}
             detail   == {<<"omitted", Cardinality(odd)>> : i \in odd}
                           \union {<<"tile", i>> : i \in LostTiles(tiles)}
  <2>1. IncidentsCollect(tiles) =
          IF detail = {} THEN <<Observed("incidents", c)>>
          ELSE <<Partial("incidents", c, detail)>>
    BY <1>2 DEF IncidentsCollect
  <2>2. Tells(events, "TomTom")
    BY FamiliesAre DEF Tells, Items
  <2>3. LostTiles(tiles) # {} => detail # {}
    OBVIOUS
  <2> HIDE DEF events, detail
  <2>4. Lists(IncidentsCollect(tiles), events)
    BY <2>1 DEF Lists, Collection
  <2>5. LostTiles(tiles) # {} => IncidentsCollect(tiles)[1].status # "observed"
    BY <2>1, <2>3, PartialIs
  <2> QED BY <1>2, <2>2, <2>4, <2>5
<1> QED BY <1>1, <1>2

LEMMA FlowListed ==
  ASSUME NEW probes
  PROVE  LET b == FlowCollect(probes)
         IN /\ Unanswered(b) \/ \E items : Lists(b, items)
            /\ probes = Fails \/ (\E i \in DOMAIN probes : probes[i] = Fails) =>
                 b[1].status # "observed"
<1> DEFINE lost == probes = Fails \/ \A i \in DOMAIN probes : probes[i] = Fails
<1>1. CASE lost
  BY <1>1 DEF FlowCollect, Unanswered, Unheard, Unavailable
<1>2. CASE ~lost
  <2> DEFINE items   == SelectSeq(probes, LAMBDA p : p # Fails)
             c       == Collection(<<"TomTom Traffic">>, items)
             omitted == {i \in DOMAIN probes : probes[i] = Fails}
  <2>1. FlowCollect(probes) = Reported("flow", c, omitted)
    BY <1>2 DEF FlowCollect
  <2> HIDE DEF items
  <2>2. Lists(Reported("flow", c, omitted), items)
    BY ReportedLists DEF Collection
  <2>3. omitted # {} => FlowCollect(probes)[1].status # "observed"
    BY <2>1, PartialIs DEF Reported
  <2> QED BY <1>2, <2>1, <2>2, <2>3
<1> QED BY <1>1, <1>2

LEMMA CamerasListed ==
  ASSUME NEW rows
  PROVE  Unanswered(CamerasCollect(rows)) \/ \E items : Lists(CamerasCollect(rows), items)
<1> DEFINE lost == rows = Fails \/ (\E i \in DOMAIN rows : rows[i] = Fails)
<1>1. CASE lost
  BY <1>1 DEF CamerasCollect, FixturesCollect, Unanswered
<1>2. CASE ~lost
  <2> DEFINE Local(r)    == r.id # None /\ InScope(r)
             Unplaced(r) == r.county /\ (r.id = None \/ r.place = None)
             Item(r)     == [family |-> CameraFamily(r.organization), id |-> r.id]
             items       == Items(rows, Rows(rows, Local), Item)
             c           == Collection(FamilyLabel(items, CameraFamily(None)), items)
             omitted     == Broken(rows) \union Rows(rows, Unplaced)
  <2>1. CamerasCollect(rows) = Reported("cameras", c, omitted)
    BY <1>2 DEF CamerasCollect, FixturesCollect
  <2> HIDE DEF items, omitted
  <2>2. Lists(Reported("cameras", c, omitted), items)
    BY ReportedLists DEF Collection
  <2> QED BY <2>1, <2>2
<1> QED BY <1>1, <1>2

LEMMA SignsListed ==
  ASSUME NEW rows
  PROVE  Unanswered(SignsCollect(rows)) \/ \E items : Lists(SignsCollect(rows), items)
<1> DEFINE lost == rows = Fails \/ (\E i \in DOMAIN rows : rows[i] = Fails)
<1>1. CASE lost
  BY <1>1 DEF SignsCollect, FixturesCollect, Unanswered
<1>2. CASE ~lost
  <2> DEFINE Local(r)    == r.id # None /\ InScope(r)
             Unplaced(r) == r.county /\ (r.id = None \/ r.place = None)
             Item(r)     == [family |-> <<"NCDOT", "ATMS DMS">>, id |-> r.id,
                             messages |-> r.messages]
             Active(s)   == {i \in DOMAIN s : s[i].messages \ {"NO_MESSAGE"} # {}}
             items       == Items(rows, Rows(rows, Local), Item)
             c           == [Collection(<<"NCDOT", "ATMS DMS">>, items) EXCEPT
                               !.active = Cardinality(Active(items))]
             omitted     == Broken(rows) \union Rows(rows, Unplaced)
  <2>1. SignsCollect(rows) = Reported("signs", c, omitted)
    BY <1>2 DEF SignsCollect, FixturesCollect
  <2> HIDE DEF items, omitted
  <2>2. c = [kind |-> "collection", family |-> <<"NCDOT", "ATMS DMS">>, items |-> items,
             active |-> Cardinality(Active(items))]
    BY ActiveIs
  <2>3. Lists(Reported("signs", c, omitted), items)
    BY <2>2, ReportedLists
  <2> QED BY <2>1, <2>3
<1> QED BY <1>1, <1>2

LEMMA Sources ==
  /\ DOMAIN Order = 1 .. 8
  /\ Source = {"events", "signs", "cmpd", "flow", "cameras", "wzdx", "charlotte",
               "incidents"}
  /\ "situation" \notin Source /\ EventSource \subseteq Source
BY DEF Order, Source, ToSet, EventSource

\* What one observation says of its source.
LEMMA OneReport ==
  ASSUME NEW o
  PROVE  /\ <<o>>[1] = o
         /\ Successful(<<o>>) <=> o.status \in {"observed", "partial"}
         /\ Availability(<<o>>) = "unavailable" <=> o.status = "unavailable"
         /\ Availability(<<o>>) = "current" <=>
              o.status \notin {"unavailable", "partial", "retained"}
         /\ Availability(<<o>>) \in {"current", "degraded", "unavailable"}
<1>1. DOMAIN <<o>> = {1} /\ <<o>>[1] = o /\ <<o>> # <<>>
  OBVIOUS
<1>2. Successful(<<o>>) <=> o.status \in {"observed", "partial"}
  BY <1>1 DEF Successful
<1> DEFINE Of(statuses) == {i \in DOMAIN <<o>> : <<o>>[i].status \in statuses}
<1>3. Availability(<<o>>) =
        IF Of({"unavailable"}) = DOMAIN <<o>> THEN "unavailable"
        ELSE IF Of({"unavailable", "partial", "retained"}) # {} THEN "degraded"
        ELSE "current"
  BY <1>1 DEF Availability
<1>4. Of({"unavailable"}) = DOMAIN <<o>> <=> o.status = "unavailable"
  BY <1>1
<1>5. Of({"unavailable", "partial", "retained"}) # {} <=>
        o.status \in {"unavailable", "partial", "retained"}
  BY <1>1
<1> HIDE DEF Of
<1> QED BY <1>1, <1>2, <1>3, <1>4, <1>5

LEMMA UnansweredIs ==
  ASSUME NEW b, Unanswered(b)
  PROVE  /\ b[1].status = "unavailable" /\ b[1].value = None
         /\ Availability(b) = "unavailable" /\ ~Successful(b)
<1>1. PICK source : b = <<Unavailable(source, {<<"failed", source>>})>>
  BY DEF Unanswered, Unheard
<1> DEFINE o == Unavailable(source, {<<"failed", source>>})
<1>2. o.status = "unavailable" /\ o.value = None
  BY DEF Unavailable
<1>3. b = <<o>>
  BY <1>1
<1> HIDE DEF o
<1> QED BY <1>2, <1>3, OneReport

LEMMA ListsIs ==
  ASSUME NEW b, NEW items, Lists(b, items)
  PROVE  /\ b[1].status \in {"observed", "partial"}
         /\ b[1].value.kind = "collection" /\ b[1].value.items = items
         /\ Successful(b) /\ Availability(b) \in {"current", "degraded"}
         /\ Availability(b) = "current" <=> b[1].status = "observed"
<1>1. PICK source, family, active, detail :
        LET c == [kind |-> "collection", family |-> family, items |-> items,
                  active |-> active]
        IN b = <<Observed(source, c)>> \/ b = <<Partial(source, c, detail)>>
  BY DEF Lists
<1> DEFINE c == [kind |-> "collection", family |-> family, items |-> items,
                 active |-> active]
<1>2. PICK o \in {Observed(source, c), Partial(source, c, detail)} : b = <<o>>
  BY <1>1
<1>3. o.status \in {"observed", "partial"} /\ o.value = c
  BY DEF Observed, Partial
<1>4. c.kind = "collection" /\ c.items = items
  OBVIOUS
<1> HIDE DEF c
<1> QED BY <1>2, <1>3, <1>4, OneReport

\* A source tells a collection or nothing; who tells events tells them in its
\* own name; and a request that failed leaves a trace.
LEMMA CollectIs ==
  ASSUME NEW s \in Source, NEW a
  PROVE  LET b == Collect(s, a)
         IN /\ \/ Unanswered(b)
               \/ \E items : Lists(b, items)
                               /\ (s \in EventSource => Tells(items, Teller[s]))
            /\ SomeSilence(s, a) => b[1].status # "observed"
<1> DEFINE b == Collect(s, a)
           Listed == \/ Unanswered(b)
                     \/ \E items : Lists(b, items)
                                     /\ (s \in EventSource => Tells(items, Teller[s]))
           Traced == SomeSilence(s, a) => b[1].status # "observed"
<1>0. a = Fails => EventsCollect(a) = Unheard("events") /\ SignsCollect(a) = Unheard("signs")
        /\ CMPDCollect(a) = Unheard("cmpd") /\ CamerasCollect(a) = Unheard("cameras")
        /\ WZDxCollect(a) = Unheard("wzdx") /\ CharlotteCollect(a) = Unheard("charlotte")
  BY DEF EventsCollect, SignsCollect, CMPDCollect, CamerasCollect, WZDxCollect,
         CharlotteCollect, FixturesCollect
<1>00. \A source : Unheard(source)[1].status = "unavailable"
  BY UnansweredIs DEF Unanswered
<1>1. CASE s = "events"
  <2>1. b = EventsCollect(a)
    BY <1>1 DEF Collect
  <2>2. Listed
    BY <1>1, <2>1, EventsListed DEF Teller
  <2>3. Traced
    BY <1>0, <1>00, <1>1, <2>1 DEF SomeSilence
  <2> QED BY <2>2, <2>3
<1>2. CASE s = "signs"
  <2>1. b = SignsCollect(a)
    BY <1>2 DEF Collect
  <2>2. Listed
    BY <1>2, <2>1, SignsListed DEF EventSource
  <2>3. Traced
    BY <1>0, <1>00, <1>2, <2>1 DEF SomeSilence
  <2> QED BY <2>2, <2>3
<1>3. CASE s = "cmpd"
  <2>1. b = CMPDCollect(a)
    BY <1>3 DEF Collect
  <2>2. Listed
    BY <1>3, <2>1, CMPDListed DEF Teller
  <2>3. Traced
    BY <1>0, <1>00, <1>3, <2>1 DEF SomeSilence
  <2> QED BY <2>2, <2>3
<1>4. CASE s = "flow"
  <2>1. b = FlowCollect(a)
    BY <1>4 DEF Collect
  <2>2. Listed
    BY <1>4, <2>1, FlowListed DEF EventSource
  <2>3. Traced
    BY <1>4, <2>1, FlowListed DEF SomeSilence
  <2> QED BY <2>2, <2>3
<1>5. CASE s = "cameras"
  <2>1. b = CamerasCollect(a)
    BY <1>5 DEF Collect
  <2>2. Listed
    BY <1>5, <2>1, CamerasListed DEF EventSource
  <2>3. Traced
    BY <1>0, <1>00, <1>5, <2>1 DEF SomeSilence
  <2> QED BY <2>2, <2>3
<1>6. CASE s = "wzdx"
  <2>1. b = WZDxCollect(a)
    BY <1>6 DEF Collect
  <2>2. Listed
    BY <1>6, <2>1, WZDxListed DEF Teller
  <2>3. Traced
    BY <1>0, <1>00, <1>6, <2>1 DEF SomeSilence
  <2> QED BY <2>2, <2>3
<1>7. CASE s = "charlotte"
  <2>1. b = CharlotteCollect(a)
    BY <1>7 DEF Collect
  <2>2. Listed
    BY <1>7, <2>1, CharlotteListed DEF Teller
  <2>3. Traced
    BY <1>0, <1>00, <1>7, <2>1 DEF SomeSilence
  <2> QED BY <2>2, <2>3
<1>8. CASE s = "incidents"
  <2>1. b = IncidentsCollect(a)
    BY <1>8 DEF Collect
  <2>2. Listed
    BY <1>8, <2>1, IncidentsListed DEF Teller
  <2>3. Traced
    BY <1>8, <2>1, IncidentsListed DEF SomeSilence, LostTiles
  <2> QED BY <2>2, <2>3
<1> QED BY <1>1, <1>2, <1>3, <1>4, <1>5, <1>6, <1>7, <1>8, Sources

\* What there is in a batch of a source.
LEMMA BatchIs ==
  ASSUME NEW s \in Source, NEW a \in Answers[s]
  PROVE  LET b == Collect(s, a)
         IN /\ Availability(b) \in {"current", "degraded", "unavailable"}
            /\ Successful(b) <=> Availability(b) # "unavailable"
            /\ Successful(b) => b[1].value \in Told(s)
            /\ ~Successful(b) => b[1].value = None
            /\ SomeSilence(s, a) => Availability(b) # "current"
BY CollectIs, UnansweredIs, ListsIs DEF Told

\* What a source may tell.
LEMMA ToldIs ==
  ASSUME NEW s \in Source, NEW c \in Told(s)
  PROVE  /\ c.kind = "collection" /\ c # None
         /\ s \in EventSource => Tells(c.items, Teller[s])
         /\ c.items \in Seq(ToSet(c.items)) /\ Len(c.items) \in Nat /\ c.active \in Nat
         /\ DOMAIN c.items = 1 .. Len(c.items)
<1>1. PICK a \in Answers[s] : Successful(Collect(s, a)) /\ c = Collect(s, a)[1].value
  BY DEF Told
<1>2. c.kind = "collection" /\ (s \in EventSource => Tells(c.items, Teller[s]))
  BY <1>1, CollectIs, UnansweredIs, ListsIs
<1>3. c.items \in Seq(ToSet(c.items)) /\ c.active \in Nat
  BY AnswersAssumption
<1> QED BY <1>2, <1>3, NoneAssumption

-----------------------------------------------------------------------------
(* The situation that is derived                                           *)

LEMMA ImageIsFinite ==
  ASSUME NEW f, IsFiniteSet(DOMAIN f)
  PROVE  IsFiniteSet({f[x] : x \in DOMAIN f})
<1> DEFINE T == {f[x] : x \in DOMAIN f}
           g == [x \in DOMAIN f |-> f[x]]
<1>1. g \in Surjection(DOMAIN f, T)
  BY DEF Surjection
<1> HIDE DEF g
<1> QED BY <1>1, FS_Surjection

\* The events that a set of collections reports, the keys of those, and the
\* kernels.
EventsOf(reports)  == UNION {ToSet(c.items) : c \in reports}
KeysOf(reports)    == {Lineage(e) : e \in EventsOf(reports)}
KernelsOf(reports) == {Kernel(key, EventsOf(reports)) : key \in KeysOf(reports)}
AreReports(reports) == reports \subseteq UNION {Told(s) : s \in EventSource}

LEMMA EventsAreFinite ==
  ASSUME NEW reports, IsFiniteSet(reports), AreReports(reports)
  PROVE  /\ EventsOf(reports) \subseteq Events
         /\ IsFiniteSet(EventsOf(reports))
         /\ IsFiniteSet(KernelsOf(reports))
         /\ IsFiniteSet(UNION {{c} \X DOMAIN c.items : c \in reports})
<1>1. \A c \in reports : Len(c.items) \in Nat /\ DOMAIN c.items = 1 .. Len(c.items)
  <2> SUFFICES ASSUME NEW c \in reports
               PROVE  Len(c.items) \in Nat /\ DOMAIN c.items = 1 .. Len(c.items)
    OBVIOUS
  <2>1. PICK s \in Source : c \in Told(s)
    BY Sources DEF AreReports
  <2> QED BY <2>1, ToldIs
<1>2. \A c \in reports : IsFiniteSet(DOMAIN c.items)
  <2>1. \A n \in Nat : IsFiniteSet(1 .. n)
    BY FS_Interval
  <2> QED BY <1>1, <2>1
<1>3. \A c \in reports : IsFiniteSet(ToSet(c.items))
  BY <1>2, ImageIsFinite DEF ToSet
<1>4. IsFiniteSet(EventsOf(reports))
  <2> DEFINE f == [c \in reports |-> ToSet(c.items)]
  <2>1. DOMAIN f = reports /\ {f[c] : c \in DOMAIN f} = {ToSet(c.items) : c \in reports}
    OBVIOUS
  <2>2. IsFiniteSet({ToSet(c.items) : c \in reports})
    <3> HIDE DEF f
    <3> QED BY <2>1, ImageIsFinite
  <2> QED BY <2>2, <1>3, FS_UNION DEF EventsOf
<1>5. IsFiniteSet(KeysOf(reports))
  <2> DEFINE f == [e \in EventsOf(reports) |-> Lineage(e)]
  <2>1. DOMAIN f = EventsOf(reports) /\ {f[e] : e \in DOMAIN f} = KeysOf(reports)
    BY DEF KeysOf
  <2> HIDE DEF f
  <2> QED BY <2>1, <1>4, ImageIsFinite
<1>6. IsFiniteSet(KernelsOf(reports))
  <2> DEFINE f == [key \in KeysOf(reports) |-> Kernel(key, EventsOf(reports))]
  <2>1. DOMAIN f = KeysOf(reports) /\ {f[key] : key \in DOMAIN f} = KernelsOf(reports)
    BY DEF KernelsOf
  <2> HIDE DEF f
  <2> QED BY <2>1, <1>5, ImageIsFinite
<1>7. IsFiniteSet(UNION {{c} \X DOMAIN c.items : c \in reports})
  <2> DEFINE f == [c \in reports |-> {c} \X DOMAIN c.items]
  <2>1. DOMAIN f = reports
          /\ {f[c] : c \in DOMAIN f} = {{c} \X DOMAIN c.items : c \in reports}
    OBVIOUS
  <2>2. IsFiniteSet({{c} \X DOMAIN c.items : c \in reports})
    <3> HIDE DEF f
    <3> QED BY <2>1, ImageIsFinite
  <2>3. \A c \in reports : IsFiniteSet({c} \X DOMAIN c.items)
    BY <1>2, FS_Product, FS_Singleton
  <2> QED BY <2>2, <2>3, FS_UNION
<1>8. EventsOf(reports) \subseteq Events
  BY DEF EventsOf, Events, AreReports
<1> QED BY <1>4, <1>6, <1>7, <1>8

\* What a situation says of its reports.
LEMMA SituationSays ==
  ASSUME NEW reports, NEW cameras, NEW signs, NEW flow, NEW gaps,
         ~(reports = {} /\ {c \in {cameras, signs, flow} : c # None} = {})
  PROVE  LET x == Situation(reports, cameras, signs, flow, gaps)
         IN /\ x.kind = "situation"
            /\ x.kernels = KernelsOf(reports)
            /\ x.closures = Cardinality({k \in KernelsOf(reports) : k.closed})
BY DEF Situation, KernelsOf, KeysOf, EventsOf

LEMMA SituationIs ==
  ASSUME NEW reports, IsFiniteSet(reports), AreReports(reports),
         NEW cameras \in Told("cameras") \union {None},
         NEW signs \in Told("signs") \union {None},
         NEW flow \in Told("flow") \union {None}, NEW gaps \in SUBSET Source
  PROVE  Situation(reports, cameras, signs, flow, gaps) \in Situations \union {None}
<1> DEFINE others  == {c \in {cameras, signs, flow} : c # None}
           Size(c) == IF c = None THEN 0 ELSE Len(c.items)
           families == {c.family : c \in reports \union others}
                         \union {e.family : e \in EventsOf(reports)}
           closures == Cardinality({k \in KernelsOf(reports) : k.closed})
           records  == Size(cameras) + Size(signs) + Size(flow)
                         + Cardinality(UNION {{c} \X DOMAIN c.items : c \in reports})
           active   == IF signs = None THEN 0 ELSE signs.active
<1>1. CASE reports = {} /\ others = {}
  BY <1>1 DEF Situation
<1>2. CASE ~(reports = {} /\ others = {})
  <2>1. Situation(reports, cameras, signs, flow, gaps) =
          [kind |-> "situation", kernels |-> KernelsOf(reports), closures |-> closures,
           families |-> families, cameras |-> Size(cameras), signs |-> active,
           probes |-> Size(flow), records |-> records, gaps |-> gaps]
    BY <1>2 DEF Situation, KernelsOf, KeysOf, EventsOf
  <2>2. /\ EventsOf(reports) \subseteq Events /\ IsFiniteSet(KernelsOf(reports))
        /\ IsFiniteSet(UNION {{c} \X DOMAIN c.items : c \in reports})
    BY EventsAreFinite
  <2>3. closures \in Nat
    BY <2>2, FS_Subset, FS_CardinalityType
  <2>4. Size(cameras) \in Nat /\ Size(signs) \in Nat /\ Size(flow) \in Nat
    BY ToldIs, Sources
  <2>5. records \in Nat
    <3>1. Cardinality(UNION {{c} \X DOMAIN c.items : c \in reports}) \in Nat
      BY <2>2, FS_CardinalityType
    <3> HIDE DEF Size
    <3> QED BY <2>4, <3>1
  <2>6. active \in Nat
    BY ToldIs, Sources
  <2>7. families \in SUBSET Families
    <3>1. reports \union others \subseteq UNION {Told(s) : s \in Source}
      BY Sources DEF AreReports
    <3> QED BY <2>2, <3>1 DEF Families
  <2>8. KernelsOf(reports) \in SUBSET Kernels
    <3> SUFFICES ASSUME NEW key \in KeysOf(reports)
                 PROVE  Kernel(key, EventsOf(reports)) \in Kernels
      BY DEF KernelsOf
    <3> DEFINE own == {e \in EventsOf(reports) : Lineage(e) = key}
    <3>1. own \subseteq Events
      BY <2>2
    <3>2. key \in {Lineage(e) : e \in Events}
      BY <2>2 DEF KeysOf
    <3>3. {e.family : e \in own} \subseteq Families
      BY <3>1 DEF Families
    <3>4. {<<e.provider, e.record>> : e \in own}
            \in SUBSET {<<e.provider, e.record>> : e \in Events}
      BY <3>1
    <3>5. Kernel(key, EventsOf(reports)) =
            [key |-> key, families |-> {e.family : e \in own},
             records |-> {<<e.provider, e.record>> : e \in own},
             closed |-> \E e \in own : e.closed = TRUE]
      BY DEF Kernel
    <3> HIDE DEF own
    <3>6. PICK isClosed \in BOOLEAN : isClosed = (\E e \in own : e.closed = TRUE)
      OBVIOUS
    <3> QED BY <3>2, <3>3, <3>4, <3>5, <3>6 DEF Kernels
  <2> HIDE DEF closures, families, Size, records, active
  <2> QED BY <2>1, <2>3, <2>4, <2>5, <2>6, <2>7, <2>8 DEF Situations
<1> QED BY <1>1, <1>2

\* Reports that are read are events of a provider that reported them.
LEMMA EventIs ==
  ASSUME NEW reports, AreReports(reports), NEW e \in EventsOf(reports)
  PROVE  /\ \E s \in EventSource : e.provider = Teller[s] /\ InOwn(e.family, Teller[s])
         /\ e = [provider |-> e.provider, record |-> e.record, family |-> e.family,
                 upstream |-> e.upstream, closed |-> e.closed]
<1>1. PICK c \in reports : e \in ToSet(c.items)
  BY DEF EventsOf
<1>2. PICK s \in EventSource : c \in Told(s)
  BY DEF AreReports
<1>3. Tells(c.items, Teller[s])
  BY <1>2, ToldIs, Sources
<1>4. PICK record, family, upstream, closed :
        /\ e = Event(Teller[s], record, family, upstream, closed)
        /\ InOwn(family, Teller[s])
  BY <1>1, <1>3 DEF Tells, ToSet
<1>5. e = [provider |-> e.provider, record |-> e.record, family |-> e.family,
           upstream |-> e.upstream, closed |-> e.closed]
  BY <1>4 DEF Event
<1>6. e.provider = Teller[s] /\ InOwn(e.family, Teller[s])
  BY <1>4 DEF Event
<1> QED BY <1>5, <1>6

\* Two providers have one family only if it is that of NCDOT's own system.
LEMMA SharedFamily ==
  ASSUME NEW reports, AreReports(reports),
         NEW e \in EventsOf(reports), NEW f \in EventsOf(reports),
         e.provider # f.provider, e.family = f.family
  PROVE  e.family = ATMSERS
<1>1. PICK s \in EventSource : e.provider = Teller[s] /\ InOwn(e.family, Teller[s])
  BY EventIs
<1>2. PICK t \in EventSource : f.provider = Teller[t] /\ InOwn(f.family, Teller[t])
  BY EventIs
<1>3. \A p, q \in {"DriveNC", "WZDx", "CMPD", "Charlotte", "TomTom"} :
        p # q => Roots[p] \intersect Roots[q] = {}
  <2>1. /\ Roots["DriveNC"] = {"DriveNC", "Waze"} /\ Roots["WZDx"] = {"NCDOT"}
        /\ Roots["CMPD"] = {"CMPD CAD"}           /\ Roots["TomTom"] = {"TomTom Traffic"}
        /\ Roots["Charlotte"] = {"City of Charlotte"}
    BY DEF Roots
  <2> QED BY <2>1
<1>4. \A u \in EventSource : Teller[u] \in {"DriveNC", "WZDx", "CMPD", "Charlotte", "TomTom"}
  BY DEF EventSource, Teller
<1>5. Roots[Teller[s]] \intersect Roots[Teller[t]] = {}
  BY <1>1, <1>2, <1>3, <1>4
<1> QED BY <1>1, <1>2, <1>5 DEF InOwn

\* Reports of one event.
OneEvent(e, f) ==
  e.family = f.family /\ IF e.upstream # None THEN e.upstream = f.upstream ELSE e = f

\* The key of an event names its family, and what it is of that family.
LEMMA LineageIs ==
  ASSUME NEW reports, AreReports(reports),
         NEW e \in EventsOf(reports), NEW f \in EventsOf(reports)
  PROVE  /\ Lineage(e) = Lineage(f) => e.family = f.family
         /\ e.closed = TRUE /\ f.closed = TRUE =>
              (Lineage(e) = Lineage(f) <=> OneEvent(e, f))
<1> USE DEF OneEvent
<1>1. CASE e.upstream # None /\ f.upstream # None
  <2>1. Lineage(e) = <<"lineage-id", e.family, e.upstream, None>>
        /\ Lineage(f) = <<"lineage-id", f.family, f.upstream, None>>
    BY <1>1 DEF Lineage
  <2> QED BY <1>1, <2>1
<1>2. CASE e.upstream = None /\ f.upstream = None
  <2>1. Lineage(e) = <<"source-record", e.family, e.provider, e.record>>
        /\ Lineage(f) = <<"source-record", f.family, f.provider, f.record>>
    BY <1>2 DEF Lineage
  <2>2. ASSUME Lineage(e) = Lineage(f), e.closed = TRUE, f.closed = TRUE
        PROVE  e = f
    <3>1. e.family = f.family /\ e.provider = f.provider /\ e.record = f.record
      BY <2>1, <2>2
    <3>2. /\ e = [provider |-> e.provider, record |-> e.record, family |-> e.family,
                  upstream |-> e.upstream, closed |-> e.closed]
          /\ f = [provider |-> f.provider, record |-> f.record, family |-> f.family,
                  upstream |-> f.upstream, closed |-> f.closed]
      BY EventIs
    <3> QED BY <1>2, <2>2, <3>1, <3>2
  <2>3. Lineage(e) = Lineage(f) => e.family = f.family
    BY <2>1
  <2> QED BY <1>2, <2>2, <2>3
<1>3. CASE (e.upstream = None) # (f.upstream = None)
  <2>1. Lineage(e) # Lineage(f)
    BY <1>3 DEF Lineage
  <2> QED BY <1>3, <2>1
<1> QED BY <1>1, <1>2, <1>3

\* As many kernels are closed as there are classes of closures, a kernel has
\* the events of one family, and the kernels have the records of all events.
LEMMA KernelsAre ==
  ASSUME NEW reports, IsFiniteSet(reports), AreReports(reports)
  PROVE  LET events == EventsOf(reports)
             closed == {e \in events : e.closed = TRUE}
         IN /\ Cardinality({k \in KernelsOf(reports) : k.closed}) =
                 Cardinality({{f \in closed : OneEvent(e, f)} : e \in closed})
            /\ \A k \in KernelsOf(reports) : Cardinality(k.families) = 1
            /\ \A k \in KernelsOf(reports) : \A r, s \in k.records :
                 r[1] # s[1] => k.families = {ATMSERS}
            /\ {<<e.provider, e.record>> : e \in events} =
                 UNION {k.records : k \in KernelsOf(reports)}
<1> DEFINE events == EventsOf(reports)
           closed == {e \in events : e.closed = TRUE}
           Class(e) == {f \in closed : OneEvent(e, f)}
           classes == {Class(e) : e \in closed}
           own(key) == {e \in events : Lineage(e) = key}
<1>1. \A key : /\ Kernel(key, events).key = key
               /\ Kernel(key, events).families = {e.family : e \in own(key)}
               /\ Kernel(key, events).records = {<<e.provider, e.record>> : e \in own(key)}
               /\ Kernel(key, events).closed = (\E e \in own(key) : e.closed = TRUE)
  BY DEF Kernel
<1>2. \A k \in KernelsOf(reports) : Cardinality(k.families) = 1
  <2> SUFFICES ASSUME NEW e \in events
               PROVE  Cardinality(Kernel(Lineage(e), events).families) = 1
    BY DEF KernelsOf, KeysOf
  <2>1. \A f \in own(Lineage(e)) : f.family = e.family
    BY LineageIs
  <2>2. e \in own(Lineage(e))
    OBVIOUS
  <2>3. Kernel(Lineage(e), events).families = {e.family}
    BY <1>1, <2>1, <2>2
  <2> QED BY <2>3, FS_Singleton
<1>20. ASSUME NEW k \in KernelsOf(reports), NEW r \in k.records, NEW s \in k.records,
              r[1] # s[1]
       PROVE  k.families = {ATMSERS}
  <2>1. PICK key : k = Kernel(key, events)
    BY DEF KernelsOf
  <2>2. PICK e \in own(key) : r = <<e.provider, e.record>>
    BY <1>1, <2>1
  <2>3. PICK f \in own(key) : s = <<f.provider, f.record>>
    BY <1>1, <2>1
  <2>4. e \in events /\ f \in events /\ Lineage(e) = key /\ Lineage(f) = key
        /\ e.provider # f.provider
    BY <1>20, <2>2, <2>3
  <2>5. e.family = ATMSERS
    BY <2>4, LineageIs, SharedFamily
  <2>6. \A g \in own(key) : g.family = e.family
    BY <2>4, LineageIs
  <2> HIDE DEF own
  <2> QED BY <1>1, <2>1, <2>2, <2>5, <2>6
<1>3. {<<e.provider, e.record>> : e \in events} = UNION {k.records : k \in KernelsOf(reports)}
  <2>1. ASSUME NEW e \in events
        PROVE  <<e.provider, e.record>> \in UNION {k.records : k \in KernelsOf(reports)}
    <3>1. Kernel(Lineage(e), events) \in KernelsOf(reports)
      BY DEF KernelsOf, KeysOf
    <3>2. <<e.provider, e.record>> \in Kernel(Lineage(e), events).records
      BY <1>1
    <3> QED BY <3>1, <3>2
  <2>2. ASSUME NEW k \in KernelsOf(reports), NEW r \in k.records
        PROVE  r \in {<<e.provider, e.record>> : e \in events}
    <3>1. PICK key : k = Kernel(key, events)
      BY DEF KernelsOf
    <3> QED BY <1>1, <2>2, <3>1
  <2> QED BY <2>1, <2>2
<1>4. Cardinality({k \in KernelsOf(reports) : k.closed}) = Cardinality(classes)
  <2> DEFINE T == {k \in KernelsOf(reports) : k.closed}
             member == [C \in classes |-> CHOOSE e \in closed : C = Class(e)]
             g == [C \in classes |-> Kernel(Lineage(member[C]), events)]
  <2>1. \A C \in classes : member[C] \in closed /\ C = Class(member[C])
    OBVIOUS
  <2>2. ASSUME NEW e \in closed, NEW f \in closed
        PROVE  Lineage(e) = Lineage(f) <=> OneEvent(e, f)
    <3>1. e \in events /\ f \in events /\ e.closed = TRUE /\ f.closed = TRUE
      OBVIOUS
    <3> QED BY <3>1, LineageIs
  <2>3. \A e, f \in closed : OneEvent(e, f) <=> Class(e) = Class(f)
    <3>1. ASSUME NEW e \in closed, NEW f \in closed, OneEvent(e, f)
          PROVE  Class(e) = Class(f)
      BY <2>2, <3>1
    <3>2. ASSUME NEW e \in closed, NEW f \in closed, Class(e) = Class(f)
          PROVE  OneEvent(e, f)
      <4>1. f \in Class(f)
        BY <2>2
      <4> QED BY <3>2, <4>1
    <3> QED BY <3>1, <3>2
  <2>4. g \in [classes -> T]
    <3> SUFFICES ASSUME NEW C \in classes PROVE Kernel(Lineage(member[C]), events) \in T
      OBVIOUS
    <3>1. member[C] \in closed /\ member[C] \in events
      BY <2>1
    <3> HIDE DEF member
    <3>2. Kernel(Lineage(member[C]), events) \in KernelsOf(reports)
      BY <3>1 DEF KernelsOf, KeysOf
    <3>3. member[C] \in own(Lineage(member[C])) /\ member[C].closed = TRUE
      BY <3>1
    <3>4. Kernel(Lineage(member[C]), events).closed
      BY <1>1, <3>3
    <3> QED BY <3>2, <3>4
  <2>5. ASSUME NEW C \in classes, NEW D \in classes, g[C] = g[D]
        PROVE  C = D
    <3>1. member[C] \in closed /\ member[D] \in closed
            /\ C = Class(member[C]) /\ D = Class(member[D])
      BY <2>1
    <3> HIDE DEF member
    <3>2. Lineage(member[C]) = Lineage(member[D])
      BY <1>1, <2>5
    <3> QED BY <2>2, <2>3, <3>1, <3>2
  <2>6. ASSUME NEW k \in T
        PROVE  \E C \in classes : g[C] = k
    <3>1. PICK key \in KeysOf(reports) : k = Kernel(key, events)
      BY DEF KernelsOf
    <3>2. PICK e \in own(key) : e.closed = TRUE
      BY <1>1, <3>1
    <3>3. e \in closed /\ Class(e) \in classes /\ Lineage(e) = key
      BY <3>2
    <3>4. member[Class(e)] \in closed /\ Class(e) = Class(member[Class(e)])
      BY <2>1, <3>3
    <3> HIDE DEF member, Class
    <3>5. Lineage(member[Class(e)]) = key
      BY <2>2, <2>3, <3>3, <3>4
    <3> QED BY <3>1, <3>3, <3>5
  <2>7. g \in Bijection(classes, T)
    <3> HIDE DEF g, T, classes
    <3> QED BY <2>4, <2>5, <2>6 DEF Bijection, Injection, IsInjective, Surjection
  <2>8. IsFiniteSet(classes)
    <3> DEFINE h == [e \in closed |-> Class(e)]
    <3>1. DOMAIN h = closed /\ {h[e] : e \in DOMAIN h} = classes
      OBVIOUS
    <3>2. IsFiniteSet(closed)
      BY EventsAreFinite, FS_Subset
    <3> HIDE DEF h, closed, classes
    <3> QED BY <3>1, <3>2, ImageIsFinite
  <2>9. Cardinality(T) = Cardinality(classes)
    <3> HIDE DEF g, T, classes
    <3>1. ExistsBijection(classes, T)
      BY <2>7 DEF ExistsBijection
    <3> QED BY <2>8, <3>1, FS_Bijection
  <2> QED BY <2>9
<1> QED BY <1>2, <1>20, <1>3, <1>4

-----------------------------------------------------------------------------
(* The inductive invariant                                                 *)

Entities       == Source \union {"situation"}
Availabilities == {None, "current", "degraded", "unavailable"}
Said(s)        == IF s = "situation" THEN Situations ELSE Told(s)
States         == (UNION {Told(s) : s \in Source}) \union Situations \union {None}
InUse          == {"current", "degraded"}

\* What is in the store or in a snapshot: a source has what it may tell, and
\* what may be used is there.
Worlds ==
  {w \in [Entities -> [state : States, availability : Availabilities]] :
     \A s \in Entities :
       /\ w[s].state \in Said(s) \union {None}
       /\ w[s].availability \in InUse => w[s].state # None}

Handling == worker.at \in {"store", "qualify"}

Typed ==
  /\ config \in Configs \union {None} /\ boots \in 0 .. Boots
  /\ world \in Worlds /\ disk \in Worlds
  /\ worker = [at |-> worker.at, source |-> worker.source,
               entity |-> worker.entity, batch |-> worker.batch]
  /\ worker.at \in {"wait", "ask", "derive", "store", "qualify"}
  /\ worker.at = "wait" => worker = Waiting
  /\ worker.at # "wait" => worker.source \in due
  /\ ~Handling => worker.entity = None
  /\ heard \union silent \union due \subseteq {s \in Source : config # None /\ Enabled(s)}
  /\ config = None => world = NoWorld
  /\ config # None => world["situation"].availability # None

\* The batch that is ingested is one that the source answered, or the situation
\* that the sources give.
Answered ==
  Handling =>
    \/ /\ worker.entity = worker.source
       /\ \E a \in Answers[worker.source] :
            /\ worker.batch = Collect(worker.source, a)
            /\ Successful(worker.batch) => worker.source \in heard
            /\ SomeSilence(worker.source, a) <=> worker.source \in silent
    \/ worker.entity = "situation" /\ worker.batch = SituationBatch

\* Its component is stored before its availability.
Stored ==
  worker.at = "qualify" =>
    worker.batch[1].value \in {None, world[worker.entity].state}

\* What may be used of an enabled source has been heard by this process; and
\* what is current is of a source that did not fall silent, unless it is only
\* now being ingested.
HeardSources ==
  config # None =>
    \A s \in Source : Enabled(s) /\ world[s].availability \in InUse =>
      /\ s \in heard
      /\ world[s].availability = "current" =>
           s \notin silent \/ (Handling /\ worker.entity = s)

\* Every record of a situation is of a source that was heard.
OfHeard(x) ==
  \A k \in x.kernels : \A r \in k.records :
    \E s \in heard \intersect EventSource : Teller[s] = r[1]

HeardSituation ==
  config # None /\ world["situation"].availability \in InUse =>
    OfHeard(world["situation"].state)

\* Between two collections the situation is what the sources give, or it was
\* withdrawn when the process started.
Follows ==
  Between =>
    \/ world["situation"].availability = "unavailable"
    \/ /\ world["situation"].availability = Availability(SituationBatch)
       /\ SituationNow \in {None, world["situation"].state}

TrafficInv ==
  Typed /\ Answered /\ Stored /\ HeardSources /\ HeardSituation /\ Follows

-----------------------------------------------------------------------------
(* What a step rests on                                                    *)

LEMMA SmallestIs ==
  ASSUME NEW S \in SUBSET Nat, S # {}
  PROVE  \E n \in S : \A m \in S : n <= m
<1>1. IsWellFoundedOn(OpToRel(<, Nat), Nat)
  BY NatLessThanWellFounded
<1>2. PICK n \in S : \A m \in S : ~(<<m, n>> \in OpToRel(<, Nat))
  BY <1>1, WFMin
<1>3. \A m \in S : ~(m < n)
  BY <1>2 DEF OpToRel
<1> QED BY <1>3

\* A pass goes on with a source that is due, or ends.
LEMMA OnwardIs ==
  ASSUME NEW i, NEW dues \in SUBSET Source
  PROVE  Onward(i, dues) = Waiting \/ \E s \in dues : Onward(i, dues) = Asking(s)
<1> DEFINE S == DueAfter(i, dues)
<1>1. CASE S = {}
  BY <1>1 DEF Onward
<1>2. CASE S # {}
  <2>1. S \in SUBSET Nat
    BY Sources DEF DueAfter
  <2>2. \E n \in S : \A m \in S : n <= m
    BY <1>2, <2>1, SmallestIs
  <2>3. Min(S) \in S
    <3> HIDE DEF S
    <3> QED BY <2>2 DEF Min
  <2>4. Order[Min(S)] \in dues
    BY <2>3 DEF DueAfter
  <2> QED BY <1>2, <2>4 DEF Onward
<1> QED BY <1>1, <1>2

LEMMA WaitingIs ==
  /\ Waiting = [at |-> "wait", source |-> None, entity |-> None, batch |-> <<>>]
  /\ \A s : Asking(s) = [at |-> "ask", source |-> s, entity |-> None, batch |-> <<>>]
  /\ \A s : [Asking(s) EXCEPT !.at = "derive"] =
              [at |-> "derive", source |-> s, entity |-> None, batch |-> <<>>]
<1>1. Waiting = [at |-> "wait", source |-> None, entity |-> None, batch |-> <<>>]
  BY DEF Waiting
<1>2. ASSUME NEW s
      PROVE  Asking(s) = [at |-> "ask", source |-> s, entity |-> None, batch |-> <<>>]
  <2> DEFINE r == [at |-> "wait", source |-> None, entity |-> None, batch |-> <<>>]
             q == [r EXCEPT !.at = "ask"]
  <2>1. Asking(s) = [q EXCEPT !.source = s]
    BY <1>1 DEF Asking
  <2>2. q = [at |-> "ask", source |-> None, entity |-> None, batch |-> <<>>]
    OBVIOUS
  <2> QED BY <2>1, <2>2
<1>3. ASSUME NEW s
      PROVE  [Asking(s) EXCEPT !.at = "derive"] =
               [at |-> "derive", source |-> s, entity |-> None, batch |-> <<>>]
  BY <1>2
<1> QED BY <1>1, <1>2, <1>3

LEMMA WorldIs ==
  ASSUME NEW w \in Worlds, NEW s \in Entities
  PROVE  /\ DOMAIN w = Entities
         /\ w[s] = [state |-> w[s].state, availability |-> w[s].availability]
         /\ w[s].state \in Said(s) \union {None} /\ w[s].availability \in Availabilities
         /\ w[s].availability \in InUse => w[s].state # None
BY DEF Worlds

\* A world with one entity changed.
LEMMA ChangedWorld ==
  ASSUME NEW w \in Worlds, NEW e \in Entities,
         NEW x \in Said(e) \union {None}, NEW v \in Availabilities,
         v \in InUse => x # None
  PROVE  [w EXCEPT ![e] = [state |-> x, availability |-> v]] \in Worlds
<1> DEFINE c == [state |-> x, availability |-> v]
           u == [w EXCEPT ![e] = c]
<1>1. x \in States
  <2>1. CASE e = "situation"
    BY <2>1 DEF Said, States
  <2>2. CASE e # "situation"
    <3>1. e \in Source /\ x \in Told(e) \union {None}
      BY <2>2 DEF Said, Entities
    <3> QED BY <3>1 DEF States
  <2> QED BY <2>1, <2>2
<1>2. c \in [state : States, availability : Availabilities]
  BY <1>1
<1>3. c.state = x /\ c.availability = v
  OBVIOUS
<1> HIDE DEF c
<1>4. w \in [Entities -> [state : States, availability : Availabilities]]
  BY DEF Worlds
<1>5. u \in [Entities -> [state : States, availability : Availabilities]]
  BY <1>2, <1>4
<1>6. \A s \in Entities : u[s] = IF s = e THEN c ELSE w[s]
  BY <1>4
<1> HIDE DEF u
<1>7. \A s \in Entities : /\ u[s].state \in Said(s) \union {None}
                          /\ u[s].availability \in InUse => u[s].state # None
  BY <1>3, <1>6, WorldIs
<1>8. u \in Worlds
  BY <1>5, <1>7 DEF Worlds
<1> QED BY <1>8 DEF u, c

LEMMA NoWorldIs ==
  /\ NoWorld \in Worlds
  /\ \A s \in Entities : NoWorld[s].state = None /\ NoWorld[s].availability = None
<1>1. \A s \in Entities : NoWorld[s] = [state |-> None, availability |-> None]
  BY DEF NoWorld, Entities
<1>2. DOMAIN NoWorld = Entities /\ NoWorld = [s \in Entities |-> NoWorld[s]]
  BY DEF NoWorld, Entities
<1>3. NoWorld \in [Entities -> [state : States, availability : Availabilities]]
  <2>1. None \in States /\ None \in Availabilities
    BY DEF States, Availabilities
  <2>2. \A s \in Entities : NoWorld[s] \in [state : States, availability : Availabilities]
    BY <1>1, <2>1
  <2> HIDE DEF Entities
  <2> QED BY <1>2, <2>2
<1> QED BY <1>1, <1>3, NoneAssumption DEF Worlds, InUse

\* The sources that are read, and what they reported.
Reports == {world[s].state : s \in {e \in EventSource : Enabled(e) /\ Usable(e)}}
OtherOf(s) == IF Usable(s) THEN world[s].state ELSE None

LEMMA SituationNowIs ==
  SituationNow = Situation(Reports, OtherOf("cameras"), OtherOf("signs"), OtherOf("flow"), Gaps)
BY DEF SituationNow, Reports, OtherOf

LEMMA UsableIs ==
  ASSUME world \in Worlds, NEW s \in Source, Usable(s)
  PROVE  world[s].state \in Told(s) /\ world[s].availability \in InUse
BY WorldIs, Sources DEF Usable, Entities, Said, InUse

LEMMA ReportsAre ==
  ASSUME world \in Worlds
  PROVE  /\ IsFiniteSet(Reports) /\ AreReports(Reports)
         /\ \A s \in {"cameras", "signs", "flow"} : OtherOf(s) \in Told(s) \union {None}
         /\ Gaps \in SUBSET Source
<1> DEFINE S == {e \in EventSource : Enabled(e) /\ Usable(e)}
           f == [s \in S |-> world[s].state]
<1>1. AreReports(Reports)
  BY UsableIs, Sources DEF Reports, AreReports
<1>2. IsFiniteSet(EventSource)
  <2>1. EventSource = {"events"} \union {"wzdx"} \union {"cmpd"} \union {"charlotte"}
                        \union {"incidents"}
    BY DEF EventSource
  <2> QED BY <2>1, FS_Singleton, FS_Union
<1>3. IsFiniteSet(S)
  BY <1>2, FS_Subset
<1>4. DOMAIN f = S /\ {f[s] : s \in DOMAIN f} = Reports
  BY DEF Reports
<1>5. IsFiniteSet(Reports)
  <2> HIDE DEF f, S
  <2> QED BY <1>3, <1>4, ImageIsFinite
<1>6. \A s \in {"cameras", "signs", "flow"} : OtherOf(s) \in Told(s) \union {None}
  BY UsableIs, Sources DEF OtherOf
<1>7. Gaps \in SUBSET Source
  BY DEF Gaps
<1> QED BY <1>1, <1>5, <1>6, <1>7

LEMMA SituationNowSaid ==
  ASSUME world \in Worlds
  PROVE  /\ SituationNow \in Situations \union {None}
         /\ SituationNow # None =>
              /\ SituationNow.kind = "situation"
              /\ SituationNow.kernels = KernelsOf(Reports)
              /\ SituationNow.closures = Cardinality({k \in KernelsOf(Reports) : k.closed})
<1>1. SituationNow \in Situations \union {None}
  BY ReportsAre, SituationIs, SituationNowIs
<1>2. ASSUME SituationNow # None
      PROVE  ~(Reports = {} /\ {c \in {OtherOf("cameras"), OtherOf("signs"),
                                       OtherOf("flow")} : c # None} = {})
  BY <1>2, SituationNowIs DEF Situation
<1>3. ASSUME SituationNow # None
      PROVE  /\ SituationNow.kind = "situation"
             /\ SituationNow.kernels = KernelsOf(Reports)
             /\ SituationNow.closures = Cardinality({k \in KernelsOf(Reports) : k.closed})
  <2> DEFINE cameras == OtherOf("cameras")
             signs   == OtherOf("signs")
             flow    == OtherOf("flow")
  <2>1. ~(Reports = {} /\ {c \in {cameras, signs, flow} : c # None} = {})
    BY <1>2, <1>3
  <2>2. SituationNow = Situation(Reports, cameras, signs, flow, Gaps)
    BY SituationNowIs
  <2> HIDE DEF cameras, signs, flow
  <2> QED BY <2>1, <2>2, SituationSays
<1> QED BY <1>1, <1>3

\* What a batch of the situation says.
LEMMA SituationBatchIs ==
  ASSUME world \in Worlds
  PROVE  /\ SituationBatch[1].value = SituationNow
         /\ Availability(SituationBatch) \in {"current", "degraded", "unavailable"}
         /\ Availability(SituationBatch) = "unavailable" <=> SituationNow = None
         /\ Availability(SituationBatch) = "current" =>
              Gaps = {} /\ \A s \in Source : ~Degraded(s)
<1>1. CASE SituationNow = None
  <2> DEFINE o == Unavailable("traffic.fusion", {"no source"})
  <2>1. SituationBatch = <<o>> /\ o.status = "unavailable" /\ o.value = None
    BY <1>1 DEF SituationBatch, Unavailable
  <2> HIDE DEF o
  <2> QED BY <1>1, <2>1, OneReport
<1>2. CASE SituationNow # None /\ (Gaps # {} \/ \E s \in Source : Degraded(s))
  <2> DEFINE o == Partial("traffic.fusion", SituationNow, {"degraded"})
  <2>1. SituationBatch = <<o>> /\ o.status = "partial" /\ o.value = SituationNow
    BY <1>2 DEF SituationBatch, Partial
  <2> HIDE DEF o
  <2> QED BY <1>2, <2>1, OneReport
<1>3. CASE SituationNow # None /\ ~(Gaps # {} \/ \E s \in Source : Degraded(s))
  <2> DEFINE o == Observed("traffic.fusion", SituationNow)
  <2>1. SituationBatch = <<o>> /\ o.status = "observed" /\ o.value = SituationNow
    BY <1>3 DEF SituationBatch, Observed
  <2> HIDE DEF o
  <2> QED BY <1>3, <2>1, OneReport
<1> QED BY <1>1, <1>2, <1>3

\* It depends on the sources only.
LEMMA SituationIsKept ==
  ASSUME config' = config, \A s \in Source : world'[s] = world[s]
  PROVE  SituationNow' = SituationNow /\ SituationBatch' = SituationBatch
<1>1. \A s \in Source : /\ Enabled(s)' = Enabled(s) /\ Usable(s)' = Usable(s)
                        /\ Missing(s)' = Missing(s) /\ Degraded(s)' = Degraded(s)
  BY DEF Enabled, Usable, Missing, Degraded
<1>2. Reports' = Reports
  BY <1>1, Sources DEF Reports
<1>3. Gaps' = Gaps
  BY <1>1 DEF Gaps
<1>4. \A s \in Source : OtherOf(s)' = OtherOf(s)
  BY <1>1 DEF OtherOf
<1>5. SituationNow' = SituationNow
  <2>1. SituationNow' = Situation(Reports', OtherOf("cameras")', OtherOf("signs")',
                                  OtherOf("flow")', Gaps')
    BY DEF SituationNow, Reports, OtherOf
  <2> QED BY <1>2, <1>3, <1>4, <2>1, SituationNowIs, Sources
<1>6. SituationBatch' = SituationBatch
  BY <1>1, <1>3, <1>5 DEF SituationBatch
<1> QED BY <1>5, <1>6

-----------------------------------------------------------------------------
(* One lemma per action                                                    *)

\* Whoever works, works for a process.
LEMMA WorkIsUp ==
  ASSUME Typed, worker.at # "wait"
  PROVE  /\ config # None /\ worker.source \in Source /\ Enabled(worker.source)
         /\ worker.source \in due
BY DEF Typed

LEMMA InitTraffic == Init => TrafficInv
<1> SUFFICES ASSUME Init PROVE TrafficInv
  OBVIOUS
<1>1. worker.at = "wait" /\ worker.source = None /\ worker.entity = None
        /\ worker.batch = <<>>
  BY WaitingIs DEF Init
<1>2. Typed
  <2>1. worker = [at |-> worker.at, source |-> worker.source,
                  entity |-> worker.entity, batch |-> worker.batch]
    BY <1>1, WaitingIs DEF Init
  <2>2. world \in Worlds /\ disk \in Worlds /\ world = NoWorld
    BY NoWorldIs DEF Init
  <2>3. config = None /\ boots \in 0 .. Boots
    BY BootsAssumption DEF Init
  <2>4. heard \union silent \union due = {} /\ worker = Waiting
    BY DEF Init
  <2> QED BY <1>1, <2>1, <2>2, <2>3, <2>4 DEF Typed, Handling
<1>3. Answered /\ Stored /\ HeardSources /\ HeardSituation /\ Follows
  BY <1>1 DEF Init, Answered, Stored, HeardSources, HeardSituation, Follows, Handling, Between
<1> QED BY <1>2, <1>3 DEF TrafficInv

LEMMA StepBegin == TrafficInv /\ BeginPass => TrafficInv'
<1> SUFFICES ASSUME TrafficInv, BeginPass PROVE TrafficInv'
  OBVIOUS
<1> USE DEF TrafficInv
<1>1. /\ UNCHANGED <<config, disk, boots, world, due, heard, silent>>
      /\ worker.at = "wait" /\ worker' = Onward(0, due) /\ due # {}
  BY DEF BeginPass, process
<1>2. config # None /\ due \subseteq Source
  BY <1>1 DEF Typed
<1>3. PICK s \in due \union {None} :
        worker' = Waiting \/ (s \in due /\ worker' = Asking(s))
  BY <1>1, <1>2, OnwardIs
<1>4. /\ worker' = [at |-> worker'.at, source |-> worker'.source,
                    entity |-> worker'.entity, batch |-> worker'.batch]
      /\ worker'.at \in {"wait", "ask"} /\ worker'.entity = None
      /\ worker'.at = "wait" => worker' = Waiting
      /\ worker'.at # "wait" => worker'.source \in due
  BY <1>3, WaitingIs
<1>5. SituationNow' = SituationNow /\ SituationBatch' = SituationBatch
  BY <1>1, SituationIsKept
<1>6. ~Handling /\ ~Handling'
  BY <1>1, <1>4 DEF Handling
<1>7. Typed'
  BY <1>1, <1>4, <1>6 DEF Typed, Enabled
<1>8. Answered' /\ Stored'
  BY <1>4, <1>6 DEF Answered, Stored
<1>9. HeardSources' /\ HeardSituation'
  BY <1>1, <1>6 DEF HeardSources, HeardSituation, OfHeard, Enabled
<1>10. Follows'
  BY <1>1, <1>2, <1>5 DEF Follows, Between
<1> QED BY <1>7, <1>8, <1>9, <1>10

LEMMA StepExpire ==
  ASSUME TrafficInv, NEW s \in Source, Expire(s)
  PROVE  TrafficInv'
<1> USE DEF TrafficInv
<1>1. /\ UNCHANGED <<config, disk, boots, world, worker, heard, silent>>
      /\ due' = due \union {s} /\ config # None /\ Enabled(s)
  BY DEF Expire, process
<1>2. SituationNow' = SituationNow /\ SituationBatch' = SituationBatch
  BY <1>1, SituationIsKept
<1>3. Handling' = Handling
  BY <1>1 DEF Handling
<1>4. Typed'
  BY <1>1, <1>3 DEF Typed, Enabled
<1>5. Answered' /\ Stored'
  BY <1>1, <1>2, <1>3 DEF Answered, Stored
<1>6. HeardSources' /\ HeardSituation'
  BY <1>1, <1>3 DEF HeardSources, HeardSituation, OfHeard, Enabled
<1>7. Follows'
  BY <1>1, <1>2 DEF Follows, Between
<1> QED BY <1>4, <1>5, <1>6, <1>7

LEMMA StepAnswer ==
  ASSUME TrafficInv, worker.at = "ask", NEW answer \in Answers[worker.source],
         Answer(answer)
  PROVE  TrafficInv'
<1> USE DEF TrafficInv
<1> DEFINE s == worker.source
           b == Collect(s, answer)
<1>1. /\ UNCHANGED <<config, disk, boots, world, due>>
      /\ worker' = [at |-> "store", source |-> s, entity |-> s, batch |-> b]
      /\ heard' = IF Successful(b) THEN heard \union {s} ELSE heard
      /\ silent' = IF SomeSilence(s, answer) THEN silent \union {s} ELSE silent \ {s}
  BY DEF Answer, process, Ingesting
<1>2. config # None /\ s \in Source /\ Enabled(s) /\ s \in due
  BY WorkIsUp
<1> HIDE DEF s, b
<1>3. worker'.at = "store" /\ worker'.source = s /\ worker'.entity = s
        /\ worker'.batch = b
  BY <1>1
<1>4. Handling' /\ ~Handling /\ worker'.entity # "situation"
  BY <1>2, <1>3, Sources DEF Handling
<1>5. Typed'
  BY <1>1, <1>2, <1>3, <1>4 DEF Typed, Enabled
<1>6. Answered'
  <2>1. answer \in Answers[s] /\ b = Collect(s, answer)
    BY DEF s, b
  <2>2. Successful(b) => s \in heard'
    BY <1>1
  <2>3. SomeSilence(s, answer) <=> s \in silent'
    BY <1>1
  <2> QED BY <1>3, <2>1, <2>2, <2>3 DEF Answered
<1>7. Stored'
  BY <1>3 DEF Stored
<1>8. HeardSources'
  <2> SUFFICES ASSUME NEW e \in Source, Enabled(e), world[e].availability \in InUse
               PROVE  /\ e \in heard'
                      /\ world[e].availability = "current" =>
                           e \notin silent' \/ (Handling' /\ worker'.entity = e)
    BY <1>1 DEF HeardSources, Enabled
  <2>1. /\ e \in heard
        /\ world[e].availability = "current" => e \notin silent
    BY <1>2, <1>4 DEF HeardSources
  <2> QED BY <1>1, <1>3, <1>4, <2>1
<1>9. HeardSituation'
  BY <1>1 DEF HeardSituation, OfHeard
<1>10. Follows'
  BY <1>3 DEF Follows, Between
<1> QED BY <1>5, <1>6, <1>7, <1>8, <1>9, <1>10

LEMMA StepDerive == TrafficInv /\ Derive => TrafficInv'
<1> SUFFICES ASSUME TrafficInv, Derive PROVE TrafficInv'
  OBVIOUS
<1> USE DEF TrafficInv
<1> DEFINE s == worker.source
           b == SituationBatch
<1>1. /\ UNCHANGED <<config, disk, boots, world, due, heard, silent>>
      /\ worker.at = "derive"
      /\ worker' = [at |-> "store", source |-> s, entity |-> "situation", batch |-> b]
  BY DEF Derive, process, Ingesting
<1>2. config # None /\ s \in Source /\ Enabled(s) /\ s \in due
  BY <1>1, WorkIsUp
<1>3. SituationNow' = SituationNow /\ SituationBatch' = b
  BY <1>1, SituationIsKept
<1> HIDE DEF s, b
<1>4. worker'.at = "store" /\ worker'.source = s /\ worker'.entity = "situation"
        /\ worker'.batch = b
  BY <1>1
<1>5. Handling' /\ ~Handling
  BY <1>1, <1>4 DEF Handling
<1>6. Typed'
  BY <1>1, <1>2, <1>4, <1>5 DEF Typed, Enabled
<1>7. Answered' /\ Stored'
  BY <1>3, <1>4 DEF Answered, Stored
<1>8. HeardSources' /\ HeardSituation'
  BY <1>1, <1>5 DEF HeardSources, HeardSituation, OfHeard, Enabled
<1>9. Follows'
  BY <1>4 DEF Follows, Between
<1> QED BY <1>6, <1>7, <1>8, <1>9

\* What the sources give is of those that were heard.
LEMMA SituationIsHeard ==
  ASSUME world \in Worlds, HeardSources, config # None, SituationNow # None
  PROVE  OfHeard(SituationNow)
<1> SUFFICES ASSUME NEW k \in SituationNow.kernels, NEW r \in k.records
             PROVE  \E s \in heard \intersect EventSource : Teller[s] = r[1]
  BY DEF OfHeard
<1>1. SituationNow.kernels = KernelsOf(Reports)
  BY SituationNowSaid
<1>2. PICK key : k = Kernel(key, EventsOf(Reports))
  BY <1>1 DEF KernelsOf
<1>3. PICK e \in EventsOf(Reports) : r = <<e.provider, e.record>>
  BY <1>2 DEF Kernel
<1>4. PICK c \in Reports : e \in ToSet(c.items)
  BY DEF EventsOf
<1>5. PICK s \in EventSource : Enabled(s) /\ Usable(s) /\ c = world[s].state
  BY DEF Reports
<1>6. c \in Told(s) /\ s \in Source /\ s \in heard
  BY <1>5, UsableIs, Sources DEF HeardSources
<1>7. Tells(c.items, Teller[s])
  BY <1>5, <1>6, ToldIs
<1>8. PICK record, family, upstream, closed :
        e = Event(Teller[s], record, family, upstream, closed)
  BY <1>4, <1>7 DEF Tells, ToSet
<1>9. r[1] = Teller[s]
  BY <1>3, <1>8 DEF Event
<1> QED BY <1>5, <1>6, <1>9

\* What the batch that is ingested holds for its entity.
LEMMA BatchSays ==
  ASSUME TrafficInv, Handling
  PROVE  LET e == worker.entity
             v == worker.batch[1].value
             a == Availability(worker.batch)
         IN /\ e \in {worker.source, "situation"} /\ e \in Entities
            /\ v \in Said(e) \union {None}
            /\ a \in {"current", "degraded", "unavailable"}
            /\ a \in InUse => v # None
            /\ e = "situation" => /\ v = SituationNow /\ worker.batch = SituationBatch
                                  /\ v # None => OfHeard(v)
            /\ e \in Source =>
                 /\ e = worker.source
                 /\ a \in InUse => e \in heard
                 /\ a = "current" => e \notin silent
<1> USE DEF TrafficInv
<1> DEFINE e == worker.entity
           b == worker.batch
<1>1. /\ worker.at # "wait" /\ world \in Worlds
      /\ config # None /\ worker.source \in Source
  <2>1. worker.at # "wait"
    BY DEF Handling
  <2> QED BY <2>1, WorkIsUp DEF Typed
<1>2. CASE e = worker.source
  <2>1. e \in Source /\ e # "situation"
    BY <1>1, <1>2, Sources
  <2>2. PICK a \in Answers[e] : /\ b = Collect(e, a)
                                /\ Successful(b) => e \in heard
                                /\ SomeSilence(e, a) <=> e \in silent
    BY <1>2, <2>1 DEF Answered
  <2>3. /\ Availability(b) \in {"current", "degraded", "unavailable"}
        /\ Successful(b) <=> Availability(b) # "unavailable"
        /\ Successful(b) => b[1].value \in Told(e)
        /\ ~Successful(b) => b[1].value = None
        /\ SomeSilence(e, a) => Availability(b) # "current"
    BY <2>1, <2>2, BatchIs
  <2>4. Said(e) = Told(e) /\ e \in Entities /\ None \notin Told(e)
    BY <2>1, NoneAssumption DEF Said, Entities
  <2> HIDE DEF e, b
  <2>5. Availability(b) \in InUse => Successful(b)
    BY <2>3 DEF InUse
  <2> QED BY <1>2, <2>1, <2>2, <2>3, <2>4, <2>5 DEF e, b
<1>3. CASE e # worker.source
  <2>1. e = "situation" /\ b = SituationBatch
    BY <1>3 DEF Answered
  <2>2. /\ b[1].value = SituationNow /\ SituationNow \in Situations \union {None}
        /\ Availability(b) \in {"current", "degraded", "unavailable"}
        /\ Availability(b) = "unavailable" <=> SituationNow = None
    BY <1>1, <2>1, SituationBatchIs, SituationNowSaid
  <2>3. SituationNow # None => OfHeard(SituationNow)
    BY <1>1, SituationIsHeard
  <2>4. Said(e) = Situations /\ e \in Entities /\ e \notin Source
    BY <2>1, Sources DEF Said, Entities
  <2> HIDE DEF e, b
  <2>5. Availability(b) \in InUse => SituationNow # None
    BY <2>2 DEF InUse
  <2> QED BY <2>1, <2>2, <2>3, <2>4, <2>5 DEF e, b
<1> QED BY <1>2, <1>3

LEMMA StepStore == TrafficInv /\ Store => TrafficInv'
<1> SUFFICES ASSUME TrafficInv, Store PROVE TrafficInv'
  OBVIOUS
<1> USE DEF TrafficInv
<1> DEFINE e == worker.entity
           v == worker.batch[1].value
           x == IF v = None THEN world[e].state ELSE v
           c == [state |-> x, availability |-> world[e].availability]
<1>1. /\ UNCHANGED <<config, disk, boots, due, heard, silent>> /\ worker.at = "store"
      /\ worker' = [worker EXCEPT !.at = "qualify"]
      /\ world' = [world EXCEPT ![e].state = IF v = None THEN @ ELSE v]
  BY DEF Store, process
<1>2. /\ config # None /\ worker.source \in due /\ world \in Worlds /\ Handling
  BY <1>1, WorkIsUp DEF Typed, Handling
<1>3. e \in Entities /\ v \in Said(e) \union {None}
  BY <1>2, BatchSays
<1>4. x \in Said(e) \union {None} /\ world[e].availability \in Availabilities
        /\ (world[e].availability \in InUse => x # None)
  BY <1>2, <1>3, WorldIs
<1>5. world' = [world EXCEPT ![e] = c]
  <2>1. DOMAIN world = Entities
          /\ world[e] = [state |-> world[e].state, availability |-> world[e].availability]
    BY <1>2, <1>3, WorldIs
  <2>2. [world[e] EXCEPT !.state = x] = c
    BY <2>1
  <2>3. world' = [world EXCEPT ![e] = [world[e] EXCEPT !.state = x]]
    BY <1>1, <1>3, <2>1
  <2> QED BY <2>2, <2>3
<1>6. world' \in Worlds
  <2> HIDE DEF x, e
  <2> QED BY <1>2, <1>3, <1>4, <1>5, ChangedWorld
<1>7. \A s \in Entities : /\ s # e => world'[s] = world[s]
                          /\ world'[s].availability = world[s].availability
  <2>1. DOMAIN world = Entities
    BY <1>2, <1>3, WorldIs
  <2> HIDE DEF x, e
  <2> QED BY <1>3, <1>5, <2>1
<1>8. world'[e].state = x
  <2>1. DOMAIN world = Entities
    BY <1>2, <1>3, WorldIs
  <2> HIDE DEF x, e
  <2> QED BY <1>3, <1>5, <2>1
<1>9. worker' = [at |-> "qualify", source |-> worker.source, entity |-> e,
                 batch |-> worker.batch]
  BY <1>1 DEF Typed
<1>10. worker'.at = "qualify" /\ worker'.source = worker.source /\ worker'.entity = e
         /\ worker'.batch = worker.batch
  BY <1>9
<1>11. Handling'
  BY <1>10 DEF Handling
<1> HIDE DEF e, c
<1>12. Typed'
  <2>1. world'["situation"].availability # None
    BY <1>2, <1>7 DEF Typed, Entities
  <2> QED BY <1>1, <1>2, <1>6, <1>9, <1>10, <1>11, <2>1 DEF Typed, Enabled
<1>13. Answered'
  <2>1. CASE e = worker.source
    BY <1>1, <1>2, <1>10, <2>1, Sources, WorkIsUp DEF Answered, Typed, e
  <2>2. CASE e # worker.source
    <3>1. e = "situation" /\ worker.batch = SituationBatch
      BY <1>2, <2>2 DEF Answered, e
    <3>2. SituationBatch' = SituationBatch
      BY <1>1, <1>7, <3>1, SituationIsKept, Sources DEF Entities
    <3> QED BY <1>10, <3>1, <3>2 DEF Answered
  <2> QED BY <2>1, <2>2
<1>14. Stored'
  BY <1>8, <1>10 DEF Stored
<1>15. HeardSources'
  <2>1. \A s \in Source : world'[s].availability = world[s].availability
    BY <1>7 DEF Entities
  <2> QED BY <1>1, <1>2, <1>10, <1>11, <2>1 DEF HeardSources, Enabled, e
<1>16. HeardSituation'
  <2> SUFFICES ASSUME world["situation"].availability \in InUse
               PROVE  OfHeard(world'["situation"].state)
    BY <1>1, <1>7 DEF HeardSituation, OfHeard, Entities
  <2>1. OfHeard(world["situation"].state)
    BY <1>2 DEF HeardSituation
  <2>2. CASE e = "situation"
    BY <1>2, <1>8, <2>1, <2>2, BatchSays DEF e
  <2>3. CASE e # "situation"
    BY <1>7, <2>1, <2>3 DEF Entities
  <2> QED BY <2>2, <2>3
<1>17. Follows'
  BY <1>10 DEF Follows, Between
<1> QED BY <1>12, <1>13, <1>14, <1>15, <1>16, <1>17

\* The end of a batch; what follows it is as the worker is afterwards.
LEMMA StepQualify == TrafficInv /\ Qualify => TrafficInv'
<1> SUFFICES ASSUME TrafficInv, Qualify PROVE TrafficInv'
  OBVIOUS
<1> USE DEF TrafficInv
<1> DEFINE e == worker.entity
           s == worker.source
           a == Availability(worker.batch)
           c == [state |-> world[e].state, availability |-> a]
<1>1. /\ UNCHANGED <<config, disk, boots, heard, silent>> /\ worker.at = "qualify"
      /\ world' = [world EXCEPT ![e].availability = a]
  BY DEF Qualify, process
<1>2. /\ config # None /\ s \in due /\ due \subseteq Source /\ s \in Source
      /\ world \in Worlds /\ Handling
  BY <1>1, WorkIsUp DEF Typed, Handling
<1>3. /\ e \in {s, "situation"} /\ e \in Entities
      /\ a \in {"current", "degraded", "unavailable"}
      /\ a \in InUse => worker.batch[1].value # None
      /\ e = "situation" => /\ worker.batch[1].value = SituationNow
                            /\ worker.batch = SituationBatch
                            /\ a \in InUse => OfHeard(worker.batch[1].value)
      /\ e \in Source => /\ e = s /\ (a \in InUse => e \in heard)
                         /\ a = "current" => e \notin silent
  BY <1>2, BatchSays
<1>4. worker.batch[1].value \in {None, world[e].state}
  BY <1>1 DEF Stored
<1>5. /\ world[e].state \in Said(e) \union {None} /\ a \in Availabilities
      /\ a \in InUse => world[e].state # None
  <2>1. world[e].state \in Said(e) \union {None}
    BY <1>2, <1>3, WorldIs
  <2>2. a \in InUse => world[e].state # None
    BY <1>3, <1>4
  <2> HIDE DEF a, e
  <2> QED BY <1>3, <2>1, <2>2 DEF Availabilities
<1>6. world' = [world EXCEPT ![e] = c]
  <2>1. DOMAIN world = Entities
          /\ world[e] = [state |-> world[e].state, availability |-> world[e].availability]
    BY <1>2, <1>3, WorldIs
  <2>2. [world[e] EXCEPT !.availability = a] = c
    BY <2>1
  <2>3. world' = [world EXCEPT ![e] = [world[e] EXCEPT !.availability = a]]
    BY <1>1, <1>3, <2>1
  <2> QED BY <2>2, <2>3
<1>7. world' \in Worlds
  <2> DEFINE x == world[e].state
  <2>1. c = [state |-> x, availability |-> a]
    OBVIOUS
  <2> HIDE DEF x, e, a, c
  <2> QED BY <1>2, <1>3, <1>5, <1>6, <2>1, ChangedWorld DEF x
<1>8. /\ \A q \in Entities : q # e => world'[q] = world[q]
      /\ world'[e].state = world[e].state /\ world'[e].availability = a
  <2>1. DOMAIN world = Entities
    BY <1>2, <1>3, WorldIs
  <2>2. c.state = world[e].state /\ c.availability = a
    OBVIOUS
  <2> HIDE DEF c, e, a
  <2> QED BY <1>3, <1>6, <2>1, <2>2
<1>9. /\ worker'.at \in {"wait", "ask", "derive"}
      /\ worker' = [at |-> worker'.at, source |-> worker'.source,
                    entity |-> worker'.entity, batch |-> worker'.batch]
      /\ worker'.at = "wait" => worker' = Waiting
      /\ worker'.at # "wait" => worker'.source \in due'
      /\ worker'.entity = None /\ due' \subseteq due
      /\ worker'.at \in {"wait", "ask"} => e = "situation"
  <2>1. CASE e \in Source
    <3>1. worker' = [Asking(s) EXCEPT !.at = "derive"] /\ due' = due
      BY <2>1 DEF Qualify, Fusing
    <3> HIDE DEF s, e
    <3> QED BY <1>2, <3>1, WaitingIs
  <2>2. CASE e \notin Source
    <3>1. due' = due \ {s} /\ worker' = Onward(Position(s), due')
      BY <2>2 DEF Qualify, Fusing
    <3>2. e = "situation"
      BY <1>2, <1>3, <2>2
    <3>3. worker' = Waiting \/ \E q \in due' : worker' = Asking(q)
      <4>1. due' \in SUBSET Source
        BY <1>2, <3>1
      <4> QED BY <3>1, <4>1, OnwardIs
    <3> HIDE DEF s, e
    <3>4. CASE worker' = Waiting
      <4>1. worker' = [at |-> "wait", source |-> None, entity |-> None, batch |-> <<>>]
              /\ worker'.at = "wait" /\ worker'.entity = None
        BY <3>4, WaitingIs
      <4> QED BY <3>1, <3>2, <3>4, <4>1
    <3>5. ASSUME NEW q \in due', worker' = Asking(q)
          PROVE  /\ worker' = [at |-> "ask", source |-> q, entity |-> None, batch |-> <<>>]
                 /\ worker'.at = "ask" /\ worker'.source \in due' /\ worker'.entity = None
      BY <3>5, WaitingIs
    <3>6. CASE worker' # Waiting
      <4>1. PICK q \in due' : worker' = Asking(q)
        BY <3>3, <3>6
      <4>2. worker' = [at |-> "ask", source |-> q, entity |-> None, batch |-> <<>>]
              /\ worker'.at = "ask" /\ worker'.source \in due' /\ worker'.entity = None
        BY <3>5, <4>1
      <4> QED BY <3>1, <3>2, <4>2
    <3> QED BY <3>4, <3>6
  <2> QED BY <2>1, <2>2
<1>10. ~Handling'
  BY <1>9 DEF Handling
<1> HIDE DEF e, s, a, c
<1>11. Typed'
  <2>1. world'["situation"].availability # None
    <3>1. CASE e = "situation"
      BY <1>3, <1>8, <3>1, NoneAssumption
    <3>2. CASE e # "situation"
      BY <1>2, <1>8, <3>2 DEF Typed, Entities
    <3> QED BY <3>1, <3>2
  <2>2. heard \union silent \union due' \subseteq {q \in Source : config # None /\ Enabled(q)}
    BY <1>9 DEF Typed
  <2> QED BY <1>1, <1>2, <1>7, <1>9, <1>10, <2>1, <2>2 DEF Typed, Enabled
<1>12. Answered' /\ Stored'
  BY <1>9, <1>10 DEF Answered, Stored
<1>13. HeardSources'
  <2> SUFFICES ASSUME NEW q \in Source, Enabled(q), world'[q].availability \in InUse
               PROVE  /\ q \in heard
                      /\ world'[q].availability = "current" => q \notin silent
    BY <1>1, <1>10 DEF HeardSources, Enabled
  <2>1. CASE q = e
    BY <1>3, <1>8, <2>1
  <2>2. CASE q # e
    BY <1>2, <1>8, <2>2 DEF HeardSources, Entities, e
  <2> QED BY <2>1, <2>2
<1>14. HeardSituation'
  <2> SUFFICES ASSUME world'["situation"].availability \in InUse
               PROVE  OfHeard(world'["situation"].state)
    BY <1>1 DEF HeardSituation, OfHeard
  <2>1. CASE e = "situation"
    BY <1>3, <1>4, <1>8, <2>1
  <2>2. CASE e # "situation"
    BY <1>2, <1>8, <2>2 DEF HeardSituation, Entities
  <2> QED BY <2>1, <2>2
<1>15. Follows'
  <2> SUFFICES ASSUME worker'.at \in {"wait", "ask"}
               PROVE  /\ world'["situation"].availability = Availability(SituationBatch')
                      /\ SituationNow' \in {None, world'["situation"].state}
    BY DEF Follows, Between
  <2>1. e = "situation"
    BY <1>9
  <2>2. SituationNow' = SituationNow /\ SituationBatch' = SituationBatch
    BY <1>1, <1>8, <2>1, SituationIsKept, Sources DEF Entities
  <2> QED BY <1>3, <1>4, <1>8, <2>1, <2>2 DEF a
<1> QED BY <1>11, <1>12, <1>13, <1>14, <1>15

LEMMA StepBoot ==
  ASSUME TrafficInv, NEW providers \in Configs, Boot(providers)
  PROVE  TrafficInv'
<1> USE DEF TrafficInv
<1>1. /\ config' = providers /\ boots' = boots + 1 /\ boots < Boots
      /\ world' = Reentry(disk, providers) /\ disk' = NoWorld
      /\ due' = {s \in Source : Group(s) \in providers}
      /\ worker' = Waiting /\ heard' = {} /\ silent' = {}
  BY DEF Boot
<1>2. config' # None /\ disk \in Worlds /\ disk' \in Worlds /\ boots' \in 0 .. Boots
  BY <1>1, NoneAssumption, NoWorldIs, BootsAssumption DEF Typed
<1>3. DOMAIN disk = Entities
  BY <1>2 DEF Worlds
<1>4. \A s \in Entities :
        world'[s] = [state |-> disk[s].state,
                     availability |-> IF s = "situation" \/ Group(s) \in providers
                                      THEN "unavailable" ELSE disk[s].availability]
  <2> SUFFICES ASSUME NEW s \in Entities
               PROVE  world'[s] = [state |-> disk[s].state,
                        availability |-> IF s = "situation" \/ Group(s) \in providers
                                         THEN "unavailable" ELSE disk[s].availability]
    OBVIOUS
  <2>1. disk[s] = [state |-> disk[s].state, availability |-> disk[s].availability]
    BY <1>2, WorldIs
  <2>2. world'[s] = IF s = "situation" \/ Group(s) \in providers
                    THEN [disk[s] EXCEPT !.availability = "unavailable"] ELSE disk[s]
    BY <1>1, <1>3 DEF Reentry
  <2> QED BY <2>1, <2>2
<1>5. \A s \in Entities :
        /\ world'[s].state = disk[s].state
        /\ world'[s].availability = IF s = "situation" \/ Group(s) \in providers
                                    THEN "unavailable" ELSE disk[s].availability
  <2> SUFFICES ASSUME NEW s \in Entities
               PROVE  /\ world'[s].state = disk[s].state
                      /\ world'[s].availability =
                           IF s = "situation" \/ Group(s) \in providers
                           THEN "unavailable" ELSE disk[s].availability
    OBVIOUS
  <2> DEFINE v == IF s = "situation" \/ Group(s) \in providers
                  THEN "unavailable" ELSE disk[s].availability
  <2>1. world'[s] = [state |-> disk[s].state, availability |-> v]
    BY <1>4
  <2>2. world'[s].state = disk[s].state /\ world'[s].availability = v
    <3> HIDE DEF v
    <3> QED BY <2>1
  <2> QED BY <2>2
<1>6. world' \in Worlds
  <2>1. world' = [s \in Entities |-> world'[s]]
    BY <1>1, <1>3 DEF Reentry
  <2>2. disk \in [Entities -> [state : States, availability : Availabilities]]
    BY <1>2 DEF Worlds
  <2>3. ASSUME NEW s \in Entities
        PROVE  world'[s] \in [state : States, availability : Availabilities]
    <3> DEFINE v == IF s = "situation" \/ Group(s) \in providers
                    THEN "unavailable" ELSE disk[s].availability
    <3>1. disk[s].state \in States /\ v \in Availabilities
      BY <2>2 DEF Availabilities
    <3>2. world'[s] = [state |-> disk[s].state, availability |-> v]
      BY <1>4
    <3> HIDE DEF v
    <3> QED BY <3>1, <3>2
  <2>4. world' \in [Entities -> [state : States, availability : Availabilities]]
    BY <2>1, <2>3
  <2>5. \A s \in Entities :
          /\ world'[s].state \in Said(s) \union {None}
          /\ world'[s].availability \in InUse => world'[s].state # None
    BY <1>2, <1>5, WorldIs DEF InUse
  <2> QED BY <2>4, <2>5 DEF Worlds
<1>7. /\ worker' = [at |-> worker'.at, source |-> worker'.source,
                    entity |-> worker'.entity, batch |-> worker'.batch]
      /\ worker'.at = "wait" /\ worker'.entity = None
  BY <1>1, WaitingIs
<1>8. ~Handling'
  BY <1>7 DEF Handling
<1>9. world'["situation"].availability = "unavailable"
  BY <1>5 DEF Entities
<1>10. Typed'
  BY <1>1, <1>2, <1>6, <1>7, <1>8, <1>9, NoneAssumption DEF Typed, Enabled
<1>11. Answered' /\ Stored' /\ HeardSituation' /\ Follows'
  BY <1>7, <1>8, <1>9 DEF Answered, Stored, HeardSituation, Follows, InUse
<1>12. HeardSources'
  <2> SUFFICES ASSUME NEW s \in Source, Group(s) \in providers
               PROVE  world'[s].availability \notin InUse
    BY <1>1 DEF HeardSources, Enabled
  <2> QED BY <1>5 DEF Entities, InUse
<1> QED BY <1>10, <1>11, <1>12

LEMMA StepEnd ==
  ASSUME TrafficInv, NEW snapshot \in {world, disk}, End(snapshot)
  PROVE  TrafficInv'
<1> USE DEF TrafficInv
<1>1. /\ config' = None /\ world' = NoWorld /\ due' = {} /\ worker' = Waiting
      /\ heard' = {} /\ silent' = {} /\ boots' = boots
      /\ disk' = IF boots < Boots THEN snapshot ELSE NoWorld
  BY DEF End
<1>2. disk' \in Worlds /\ world' \in Worlds
  BY <1>1, NoWorldIs DEF Typed
<1>3. /\ worker' = [at |-> worker'.at, source |-> worker'.source,
                    entity |-> worker'.entity, batch |-> worker'.batch]
      /\ worker'.at = "wait" /\ worker'.entity = None
  BY <1>1, WaitingIs
<1>4. ~Handling'
  BY <1>3 DEF Handling
<1>5. Typed'
  BY <1>1, <1>2, <1>3, <1>4 DEF Typed
<1>6. Answered' /\ Stored' /\ HeardSources' /\ HeardSituation' /\ Follows'
  BY <1>1, <1>3, <1>4 DEF Answered, Stored, HeardSources, HeardSituation, Follows, Between
<1> QED BY <1>5, <1>6

LEMMA StepTraffic == TrafficInv /\ [Next]_vars => TrafficInv'
<1> SUFFICES ASSUME TrafficInv, [Next]_vars PROVE TrafficInv'
  OBVIOUS
<1>1. CASE BeginPass \/ Store \/ Qualify \/ Derive
  BY <1>1, StepBegin, StepStore, StepQualify, StepDerive
<1>2. CASE worker.at = "ask" /\ \E answer \in Answers[worker.source] : Answer(answer)
  BY <1>2, StepAnswer
<1>3. CASE \E s \in Source : Expire(s)
  BY <1>3, StepExpire
<1>4. CASE \E providers \in Configs : Boot(providers)
  BY <1>4, StepBoot
<1>5. CASE End(world) \/ End(disk)
  BY <1>5, StepEnd
<1>6. CASE UNCHANGED vars
  <2>1. /\ UNCHANGED <<config, world, disk, due, worker, heard, silent, boots>>
    BY <1>6 DEF vars
  <2>2. SituationNow' = SituationNow /\ SituationBatch' = SituationBatch
    BY <2>1, SituationIsKept
  <2>3. Handling' = Handling
    BY <2>1 DEF Handling
  <2>4. Typed'
    BY <2>1, <2>3 DEF TrafficInv, Typed, Enabled
  <2>5. Answered' /\ Stored'
    BY <2>1, <2>2, <2>3 DEF TrafficInv, Answered, Stored
  <2>6. HeardSources' /\ HeardSituation'
    BY <2>1, <2>3 DEF TrafficInv, HeardSources, HeardSituation, OfHeard, Enabled
  <2>7. Follows'
    BY <2>1, <2>2 DEF TrafficInv, Follows, Between
  <2> QED BY <2>4, <2>5, <2>6, <2>7 DEF TrafficInv
<1> QED BY <1>1, <1>2, <1>3, <1>4, <1>5, <1>6 DEF Next, Working

-----------------------------------------------------------------------------
(* The theorems                                                            *)

\* The invariant on which everything rests: what is in the store, what the
\* worker has in hand, and who was heard (TrafficAwarenessWorker).
THEOREM TrafficIsCoherent == Spec => []TrafficInv
BY InitTraffic, StepTraffic, PTL DEF Spec

\* The values of the variables; nothing may be used that is not there
\* (ingest_observation_batch stores the component before the availability).
THEOREM TypeCorrect == Spec => []TypeOK
<1>1. TrafficInv => TypeOK
  <2> SUFFICES ASSUME TrafficInv PROVE TypeOK
    OBVIOUS
  <2> USE DEF TrafficInv
  <2>1. ASSUME NEW w \in {world, disk}, NEW s \in DOMAIN w
        PROVE  /\ w[s].availability \in {None, "current", "degraded", "unavailable"}
               /\ w[s].availability \in {"current", "degraded"} => w[s].state # None
               /\ w[s].state # None =>
                    w[s].state.kind = IF s = "situation" THEN "situation" ELSE "collection"
    <3>1. w \in Worlds /\ s \in Entities
      BY <2>1 DEF Typed, Worlds
    <3>2. /\ w[s].state \in Said(s) \union {None} /\ w[s].availability \in Availabilities
          /\ w[s].availability \in InUse => w[s].state # None
      BY <3>1, WorldIs
    <3>3. CASE s = "situation"
      BY <3>2, <3>3 DEF Said, Situations, Availabilities, InUse
    <3>4. CASE s # "situation"
      <4>1. s \in Source /\ w[s].state \in Told(s) \union {None}
        BY <3>1, <3>2, <3>4 DEF Said, Entities
      <4> QED BY <3>2, <3>4, <4>1, ToldIs DEF Availabilities, InUse
    <3> QED BY <3>3, <3>4
  <2>2. /\ worker.at \in {"wait", "ask", "store", "qualify", "derive"}
        /\ worker.source \in due \union {None}
        /\ worker.entity \in {worker.source, "situation", None}
    <3>1. CASE Handling
      BY <3>1, BatchSays DEF Typed, Handling
    <3>2. CASE ~Handling
      BY <3>2, WaitingIs DEF Typed
    <3> QED BY <3>1, <3>2
  <2>3. config = None <=> due = {} /\ worker = Waiting /\ world = NoWorld /\ boots \in 0 .. Boots
    <3>1. config # None => world # NoWorld
      BY NoWorldIs DEF Typed, Entities
    <3>2. config = None => due = {}
      BY DEF Typed
    <3> QED BY <3>1, <3>2 DEF Typed
  <2> QED BY <2>1, <2>2, <2>3 DEF TypeOK, Typed
<1> QED BY <1>1, TrafficIsCoherent, PTL

\* Between two collections the situation is the one that the sources give
\* (_collect derives it anew after every source).
THEOREM SituationIsThatOfSources == Spec => []SituationFollowsSources
<1>1. TrafficInv => SituationFollowsSources
  <2> SUFFICES ASSUME TrafficInv, Between,
                      world["situation"].availability \in {"current", "degraded"}
               PROVE  world["situation"].state = SituationNow
    BY DEF SituationFollowsSources
  <2>1. /\ world["situation"].availability = Availability(SituationBatch)
        /\ SituationNow \in {None, world["situation"].state}
    BY DEF TrafficInv, Follows
  <2>2. Availability(SituationBatch) = "unavailable" <=> SituationNow = None
    BY SituationBatchIs DEF TrafficInv, Typed
  <2> QED BY <2>1, <2>2
<1> QED BY <1>1, TrafficIsCoherent, PTL

\* A situation that is current lacks nothing: every enabled source answered
\* this process, and no request of it failed when it was last asked
\* (prepare_reentry, _recompute_situation).
THEOREM CurrentIsComplete == Spec => []CurrentMeansAllAnswered
<1>1. TrafficInv => CurrentMeansAllAnswered
  <2> SUFFICES ASSUME TrafficInv, Between, world["situation"].availability = "current",
                      NEW s \in Source, Enabled(s)
               PROVE  s \in heard /\ s \notin silent
    BY DEF CurrentMeansAllAnswered
  <2>1. world \in Worlds /\ config # None /\ ~Handling
    BY DEF TrafficInv, Typed, Between, Handling
  <2>2. Availability(SituationBatch) = "current"
    BY DEF TrafficInv, Follows
  <2>3. Gaps = {} /\ ~Degraded(s)
    BY <2>1, <2>2, SituationBatchIs
  <2>4. world[s].availability \in InUse
    <3>1. ~Missing(s)
      BY <2>3 DEF Gaps
    <3>2. world[s].availability \in Availabilities
      BY <2>1, WorldIs DEF Entities
    <3> QED BY <3>1, <3>2 DEF Missing, Availabilities, InUse
  <2>5. world[s].state # None
    BY <2>1, <2>4, WorldIs DEF Entities
  <2>6. world[s].availability = "current"
    BY <2>3, <2>4, <2>5 DEF Degraded, InUse
  <2> QED BY <2>1, <2>4, <2>6 DEF TrafficInv, HeardSources
<1> QED BY <1>1, TrafficIsCoherent, PTL

\* A usable situation refers to no record that this process was not told,
\* whatever the snapshot held (prepare_reentry).
THEOREM EventsAreNotInherited == Spec => []EventsAreOfThisProcess
<1>1. TrafficInv => EventsAreOfThisProcess
  BY DEF TrafficInv, HeardSituation, OfHeard, EventsAreOfThisProcess, InUse
<1> QED BY <1>1, TrafficIsCoherent, PTL

\* Closures are counted once per first source, families stay apart, no report
\* is lost, and what two providers say is one event only if both have it from
\* NCDOT's own system (derive_traffic_situation, source_family_for_drivenc).
THEOREM ClosuresAreCountedOnce == Spec => []ClosuresCountOnce
<1>1. TrafficInv /\ SituationFollowsSources => ClosuresCountOnce
  <2> SUFFICES ASSUME TrafficInv, SituationFollowsSources, Between,
                      world["situation"].availability \in {"current", "degraded"}
               PROVE  ClosuresCountOnce
    BY DEF ClosuresCountOnce
  <2> DEFINE events == EventsOf(Reports)
             closed == {e \in events : e.closed = TRUE}
             x == world["situation"].state
  <2>1. world \in Worlds
    BY DEF TrafficInv, Typed
  <2>2. x = SituationNow
    BY DEF SituationFollowsSources
  <2>3. x # None
    BY <2>1, WorldIs DEF Entities, InUse
  <2>4. /\ x.kernels = KernelsOf(Reports)
        /\ x.closures = Cardinality({k \in KernelsOf(Reports) : k.closed})
    BY <2>1, <2>2, <2>3, SituationNowSaid
  <2>5. IsFiniteSet(Reports) /\ AreReports(Reports)
    BY <2>1, ReportsAre
  <2>6. /\ Cardinality({k \in KernelsOf(Reports) : k.closed}) =
             Cardinality({{f \in closed : OneEvent(e, f)} : e \in closed})
        /\ \A k \in KernelsOf(Reports) : Cardinality(k.families) = 1
        /\ \A k \in KernelsOf(Reports) : \A r, s \in k.records :
             r[1] # s[1] => k.families = {ATMSERS}
        /\ {<<e.provider, e.record>> : e \in events} =
             UNION {k.records : k \in KernelsOf(Reports)}
    BY <2>5, KernelsAre
  <2>7. /\ x.closures = Cardinality({{f \in closed : OneEvent(e, f)} : e \in closed})
        /\ \A k \in x.kernels : Cardinality(k.families) = 1
        /\ \A k \in x.kernels : \A r, s \in k.records :
             r[1] # s[1] => k.families = {ATMSERS}
        /\ {<<e.provider, e.record>> : e \in events} = UNION {k.records : k \in x.kernels}
    <3> HIDE DEF events, x
    <3> QED BY <2>4, <2>6
  \* The same of the reports one by one.
  <2> DEFINE Counted(told) ==
        LET shut == {e \in told : e.closed = TRUE}
        IN /\ x.closures = Cardinality({{f \in shut : OneEvent(e, f)} : e \in shut})
           /\ \A k \in x.kernels : Cardinality(k.families) = 1
           /\ \A k \in x.kernels : \A r, s \in k.records :
                r[1] # s[1] => k.families = {ATMSERS}
           /\ {<<e.provider, e.record>> : e \in told} = UNION {k.records : k \in x.kernels}
             each == UNION {ToSet(world[s].state.items) :
                              s \in {e \in EventSource : Enabled(e) /\ Usable(e)}}
  <2>8. Counted(events)
    <3> HIDE DEF events, x
    <3> QED BY <2>7
  <2>9. events = each
    BY DEF EventsOf, Reports
  <2>10. Counted(each)
    <3> HIDE DEF Counted, events, each
    <3> QED BY <2>8, <2>9
  <2> QED BY <2>10, Zenon DEF ClosuresCountOnce, OneEvent
<1> QED BY <1>1, TrafficIsCoherent, SituationIsThatOfSources, PTL
=============================================================================
