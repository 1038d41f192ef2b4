--------------------------- MODULE TrafficAdapters ---------------------------
(***************************************************************************)
(* The adapters of the traffic providers: what they report of an answer    *)
(* (adapters/world/drivenc_traffic.py, wzdx_traffic.py, cmpd_traffic.py,   *)
(* charlotte_closures.py, tomtom_traffic.py, traffic_common.py), and the   *)
(* situation that is derived from it (traffic_awareness.py).               *)
(*                                                                         *)
(* An answer is Fails or the rows of the payload, in order.  A row is None *)
(* if it is not an object, and Fails if parsing it raises; else it has the *)
(* fields that a decision reads.  place is "near" or "far" from the centre *)
(* of the scope, or None if no coordinate of the row is usable.            *)
(* An organization is the name of who reported first, None if it is empty; *)
(* "waze" stands for every name that has it, "ATMSERS" for each of its     *)
(* spellings.  A family is a path, and is here the sequence of its parts.  *)
(***************************************************************************)
EXTENDS Observation, Integers, SequencesExt

\* An event; upstream is the identifier of whoever reported it first.
Event(provider, record, family, upstream, closed) ==
  [provider |-> provider, record |-> record, family |-> family,
   upstream |-> upstream, closed |-> closed]

\* What a collection says of its rows; nothing in scope is still an answer.
Collection(family, items) ==
  [kind |-> "collection", family |-> family, items |-> items, active |-> 0]

\* One family, "mixed", or what the adapter says when there is no item.
FamilyLabel(items, default) ==
  LET families == {items[i].family : i \in DOMAIN items}
  IN IF families = {} THEN default
     ELSE IF Cardinality(families) = 1 THEN items[1].family ELSE <<"mixed">>

Reported(source, state, omitted) ==
  IF omitted = {} THEN <<Observed(source, state)>>
  ELSE <<Partial(source, state, {<<"omitted", Cardinality(omitted)>>})>>

Unheard(source) == <<Unavailable(source, {<<"failed", source>>})>>

\* in_scope, of a row that has coordinates.
InScope(r) == r.place = "near"

Broken(rows) == {i \in DOMAIN rows : rows[i] \in {None, Fails}}
Rows(rows, Test(_)) == {i \in DOMAIN rows \ Broken(rows) : Test(rows[i])}

\* The items of the rows of S, in the order of the payload.
Items(rows, S, Item(_)) ==
  LET kept == SetToSortSeq(S, <) IN [i \in DOMAIN kept |-> Item(rows[kept[i]])]

-----------------------------------------------------------------------------
(* DriveNC.  Without a key the request raises.                             *)

\* What both of NCDOT's feeds have from its own system.
ATMSERS == <<"NCDOT", "ATMSERS">>

\* source_family_for_drivenc
DriveNCFamily(organization) ==
  CASE organization = "waze"    -> <<"Waze">>
    [] organization = "ATMSERS" -> ATMSERS
    [] organization = None      -> <<"DriveNC", "unknown">>
    [] OTHER                    -> <<"DriveNC", organization>>

\* A row without coordinates is local if its county is.
EventsCollect(rows) ==
  IF rows = Fails THEN Unheard("events")
  ELSE LET Local(r) == r.id # None /\ (InScope(r) \/ (r.place = None /\ r.county))
           Item(r)  == Event("DriveNC", r.id, DriveNCFamily(r.organization),
                             r.upstream, r.closed)
           events   == Items(rows, Rows(rows, Local), Item)
       IN Reported("events", Collection(FamilyLabel(events, ATMSERS), events),
                   Broken(rows))

\* Cameras and signs need coordinates; what cannot be placed is malformed only
\* if it names a county of the scope.  A row whose parsing raises loses the
\* whole payload.
FixturesCollect(source, rows, Item(_), State(_)) ==
  IF rows = Fails \/ (\E i \in DOMAIN rows : rows[i] = Fails) THEN Unheard(source)
  ELSE LET Local(r)    == r.id # None /\ InScope(r)
           Unplaced(r) == r.county /\ (r.id = None \/ r.place = None)
       IN Reported(source, State(Items(rows, Rows(rows, Local), Item)),
                   Broken(rows) \union Rows(rows, Unplaced))

CameraFamily(organization) ==
  IF organization = None THEN <<"NCDOT", "DriveNC Cameras">> ELSE <<"NCDOT", organization>>

CamerasCollect(rows) ==
  LET Item(r)  == [family |-> CameraFamily(r.organization), id |-> r.id]
      State(s) == Collection(FamilyLabel(s, CameraFamily(None)), s)
  IN FixturesCollect("cameras", rows, Item, State)

\* A sign is active if it shows anything but NO_MESSAGE.
SignsCollect(rows) ==
  LET Item(r)  == [family |-> <<"NCDOT", "ATMS DMS">>, id |-> r.id, messages |-> r.messages]
      Active(s) == {i \in DOMAIN s : s[i].messages \ {"NO_MESSAGE"} # {}}
      State(s) == [Collection(<<"NCDOT", "ATMS DMS">>, s) EXCEPT
                     !.active = Cardinality(Active(s))]
  IN FixturesCollect("signs", rows, Item, State)

-----------------------------------------------------------------------------
(* The other reports                                                       *)

WZDxFamily(organization) ==
  CASE organization = "ATMSERS" -> ATMSERS
    [] organization = None      -> <<"NCDOT", "WZDx", "unknown">>
    [] OTHER                    -> <<"NCDOT", "WZDx", organization>>

\* Work zones must have both identifiers and a geometry.
WZDxCollect(rows) ==
  IF rows = Fails \/ (\E i \in DOMAIN rows : rows[i] = Fails) THEN Unheard("wzdx")
  ELSE LET Whole(r)  == r.id # None /\ r.upstream # None /\ r.place # None
           Local(r)  == Whole(r) /\ InScope(r)
           Torn(r)   == ~Whole(r)
           Item(r)   == Event("WZDx", r.id, WZDxFamily(r.organization), r.upstream,
                              IF r.closed = TRUE THEN TRUE ELSE None)
           events    == Items(rows, Rows(rows, Local), Item)
       IN Reported("wzdx", Collection(FamilyLabel(events, <<"NCDOT", "WZDx">>), events),
                   Broken(rows) \union Rows(rows, Torn))

\* The rows of a table; those before its header do not count, and without a
\* header there is no table.  A row that is short, or has no time that can be
\* read, no address or no description, is None.  Identity is the whole row.
CMPDCollect(rows) ==
  IF rows = Fails \/ "header" \notin ToSet(rows) THEN Unheard("cmpd")
  ELSE LET header   == Min({i \in DOMAIN rows : rows[i] = "header"})
           body     == SubSeq(rows, header + 1, Len(rows))
           Item(r)  == Event("CMPD", r, <<"CMPD CAD">>, None, None)
       IN Reported("cmpd",
                   Collection(<<"CMPD CAD">>, Items(body, DOMAIN body \ Broken(body), Item)),
                   Broken(body))

\* Of a feature that cannot be used only one without geometry or properties
\* is malformed; one whose geometry has no usable point is not mentioned.
CharlotteCollect(rows) ==
  IF rows = Fails \/ (\E i \in DOMAIN rows : rows[i] = Fails) THEN Unheard("charlotte")
  ELSE LET Local(r)  == InScope(r) /\ r.id # None
           Item(r)   == Event("Charlotte", r.id, <<"City of Charlotte", "CDOT">>, r.id, r.closed)
       IN Reported("charlotte",
                   Collection(<<"City of Charlotte", "CDOT">>,
                              Items(rows, Rows(rows, Local), Item)),
                   Broken(rows))

-----------------------------------------------------------------------------
(* TomTom.  The scope is a grid of tiles, or too large for one cycle, which *)
(* is Fails, as is a missing key; each tile is a request of its own.       *)

\* Slip: a tile that failed is not mentioned.
LostTilesUnnoticed(tiles) == {}

LostTiles(tiles) == {i \in DOMAIN tiles : tiles[i] = Fails}

\* The rows by identifier: the last one of an identifier counts.
IncidentsCollect(tiles) ==
  IF tiles = Fails \/ \A i \in DOMAIN tiles : tiles[i] = Fails THEN Unheard("incidents")
  ELSE LET rows     == FlattenSeq(SelectSeq(tiles, LAMBDA t : t # Fails))
           last     == {i \in DOMAIN rows : /\ rows[i] # None /\ rows[i].id # None
                          /\ \A j \in i + 1 .. Len(rows) :
                               rows[j] = None \/ rows[j].id # rows[i].id}
           Local(i) == ~rows[i].odd /\ rows[i].category /\ InScope(rows[i])
           Item(r)  == Event("TomTom", r.id, <<"TomTom Traffic">>, r.id, None)
           state    == Collection(<<"TomTom Traffic">>,
                                  Items(rows, {i \in last : Local(i)}, Item))
           odd      == {i \in last : rows[i].odd}
           detail   == {<<"omitted", Cardinality(odd)>> : i \in odd}
                         \union {<<"tile", i>> : i \in LostTiles(tiles)}
       IN IF detail = {} THEN <<Observed("incidents", state)>>
          ELSE <<Partial("incidents", state, detail)>>

\* The probes in order of their identifiers, Fails where the request or the
\* segment it matched was of no use.
FlowCollect(probes) ==
  IF probes = Fails \/ \A i \in DOMAIN probes : probes[i] = Fails THEN Unheard("flow")
  ELSE Reported("flow",
                Collection(<<"TomTom Traffic">>, SelectSeq(probes, LAMBDA p : p # Fails)),
                {i \in DOMAIN probes : probes[i] = Fails})

-----------------------------------------------------------------------------
(* derive_traffic_situation                                                *)

\* Slip: what two providers say of one event is counted for each.
LineageByProvider(e) ==
  IF e.upstream # None THEN <<"lineage-id", e.provider, e.upstream, None>>
  ELSE <<"source-record", e.family, e.provider, e.record>>

\* What makes two reports one event: the identifier of the same first source.
Lineage(e) ==
  IF e.upstream # None THEN <<"lineage-id", e.family, e.upstream, None>>
  ELSE <<"source-record", e.family, e.provider, e.record>>

\* The kernel of the events that share a key.
Kernel(key, events) ==
  LET own == {e \in events : Lineage(e) = key}
  IN [key      |-> key,
      families |-> {e.family : e \in own},
      records  |-> {<<e.provider, e.record>> : e \in own},
      closed   |-> \E e \in own : e.closed = TRUE]

\* reports are the usable collections of events; cameras, signs and flow are
\* None unless usable; gaps are the configured sources that are not there.
Situation(reports, cameras, signs, flow, gaps) ==
  LET others  == {c \in {cameras, signs, flow} : c # None}
      events  == UNION {ToSet(c.items) : c \in reports}
      kernels == {Kernel(key, events) : key \in {Lineage(e) : e \in events}}
      Size(c) == IF c = None THEN 0 ELSE Len(c.items)
  IN IF reports = {} /\ others = {} THEN None
     ELSE [ kind     |-> "situation",
            kernels  |-> kernels,
            closures |-> Cardinality({k \in kernels : k.closed}),
            families |-> {c.family : c \in reports \union others}
                           \union {e.family : e \in events},
            cameras  |-> Size(cameras),
            signs    |-> IF signs = None THEN 0 ELSE signs.active,
            probes   |-> Size(flow),
            records  |-> Size(cameras) + Size(signs) + Size(flow)
                           + Cardinality(UNION {{c} \X DOMAIN c.items : c \in reports}),
            gaps     |-> gaps ]
=============================================================================
