---------------------------- MODULE LocalAdapters ----------------------------
(***************************************************************************)
(* The adapters of the two local entities: what they report of what the    *)
(* kernel and the command line tools answer (adapters/linux/host.py,       *)
(* adapters/tenda/u11_pro.py).  A reading is the answer or Fails.          *)
(***************************************************************************)
EXTENDS Observation, Integers, Sequences, FiniteSetsExt

-----------------------------------------------------------------------------
(* LinuxHostAdapter                                                        *)

Leveled(kind, level, meaning, rest) ==
  [kind |-> kind, level |-> level, meaning |-> meaning, rest |-> rest]

\* The hottest sensor; no sensor at all is an observation, not a failure.
Temperature(sensors) ==
  IF sensors = Fails THEN Unavailable("temperature", {<<"failed", "os error">>})
  ELSE IF sensors = {}
  THEN Observed("temperature", Leveled("temperature", None, None, None))
  ELSE Observed("temperature", Leveled("temperature", Max(sensors), "max", None))

\* One of compute, memory and storage.
Usage(kind, percent) ==
  IF percent = Fails THEN Unavailable(kind, {<<"failed", "os error">>})
  ELSE Observed(kind, Leveled(kind, percent, "/", None))

Uptime(seconds) ==
  IF seconds = Fails THEN Unavailable("uptime", {<<"failed", "os error">>})
  ELSE Observed("uptime", [kind |-> "uptime", seconds |-> seconds])

HostCollect(r) ==
  << Usage("compute", r.compute), Usage("memory", r.memory),
     Usage("storage", r.storage), Uptime(r.uptime), Temperature(r.sensors) >>

-----------------------------------------------------------------------------
(* TendaU11ProAdapter.  lsusb answers the modes of the radios it lists, in *)
(* order; iw dev the interfaces; iw link of an interface a record; ip the  *)
(* address.                                                                *)

UsbState(lsusb) ==
  IF lsusb = Fails THEN Unavailable("usb", {<<"failed", "lsusb">>})
  ELSE Observed("usb",
         IF lsusb = <<>>
         THEN [kind |-> "usb", present |-> FALSE, mode |-> "absent",
               meaning |-> "absent"]
         ELSE [kind |-> "usb", present |-> TRUE, mode |-> lsusb[1],
               meaning |-> lsusb[1]])

\* The first connected interface, or else the first that can be read.
ChosenInterface(r) ==
  LET Readable(i)  == r.links[i] # Fails
      Connected(i) == Readable(i) /\ r.links[i].connected
  IN IF \E i \in DOMAIN r.links : Connected(i)
     THEN Min({i \in DOMAIN r.links : Connected(i)})
     ELSE IF \E i \in DOMAIN r.links : Readable(i)
     THEN Min({i \in DOMAIN r.links : Readable(i)})
     ELSE 0

\* Interfaces that were asked before the search ended and did not answer.
UnreadInterfaces(r) ==
  {<<"unread", i>> : i \in {j \in DOMAIN r.links :
     r.links[j] = Fails /\ (ChosenInterface(r) # 0 /\ r.links[ChosenInterface(r)].connected
                              => j < ChosenInterface(r))}}

Link(interface, link, ip) ==
  [kind |-> "wifi", connected |-> link.connected, signal |-> link.signal,
   meaning |-> <<interface, link.connected, link.ssid, ip>>,
   rest |-> link.frequency]

\* r.links is the answers of `iw dev I link` for the interfaces of `iw dev`.
WifiState(r) ==
  IF r.links = Fails THEN Unavailable("wifi", {<<"failed", "iw dev">>})
  ELSE IF r.links = <<>>
  THEN Observed("wifi", Link(None, [connected |-> FALSE, signal |-> None,
                                    ssid |-> None, frequency |-> None], None))
  ELSE IF ChosenInterface(r) = 0 THEN Unavailable("wifi", {<<"failed", "iw link">>})
  ELSE LET chosen  == ChosenInterface(r)
           link    == r.links[chosen]
           missing == UnreadInterfaces(r)
                        \union {<<"missing", f>> :
                                  f \in {g \in {"ssid", "frequency", "signal"} :
                                          link.connected /\ link[g] = None}}
                        \union (IF r.ip = Fails THEN {<<"missing", "ip">>} ELSE {})
           state   == Link(chosen, link, IF r.ip = Fails THEN None ELSE r.ip)
       IN IF missing = {} THEN Observed("wifi", state)
          ELSE Partial("wifi", state, missing)

TendaCollect(r) == << UsbState(r.lsusb), WifiState(r) >>
=============================================================================
