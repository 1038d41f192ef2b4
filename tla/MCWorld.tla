------------------------------ MODULE MCWorld ------------------------------
(* A small instance of World: one local entity, in some behaviours the     *)
(* Tenda radio and in the others the host itself, ingested by the main     *)
(* thread, and one remote source that does not answer, ingested by a       *)
(* worker.                                                                 *)
EXTENDS World, LocalAdapters

CONSTANTS main, worker

VARIABLE adapter   \* what the local entity of a behaviour is observed with

\* The shipped file, and one that an operator has made less strict.
MCShipped ==
  [ compute |-> [warning |-> 80, critical |-> 95],
    memory |-> [warning |-> 85, critical |-> 95],
    storage |-> [warning |-> 85, critical |-> 95],
    temperature |-> [warning |-> 80, critical |-> 90],
    wifi |-> -75 ]

MCThresholds ==
  {MCShipped, [MCShipped EXCEPT !.wifi = -85, !.temperature.warning = 85]}

MCOwner == [e \in Entity |-> IF e = "local" THEN main ELSE worker]

MCKinds ==
  [e \in Entity |->
     IF e = "local" THEN {"node", "usb", "wifi", "temperature", "observation", "health"}
     ELSE {"observation"}]

MCTopology == <<Item("local", [kind |-> "node"])>>

Connected(signal) ==
  [connected |-> TRUE, ssid |-> "ssid", frequency |-> 5180, signal |-> signal]

\* A weak link, and the same without a signal beside a radio that is gone.
TendaBatches ==
  {TendaCollect([lsusb |-> lsusb, links |-> <<link>>, ip |-> "address"]) :
     <<lsusb, link>> \in {<< <<"wifi">>, Connected(-80)>>, <<Fails, Connected(None)>>}}

\* A host that tells its temperature only.
HostBatches ==
  {HostCollect([compute |-> Fails, memory |-> Fails, storage |-> Fails,
                uptime |-> Fails, sensors |-> sensors]) : sensors \in {{60}, {82}}}

LocalBatches == [tenda |-> TendaBatches, host |-> HostBatches]

MCBatches ==
  [e \in Entity |->
     IF e = "local" THEN TendaBatches \union HostBatches
     ELSE {<<Unavailable("weather", {<<"failed", "http">>})>>}]

-----------------------------------------------------------------------------
MCInit == Init /\ adapter \in {"tenda", "host"}

\* The batches of a behaviour are of one adapter.
MCNext ==
  /\ UNCHANGED adapter
  /\ \/ \E t \in Thread : \E batch \in LocalBatches[adapter] : Begin(t, "local", batch)
     \/ \E t \in Thread : \E batch \in MCBatches["weather"] : Begin(t, "weather", batch)
     \/ \E t \in Thread : Step(t)
     \/ \E p \in Processes : Boot(p)
     \/ Capture \/ Replace \/ Stop \/ Leave \/ Finish \/ Crash

MCSpec == MCInit /\ [][MCNext]_<<vars, adapter>>
=============================================================================
