------------------------------ MODULE MCIngest ------------------------------
(* An instance of Ingest for TLC: one event comes by MQTT and by webhook.   *)
EXTENDS Ingest, TLC

CONSTANTS app, name, dev, hook, noon

Base == [event |-> "up", size |-> 1, parts |-> {"deviceInfo"}, eui |-> dev,
         applicationName |-> name, applicationId |-> app, time |-> noon,
         batteryUnavailable |-> FALSE, battery |-> None, text |-> "short"]
Up1 == Base
Timeless == [Base EXCEPT !.time = None]
Large == [Base EXCEPT !.size = 2]
TtnUp == [Base EXCEPT !.parts = {"endDeviceIds", "uplinkMessage", "frequency", "lora"}]

MCOutbox == ChirpStack :> <<Large, Timeless, Timeless, Up1>> @@ Ttn :> <<TtnUp>>
MCWebhook == hook :> Up1
Past(clients, chirpStack, ttn, posts, spent) ==
  [clients |-> clients, sent |-> ChirpStack :> chirpStack @@ Ttn :> ttn,
   attempt |-> hook :> posts, faults |-> spent]
MCTraffic == {
  \* A broker's last three messages are still to come, with a fault.
  Past({ChirpStack}, 1, 1, 2, 0),
  \* The last message of each broker.
  Past(Brokers, 3, 0, 2, 1),
  \* A message too large for the client, and the rest.
  Past({ChirpStack}, 0, 1, 2, 1),
  \* No broker is configured: one post with a fault, or two.
  Past({}, 4, 1, 1, 0), Past({}, 4, 1, 0, 1),
  \* The webhook's event comes by MQTT too.
  Past({ChirpStack}, 3, 1, 1, 1)}
=============================================================================
