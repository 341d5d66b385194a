------------------------------ MODULE Messages ------------------------------
(***************************************************************************)
(* What the parsers of src/ingest/ make of a message: a frame, nothing     *)
(* (the message is filtered) or an error.                                  *)
(*                                                                         *)
(* A message is a record: the last part of its topic or the webhook's      *)
(* event, its size in units of 256 KiB, the parts its JSON has with the    *)
(* right types, the EUI, the application's name and id, the time, the      *)
(* battery, and how its text would print in a log line.                    *)
(***************************************************************************)
EXTENDS Naturals

CONSTANTS
  None,      \* an absent optional field, also one that does not parse
  Malformed  \* a text that is no EUI

MaxPacketSize == 1
MaxPayloadSize == 4

\* A required part of each network server's JSON.
Parts == {"deviceInfo", "devAddr", "margin", "endDeviceIds", "uplinkMessage",
          "frequency", "lora"}

Frame(kind, dev, application, at, battery) ==
  [kind |-> kind, dev |-> dev, application |-> application, at |-> at, battery |-> battery]

Parsed(f) == [outcome |-> "frame", frame |-> f]
Filtered == [outcome |-> "filtered", frame |-> None]
Rejected == [outcome |-> "error", frame |-> None]

----------------------------------------------------------------------------
(* Common                                                                  *)

\* set_max_packet_size: a larger message by MQTT reaches no parser.
FitsPacket(m) == m.size <= MaxPacketSize
ValidPayloadSize(m) == m.size <= MaxPayloadSize
ValidEui(m) == m.eui # Malformed

\* Size, JSON and EUI, in this order; each failure is the same error to the caller.
Readable(m, required) ==
  ValidPayloadSize(m) /\ required \subseteq m.parts /\ ValidEui(m)

\* The time the message names, else the time of its arrival.
ReceivedAt(m, now) == IF m.time = None THEN now ELSE m.time

----------------------------------------------------------------------------
(* ChirpStack                                                              *)

UplinkParts == {"deviceInfo"}
JoinParts == {"deviceInfo", "devAddr"}
StatusParts == {"deviceInfo", "margin"}

ApplicationId(m) == IF m.applicationName = None THEN m.applicationId ELSE m.applicationName

BatteryUnavailable == 255
BatteryLevel(m) ==
  IF m.batteryUnavailable \/ m.battery = None THEN BatteryUnavailable ELSE m.battery

ParseUplink(m, now) ==
  IF Readable(m, UplinkParts)
  THEN Parsed(Frame("Uplink", m.eui, ApplicationId(m), ReceivedAt(m, now), None))
  ELSE Rejected

\* A join request has no application of its own: the id is kept as its join_eui.
ParseJoin(m, now) ==
  IF Readable(m, JoinParts)
  THEN Parsed(Frame("JoinRequest", m.eui, None, ReceivedAt(m, now), None))
  ELSE Rejected

ParseStatus(m, now) ==
  IF Readable(m, StatusParts)
  THEN Parsed(Frame("Status", m.eui, ApplicationId(m), ReceivedAt(m, now), BatteryLevel(m)))
  ELSE Rejected

ChirpStackMessage_ById(m, now) ==
  CASE m.event # "up" -> Filtered
    [] m.event = "up" /\ Readable(m, UplinkParts) ->
         Parsed(Frame("Uplink", m.eui, m.applicationId, IF m.time # None THEN m.time ELSE now, None))
    [] OTHER -> Rejected
\* ChirpStackParser::parse_message: by MQTT only uplinks are taken, whatever else arrives
\* on the subscribed topic is filtered before anything of it is checked.  The conversion is
\* a second copy of parse_uplink's.
ChirpStackMessage(m, now) ==
  LET application == IF m.applicationName # None THEN m.applicationName ELSE m.applicationId
      receivedAt == IF m.time # None THEN m.time ELSE now
  IN CASE m.event # "up" -> Filtered
       [] m.event = "up" /\ Readable(m, UplinkParts) ->
            Parsed(Frame("Uplink", m.eui, application, receivedAt, None))
       [] OTHER -> Rejected

\* ingest_chirpstack: the webhook names the event.
ChirpStackWebhook(m, now) ==
  CASE m.event = "up" -> ParseUplink(m, now)
    [] m.event = "join" -> ParseJoin(m, now)
    [] m.event = "status" -> ParseStatus(m, now)
    [] OTHER -> Rejected

----------------------------------------------------------------------------
(* The Things Network                                                      *)

TtnParts == {"endDeviceIds", "uplinkMessage"}

\* TtnParser::parse_message: the frequency is a text to be parsed, and only LoRa data
\* rates are known.
TtnMessage(m, now) ==
  IF m.event # "up" THEN Filtered
  ELSE IF Readable(m, TtnParts) /\ {"frequency", "lora"} \subseteq m.parts
  THEN Parsed(Frame("Uplink", m.eui, m.applicationId, ReceivedAt(m, now), None))
  ELSE Rejected

\* The text of a rejected message goes into a log line, cut at byte 500: "split" is a
\* longer text with a character across that byte.
PreviewPanics(m) == m.text = "split"
=============================================================================
