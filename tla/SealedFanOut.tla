---------------------------- MODULE SealedFanOut ----------------------------
(***************************************************************************)
(* The service's reading of a multi-recipient message.  The service is not *)
(* in this repository: what it does is what the layout that                *)
(* encodeV2SentMessage writes asks of a reader.                            *)
(***************************************************************************)
EXTENDS SealedDelivery

\* The service reads a SENT message: the blocks, one entry per device.
RECURSIVE DeviceList(_, _), Blocks(_, _, _)
DeviceList(w, at) ==
    IF w[at][2] >= hasMoreDevicesFlag
    THEN <<<<w[at][1], w[at][2] - hasMoreDevicesFlag>>>> \o DeviceList(w, at + 1)
    ELSE <<w[at]>>
Blocks(w, at, n) ==
    IF n = 0 THEN <<>>
    ELSE LET devices == DeviceList(w, at + 1)
             next    == at + Len(devices) + 3
         IN [d \in DOMAIN devices |->
               [serviceID |-> w[at], deviceID |-> devices[d][1], registrationID |-> devices[d][2],
                message |-> [version |-> 34, c |-> w[next - 2], at |-> w[next - 1],
                             ephemeral |-> w[Len(w) - 1], ciphertext |-> w[Len(w)]]]]
            \o Blocks(w, next, n - 1)
Routed(serialized) == Blocks(serialized, 2, serialized[1])

\* What the service routes to a device from the SENT form is, byte for byte,
\* what ReceivedMessageForRecipient makes for that entry, and the form names
\* the devices and registration ids it was given (encodeV2SentMessage).
FanOutAgrees ==
    \A s \in sent :
        Routed(s.message.serialized) =
            [i \in DOMAIN s.to |->
               [serviceID |-> s.to[i].serviceID, deviceID |-> s.to[i].deviceID,
                registrationID |-> s.to[i].registrationID,
                message |-> ReceivedMessageForRecipient(s.message, i)]]

=============================================================================
