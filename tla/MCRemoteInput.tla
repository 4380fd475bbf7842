--------------------------- MODULE MCRemoteInput ---------------------------
(* A small instance of RemoteInput: two devices that may take each other's place, one
   of which a button cannot use, and a polled one. *)
EXTENDS RemoteInput

CONSTANTS box, tracker, stick, d1, d2, button, alias, byAlias

\* The button box adds and swaps as IBox.cpp does, the stick as LinuxJoydev.cpp.
MCNameOf == [o \in Devices |-> IF o = stick THEN d2 ELSE d1]
MCChannels == [o \in Devices |->
    IF o = box THEN <<"analog", "digital">> ELSE
    IF o = tracker THEN <<"analog">> ELSE <<"digital">>]
MCDeviceOf == [p \in Proxies |-> d1]
MCTypeOf == [p \in Proxies |-> "digital"]
MCMaxSamples == [o \in Devices |-> IF o = box THEN 2 ELSE IF o = stick THEN 1 ELSE 0]
MCAsks == [i \in Interfaces |-> alias]
=============================================================================
