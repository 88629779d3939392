--------------------------- MODULE MCDeviceSelect ---------------------------
(* Instances of DeviceSelect for TLC.                                      *)
EXTENDS DeviceSelect

KnownPairs == { <<"NFC_DEP", "ISO_DEP">>, <<"T2T", "T3T", "T5T">> }
OtherPairs == { <<"T2T", "ISO_DEP">>, <<"T2T", "T2T">> }
=============================================================================
