-------------------------- MODULE MCFirmwareUpdate --------------------------
(* FirmwareUpdate with three files, one of them broken.                    *)
EXTENDS FirmwareUpdate
=============================================================================
