------------------------ MODULE MCGenerationMonitor ------------------------
(* Small instances of GenerationMonitor for TLC.                           *)
EXTENDS GenerationMonitor

BothModes == {"batch", "immediate"}
=============================================================================
