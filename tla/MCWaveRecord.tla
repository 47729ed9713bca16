---------------------------- MODULE MCWaveRecord ----------------------------
(* WaveRecord for TLC. *)
EXTENDS WaveRecord
==============================================================================
