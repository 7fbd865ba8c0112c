------------------------------- MODULE MCPayload -------------------------------
(* A small good image of a long strip and a large corrupt one of a short      *)
(* strip, a catalogue of two, ids chosen by the ground or by the imager.     *)
EXTENDS Payload
SomeFrames == {[size |-> 1, lines |-> 2, status |-> "OK"],
               [size |-> 2, lines |-> 1, status |-> "CORRUPT"]}
=================================================================================
