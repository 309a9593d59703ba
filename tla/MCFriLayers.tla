---------------------------- MODULE MCFriLayers -----------------------------
(* Up to four layers with steps of up to three, every limit for layers in  *)
(* memory and chunks of one, two or more to a layer.                       *)
EXTENDS FriLayers

MaxLogSize == 7

StepLists == UNION {[1..n -> 0..3] : n \in 1..4}

(* The first step alone may be zero. *)
Sensible(steps) == \A i \in DOMAIN steps : i > 1 => steps[i] # 0

MCShapes ==
  {s \in [steps : {list \in StepLists : Sensible(list)}, logLastDegree : 0..2, logBlowup : 1..2,
          logInMemory : 0..MaxLogSize, logNonChunked : 2..4, logChunks : 1..2] :
     SumOf(s.steps) + s.logLastDegree + s.logBlowup <= MaxLogSize}
=============================================================================
