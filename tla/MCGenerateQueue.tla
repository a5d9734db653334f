--------------------------- MODULE MCGenerateQueue ---------------------------
(* Instances of GenerateQueue for TLC: an image of a provider, an official *)
(* one and a video.                                                        *)
EXTENDS GenerateQueue, TLC
CONSTANTS image, official, video

Three == {image, official, video}
Pair == {image, official}
Kinds == [t \in Tasks |-> IF t = video THEN "video" ELSE "image"]
OfficialImages == {official}
OneEach == [lane \in Lanes |-> 1]
=============================================================================
