--------------------------- MODULE MCAiExtraction ---------------------------
(* Two or three uploads, an active model and a canary, one operator. *)
EXTENDS AiExtraction

CONSTANTS f1, f2, f3, m1, m2, o1

ActiveAndCanary == [m \in Models |-> IF m = m1 THEN "active" ELSE "canary"]
PastSamples == {[m \in Models |-> IF m = m1 THEN <<>> ELSE <<"agree", "agree">>]}
=============================================================================
