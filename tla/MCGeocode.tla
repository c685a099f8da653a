------------------------------- MODULE MCGeocode ------------------------------
(***************************************************************************)
(* A small instance of Geocode: one address for each thing that the city   *)
(* may have to say, two clicks of the page and one join request.           *)
(***************************************************************************)
EXTENDS Geocode

CONSTANTS x, y, zero, text

Found(pad, dob) == [area |-> TRUE, match |-> "found", pad |-> pad, dob |-> dob]

MCCity ==
  [a \in Address |->
     CASE a = "built"     -> Found(x, {})
       [] a = "new"       -> Found(zero, {y})
       [] a = "text"      -> Found(text, {y})
       [] a = "disputed"  -> Found(zero, {x, y})
       [] a = "planned"   -> Found(Null, {})
       [] a = "elsewhere" -> [Found(x, {}) EXCEPT !.match = "other ZIP"]
       [] a = "abroad"    -> [Found(x, {}) EXCEPT !.area = FALSE]]

MCTokens ==
  {[checkbox |-> b, invisible |-> "valid", score |-> s] : b \in {"none", "valid", "invalid"}, s \in {3, 5}}
=============================================================================
