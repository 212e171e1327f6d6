------------------------------ MODULE MCSession ------------------------------
EXTENDS Session, TLC
(* Four boards for the slot: no HDA controller; an Intel codec of another  *)
(* layout at address 0 and the expected one at address 1, with a selector  *)
(* where the other has a mixer; a Realtek codec with one node that is not  *)
(* what the node map says; and one whose types are two checks early and    *)
(* whose revision reads as the type of a converter.  A descriptor's format *)
(* decodes to the rate.                                                    *)
ASSUME FormatsDecode == \A r \in HdaRates : RateSupported(r) /\ RateOf(FormatVal(r)) = r

Alc269 == [nid \in Path |-> CHOOSE t \in Expected(nid) : t # "SEL"]
At(nid, type) == [Alc269 EXCEPT ![nid] = type]
Plain == [op \in Ids |-> IF op = "subsystem" THEN "zero" ELSE "id"]
Card(vendor, layout) == [vendor |-> vendor, id |-> Plain, layout |-> layout]
TwoEarly == [nid \in Path |-> IF nid \in Dacs THEN "MIX" ELSE "PIN"]
Controller(codec) == [streams |-> TRUE, capture |-> 4, codec |-> codec]

MCBoards == {
  [streams |-> FALSE, capture |-> 0, codec |-> <<>>],
  Controller(0 :> Card("intel", At(2, "PIN")) @@ 1 :> Card("realtek", At(12, "SEL"))),
  Controller(0 :> Card("realtek", At(13, "PIN"))),
  Controller(0 :> [Card("realtek", TwoEarly) EXCEPT !.id["revision"] = "OUT"])}
=============================================================================
