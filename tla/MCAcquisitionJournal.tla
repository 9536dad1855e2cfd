------------------------ MODULE MCAcquisitionJournal ------------------------
(* Two collectors, one feed of bars and one of funding, intervals of three ticks:
   the smallest with room for a margin of two and a clock two behind.           *)
EXTENDS AcquisitionJournal

OrderDef == <<"bars", "funding">>
SkewsDef == {-3, -2}
=============================================================================
