---------------------------- MODULE MCTurnMachine ---------------------------
(* A small call: two locales, an acknowledgement that is a backchannel in  *)
(* English only, a request long enough to barge in, and a hesitation.      *)
EXTENDS TurnMachine

CONSTANTS en, fr, noloc, yeah, book, um

MCToken   == {yeah, book, um}
MCLocale  == {en, fr}
Nowhere   == [l \in MCLocale |-> {}]
MCHesitation == [l \in MCLocale |-> {um}]
MCBackchannelDict == [l \in MCLocale |-> IF l = en THEN {yeah} ELSE {}]
MCRunes   == [t \in MCToken |-> IF t = book THEN 6 ELSE IF t = yeah THEN 4 ELSE 2]
MCDelays  == [hesitation |-> 2, number |-> 2, incomplete |-> 2, question |-> 1, default |-> 1]
MCUtterances == {<<yeah>>, <<book>>, <<um>>}
MCChunks  == {[dur |-> 1, ends |-> <<1>>], [dur |-> 2, ends |-> <<1, 2>>]}
=============================================================================
