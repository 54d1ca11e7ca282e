------------------------------ MODULE MCDialogue ------------------------------
(***************************************************************************)
(* Small instances of Dialogue for TLC.                                     *)
(***************************************************************************)
EXTENDS Dialogue

CONSTANTS ana, w1, s1, s2, c1, c2, c3, r1, r2

OneWorkspaceOf == ana :> w1

SpokenProducts == {<<"rice">>, <<"salt">>}
SpokenPlaces == {<<"dubai">>}

RiceRequest == <<"50", "tonnes", "of", "rice", "to", "dubai">>
SaltRequest == <<"5", "kg", "of", "salt">>
NoRice      == <<"0", "kg", "of", "rice", "to", "dubai">>

Talk == {RiceRequest, SaltRequest, NoRice, <<"dubai">>, <<"yes">>, <<"no">>,
         <<"2", "bags", "of", "salt">>, <<"a", "real", "person">>,
         <<"find", "salt", "suppliers">>, <<"hello">>}

Details(quantity, unit, product, destination) ==
    [quantity |-> quantity, unit |-> unit, product |-> <<product>>,
     destination |-> destination]

\* What the words may complete the salt request with.
Proposals ==
    {Details(50, "tonnes", "rice", <<"dubai">>)} \cup
        {Details(5, "kg", "salt", PlaceIn(words)) :
            words \in {<<"dubai">>, SaltRequest, <<"2", "bags", "of", "salt">>}}

Symmetry == Permutations(ConfirmationIds) \cup Permutations(Requests)
                \cup Permutations(Sessions)
=============================================================================
