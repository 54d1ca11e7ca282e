------------------------------- MODULE Phrases -------------------------------
(***************************************************************************)
(* What callers mean, and how they may word it: numbers, requests for an    *)
(* enquiry and searches, generated together with their meaning.  What NLU   *)
(* reads out of the words has to be what they were made from.               *)
(***************************************************************************)
EXTENDS NLU

VARIABLE phrase  \* words and their meaning, to be understood

Optionally(condition, words) == IF condition THEN words ELSE <<>>

-----------------------------------------------------------------------------
(* Numbers.                                                                 *)

Named(table, n) == <<CHOOSE word \in DOMAIN table : table[word] = n>>

SpokenBelow100(n) ==
    IF n < 20 THEN Named(SmallNumbers, n)
    ELSE Named(Tens, n - (n % 10))
         \o Optionally(n % 10 # 0, Named(SmallNumbers, n % 10))

SpokenBelow1000(n) ==
    IF n < 100 THEN SpokenBelow100(n)
    ELSE Named(SmallNumbers, n \div 100) \o <<"hundred">>
         \o Optionally(n % 100 # 0, <<"and">> \o SpokenBelow100(n % 100))

\* The words for a number from 1 to 999,999.
Spoken(n) ==
    IF n < 1000 THEN SpokenBelow1000(n)
    ELSE SpokenBelow1000(n \div 1000) \o <<"thousand">>
         \o Optionally(n % 1000 # 0,
                       Optionally(n % 1000 < 100, <<"and">>)
                       \o SpokenBelow1000(n % 1000))

SampledNumbers == 1 .. 1100 \cup {9999, 10000, 19019, 40200, 70015, 99999,
                                  100000, 230050, 512345, 999999}

Numbers == {[kind |-> "number", words |-> Spoken(n) \o <<"tonnes">>, means |-> n]
            : n \in SampledNumbers}

\* A number that is spoken out before a unit is read as that number, in its
\* whole length, whatever groups of hundreds and thousands it is made of.
NumbersAreRead ==
    phrase.kind = "number" =>
        LET tokens == Tokenise(phrase.words) IN
        /\ NumberLength(tokens, 1) = Len(tokens) - 1
        /\ NumberValue(Front(tokens)) = phrase.means

-----------------------------------------------------------------------------
(* Requests.                                                                *)

LeadIns == {<<>>, <<"yes", "i", "need">>, <<"please", "book">>,
            <<"no", "i'd", "order">>, <<"hello", "can", "you", "find">>}

Amounts ==
    {[words |-> <<"50">>, means |-> 50], [words |-> <<"a">>, means |-> 1],
     [words |-> <<"a", "hundred">>, means |-> 100],
     [words |-> Spoken(1250), means |-> 1250],
     [words |-> <<"1,000">>, means |-> 1000]}

UnitForms == {[words |-> <<"metric", "tonnes">>, means |-> "tonnes"],
              [words |-> <<"kilos">>, means |-> "kg"]}

ProductForms ==
    {[words |-> <<>>, means |-> <<>>],
     [words |-> <<"rice">>, means |-> <<"rice">>],
     [words |-> <<"of", "the", "basmati", "rice">>,
      means |-> <<"basmati", "rice">>]}

DestinationForms ==
    {[words |-> <<>>, means |-> <<>>],
     [words |-> <<"to", "dubai">>, means |-> <<"dubai">>],
     [words |-> <<"for", "north", "karachi">>, means |-> <<"north", "karachi">>],
     [words |-> <<"bound", "for", "dubai">>, means |-> <<"dubai">>],
     [words |-> <<"for", "delivery", "to", "the", "port">>,
      means |-> <<"port">>]}

Courtesies == {<<>>, <<"please">>, <<"urgently", "thank", "you">>}

Orders ==
    {[kind |-> "order",
      words |-> lead \o amount.words \o unit.words \o product.words
                \o destination.words \o courtesy,
      quantity |-> amount.means, unit |-> unit.means,
      product |-> product.means, destination |-> destination.means]
     : lead \in LeadIns, amount \in Amounts, unit \in UnitForms,
       product \in ProductForms, destination \in DestinationForms,
       courtesy \in Courtesies}

\* Whatever introduces, links or follows the details, the details read back are
\* those that were said, what was left out is asked for and not made up of the
\* words around it, and a complete request is never taken for a decision about
\* an earlier one, even if it begins with a yes or no.
OrdersAreUnderstood ==
    phrase.kind = "order" =>
        LET found == ExtractEnquiry(phrase.words)
            unsaid == {d \in {"product", "destination"} : phrase[d] = <<>>} IN
        /\ \A detail \in {"quantity", "unit", "product", "destination"} :
              found[detail] = phrase[detail]
        /\ found.missing = unsaid
        /\ unsaid = {} => Classify(phrase.words, FALSE) = "create_enquiry"

-----------------------------------------------------------------------------
(* Searches.                                                                *)

Hunts == {<<"find">>, <<"i", "am", "looking", "for">>, <<"please", "recommend">>}

Sold == {<<"rice">>, <<"basmati", "rice">>}

Located == {<<"karachi">>, <<"north", "karachi">>}

Elsewhere == {<<>>, <<"new", "delhi">>}

Searches ==
    {[kind |-> "search",
      words |-> hunt \o product \o <<"suppliers">>
                \o Optionally(place # <<>>, in \o place) \o courtesy,
      product |-> product, location |-> place]
     : hunt \in Hunts, product \in Sold, place \in Located \cup Elsewhere,
       in \in {<<"in">>, <<"from">>}, courtesy \in Courtesies}

\* A search is for the product and the place that were named: of the names in
\* the workspace the most specific one, and a place the workspace does not know
\* as it was said.
SearchesAreUnderstood ==
    phrase.kind = "search" =>
        LET slots == ExtractSearchSlots(phrase.words, Sold, Located) IN
        /\ slots.product = phrase.product
        /\ slots.location = phrase.location
        /\ Classify(phrase.words, FALSE) = "search_distributors"
        /\ Actionable(phrase.words, FALSE)

NoPhrase == [kind |-> "none"]

PhraseInit == phrase \in Numbers \cup Orders \cup Searches
=============================================================================
