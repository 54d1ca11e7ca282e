--------------------------------- MODULE NLU ---------------------------------
(***************************************************************************)
(* The language understanding of the mock conversation                      *)
(* (backend/app/voice/nlu.py): how an utterance is split into words, which  *)
(* enquiry is read out of it, which intent it is taken for and what a       *)
(* search is for.                                                           *)
(*                                                                          *)
(* An utterance is a sequence of written words in lower case, without       *)
(* punctuation.  Of a class of words that the code treats alike, such as    *)
(* the units or the greetings, a few are kept; classes whose words also     *)
(* occur in other roles are complete.                                       *)
(***************************************************************************)
EXTENDS Integers, SequencesExt

(* Words. *)

\* Written words that are not one token: contractions and decimal fractions.
Expansion ==
    "don't" :> <<"do", "not">> @@ "i'd" :> <<"i", "would">>
        @@ "2.5" :> <<"2", "5">> @@ "7.0" :> <<"7", "0">>

Digits == "0" :> 0 @@ "2" :> 2 @@ "5" :> 5 @@ "7" :> 7 @@ "50" :> 50
              @@ "1,000" :> 1000

SmallNumbers ==
    [zero |-> 0, one |-> 1, two |-> 2, three |-> 3, four |-> 4, five |-> 5,
     six |-> 6, seven |-> 7, eight |-> 8, nine |-> 9, ten |-> 10, eleven |-> 11,
     twelve |-> 12, thirteen |-> 13, fourteen |-> 14, fifteen |-> 15,
     sixteen |-> 16, seventeen |-> 17, eighteen |-> 18, nineteen |-> 19]

Tens == [twenty |-> 20, thirty |-> 30, forty |-> 40, fifty |-> 50, sixty |-> 60,
         seventy |-> 70, eighty |-> 80, ninety |-> 90]

Scales == [hundred |-> 100, thousand |-> 1000, lakh |-> 100000,
           million |-> 1000000]

Addends == Digits @@ SmallNumbers @@ Tens

UnitWords == [tonnes |-> "tonnes", tonne |-> "tonnes", t |-> "tonnes",
              kg |-> "kg", kilos |-> "kg", pieces |-> "units"]

UnsupportedUnits == {"bags", "sacks", "pounds"}

TrailingFiller ==
    {"please", "thanks", "thank", "you", "asap", "urgently", "urgent",
     "immediately", "soon", "quickly", "now", "today", "tomorrow", "ok",
     "okay", "cheers", "kindly"}

LeadingArticles == {"a", "an", "the", "some", "any", "me", "us"}

ProductTrailingNoise ==
    {"for", "to", "of", "delivery", "shipment", "export", "exports",
     "delivered", "shipped", "shipping", "destined", "bound", "deliver",
     "ship", "send", "sending", "dispatch", "dispatched", "consignment"}

SupplierNouns == {"supplier", "suppliers", "distributor", "distributors", "exporters"}

SearchTokens ==
    {"find", "search", "looking", "look", "source", "sourcing", "recommend",
     "suggest"}

OrderVerbs ==
    {"need", "want", "order", "buy", "purchase", "procure", "require", "book",
     "requisition"}

Tokenise(text) ==
    FlattenSeq([i \in DOMAIN text |->
        IF text[i] \in DOMAIN Expansion THEN Expansion[text[i]]
                                        ELSE <<text[i]>>])

-----------------------------------------------------------------------------
(* Positions. *)

WordAt(tokens, i) == IF i \in DOMAIN tokens THEN tokens[i] ELSE ""

From(tokens, i) == SubSeq(tokens, i, Len(tokens))

DropTrailing(tokens, words) ==
    SubSeq(tokens, 1, Max({0} \cup {i \in DOMAIN tokens : tokens[i] \notin words}))

DropLeading(tokens, words) ==
    From(tokens, Min({Len(tokens) + 1}
                     \cup {i \in DOMAIN tokens : tokens[i] \notin words}))

\* Mutant: the filler is looked for on one side only.
StripLeading(tokens) == DropLeading(tokens, LeadingArticles)

StripFiller(tokens) ==
    DropLeading(DropTrailing(tokens, TrailingFiller), LeadingArticles)

-----------------------------------------------------------------------------
(* Numbers and units. *)

NoUnit == [unit |-> "", length |-> 0]

ResolveUnit(tokens, i) ==
    LET metric == WordAt(tokens, i) = "metric"
                  /\ WordAt(tokens, i + 1) \in {"tonnes", "tonne"}
        word   == WordAt(tokens, i) IN
    IF metric THEN [unit |-> "tonnes", length |-> 2]
    ELSE IF word \in DOMAIN UnitWords THEN [unit |-> UnitWords[word], length |-> 1]
    ELSE NoUnit

IsNumber(word) == word \in DOMAIN Addends \cup DOMAIN Scales

\* Does the number that starts at start go on with the token at i?
Continues(tokens, start, i) ==
    LET next == WordAt(tokens, i + 1) IN
    \/ IsNumber(WordAt(tokens, i))
    \/ /\ WordAt(tokens, i) \in {"a", "an"} /\ i = start
       /\ next \in DOMAIN Scales \/ ResolveUnit(tokens, i + 1) # NoUnit
    \/ WordAt(tokens, i) = "and" /\ i > start /\ IsNumber(next)

NumberLength(tokens, start) ==
    Min({i \in start .. Len(tokens) + 1 : ~Continues(tokens, start, i)}) - start

\* Mutant: hundred closes a group, as thousand does.
CountClosing(sum, word) ==
    CASE word \in DOMAIN Addends ->
            [sum EXCEPT !.current = @ + Addends[word]]
      [] word \in DOMAIN Scales ->
            [total |-> sum.total + Max({sum.current, 1}) * Scales[word],
             current |-> 0]
      [] word \in {"a", "an"} -> [sum EXCEPT !.current = @ + 1]
      [] OTHER -> sum

\* The running total, and the group a scale still applies to.
Count(sum, word) ==
    CASE word \in DOMAIN Addends ->
            [sum EXCEPT !.current = @ + Addends[word]]
      [] word = "hundred" ->
            [sum EXCEPT !.current = Max({@, 1}) * 100]
      [] word \in DOMAIN Scales \ {"hundred"} ->
            [total |-> sum.total + Max({sum.current, 1}) * Scales[word],
             current |-> 0]
      [] word \in {"a", "an"} -> [sum EXCEPT !.current = @ + 1]
      [] OTHER -> sum

NumberValue(words) ==
    LET sum == FoldLeft(Count, [total |-> 0, current |-> 0], words)
    IN sum.total + sum.current

-----------------------------------------------------------------------------
(* extract_enquiry. *)

\* The position of the destination's marker, 0 if there is none.  The longer
\* markers ("for delivery to", "bound for") end in a "to" or "for" that is a
\* later marker of its own, so the chosen one is the last "to", or else "for".
MarkerAt(tokens) ==
    LET last(word) == Max({0} \cup {i \in DOMAIN tokens : tokens[i] = word})
    IN IF last("to") > 0 THEN last("to") ELSE last("for")

Nowhere == [quantity |-> -1, unit |-> "", product |-> <<>>,
            destination |-> <<>>, missing |-> {}, unsupported |-> ""]

Divided(rest, marker) ==
    IF marker = 0
    THEN [product |-> StripFiller(rest), destination |-> <<>>]
    ELSE [product |-> DropTrailing(StripFiller(SubSeq(rest, 1, marker - 1)),
                                   ProductTrailingNoise),
          destination |-> StripFiller(From(rest, marker + 1))]

\* What follows the unit: the product, and behind a marker the destination.
Goods(tokens) ==
    LET rest == IF WordAt(tokens, 1) = "of" THEN Tail(tokens) ELSE tokens
    IN Divided(rest, MarkerAt(rest))

UnitIndex(tokens, i) == i + NumberLength(tokens, i)

\* The positions of a quantity: a number before a unit, known or not supported.
Quantities(tokens) ==
    {i \in DOMAIN tokens :
        /\ NumberLength(tokens, i) > 0
        /\ \/ ResolveUnit(tokens, UnitIndex(tokens, i)) # NoUnit
           \/ WordAt(tokens, UnitIndex(tokens, i)) \in UnsupportedUnits}

Counted(quantity, unit, goods) ==
    [quantity |-> quantity, unit |-> unit,
     product |-> goods.product, destination |-> goods.destination,
     missing |-> {d \in {"product", "destination"} : goods[d] = <<>>},
     unsupported |-> ""]

\* The quantity is at at, the word behind it at unitAt.
ReadOut(tokens, at, unitAt, unit) ==
    LET quantity == NumberValue(SubSeq(tokens, at, unitAt - 1)) IN
    IF unit = NoUnit
    THEN [Nowhere EXCEPT !.quantity = quantity,
                         !.unsupported = WordAt(tokens, unitAt)]
    ELSE Counted(quantity, unit.unit, Goods(From(tokens, unitAt + unit.length)))

ReadFrom(tokens, at) ==
    ReadOut(tokens, at, UnitIndex(tokens, at),
            ResolveUnit(tokens, UnitIndex(tokens, at)))

ExtractEnquiry(text) ==
    LET tokens == Tokenise(text) IN
    CASE tokens = <<>> ->
            [Nowhere EXCEPT
                !.missing = {"quantity", "unit", "product", "destination"}]
      [] tokens # <<>> /\ Quantities(tokens) = {} ->
            [Nowhere EXCEPT !.missing = {"quantity", "unit"}]
      [] OTHER -> ReadFrom(tokens, Min(Quantities(tokens)))

Complete(extraction) ==
    extraction.missing = {} /\ extraction.unsupported = ""

-----------------------------------------------------------------------------
(* classify. *)

ConfirmTokens == {"confirm", "confirmed", "yes", "yep", "yeah", "yup",
                  "correct", "proceed", "sure"}

ConfirmPhrases == {<<"go", "ahead">>, <<"do", "it">>, <<"that", "is", "right">>,
                   <<"sounds", "good">>, <<"place", "it">>, <<"yes", "please">>}

CancelTokens == {"cancel", "no", "nope", "stop", "abort", "scrap"}

CancelPhrases == {<<"forget", "it">>, <<"never", "mind">>, <<"nevermind">>,
                  <<"do", "not">>, <<"leave", "it">>, <<"no", "thanks">>}

EnquiryIds == {"enq-1001", "enq-1002"}

StatusPhrases == {<<"status", "of">>, <<"any", "update">>}

HumanTokens == {"human", "person", "agent", "someone", "manager"}

HumanPhrases == {<<"speak", "to">>, <<"talk", "to">>, <<"real", "person">>}

SelectedPhrases == {<<"this", "distributor">>, <<"this", "supplier">>}

GreetingTokens == {"hi", "hello"}

HelpPhrases == {<<"what", "can", "you", "do">>}

\* The phrases that occur in the utterance, at the boundaries of words.  (The code
\* looks for the letters of a phrase, and finds "talk to" in "talk tomorrow".)
Hits(tokens, phrases) == {p \in phrases : p \in SubSeqs(tokens)}

\* Short affirmations and refusals are decisive.
Terse(tokens) == Len(tokens) \in 1 .. 4

Decides(tokens, words, phrases) ==
    /\ Terse(tokens)
    /\ ToSet(tokens) \cap words # {} \/ Hits(tokens, phrases) # {}

\* In the order in which max prefers them.
Intents == <<"create_enquiry", "check_enquiry", "search_distributors",
             "describe_selected", "human_support", "confirm", "cancel",
             "greeting", "help", "unknown">>

\* The evidence for an intent, in tenths, in words of which found is read out.
Evidence(tokens, found, intent, selected) ==
    LET count(words) == Cardinality(ToSet(tokens) \cap words)
        hits(phrases) == Cardinality(Hits(tokens, phrases))
        if(condition, points) == IF condition THEN points ELSE 0 IN
    CASE intent = "check_enquiry" ->
            if(count(EnquiryIds) > 0, 30) + 12 * hits(StatusPhrases)
            + if(count({"enquiry", "enquiries", "order"}) > 0, 4)
      [] intent = "human_support" ->
            16 * (count(HumanTokens) + hits(HumanPhrases))
      [] intent = "search_distributors" ->
            13 * count(SearchTokens) + 15 * count(SupplierNouns)
            + if(count({"who"}) > 0 /\ count({"supplies", "sells"}) > 0, 20)
            + if(count(SearchTokens) > 0 /\ count(SupplierNouns) > 0, 15)
      [] intent = "create_enquiry" ->
            if(Complete(found), 32) + if(found.unsupported # "", 24)
            + if(found.unit # "" /\ ~Complete(found), 16)
            + 8 * count(OrderVerbs)
      [] intent = "describe_selected" ->
            22 * hits(SelectedPhrases)
            + if(selected /\ hits(SelectedPhrases) > 0, 10)
      [] intent = "greeting" ->
            if(count(GreetingTokens) > 0 /\ Len(tokens) <= 3, 20)
      [] intent = "help" ->
            20 * hits(HelpPhrases)
            + if(count({"help"}) > 0 /\ Len(tokens) <= 3, 15)
      [] OTHER -> 0

Score(text, intent, selected) ==
    Evidence(Tokenise(text), ExtractEnquiry(text), intent, selected)

\* The intent with the highest score, the earlier one of two.
Highest(score) ==
    LET best == CHOOSE i \in DOMAIN Intents :
                   \A j \in DOMAIN Intents :
                       \/ score[i] > score[j]
                       \/ score[i] = score[j] /\ i <= j
    IN IF score[best] = 0 THEN "unknown" ELSE Intents[best]

Strongest(text, selected) ==
    Highest([i \in DOMAIN Intents |-> Score(text, Intents[i], selected)])

Classify(text, selected) ==
    LET tokens == Tokenise(text) IN
    CASE Decides(tokens, ConfirmTokens, ConfirmPhrases) -> "confirm"
      [] /\ ~Decides(tokens, ConfirmTokens, ConfirmPhrases)
         /\ Decides(tokens, CancelTokens, CancelPhrases) -> "cancel"
      [] OTHER -> Strongest(text, selected)

\* A confidence of MIN_ACTIONABLE_CONFIDENCE, a quarter of the score.
Actionable(text, selected) ==
    Score(text, Classify(text, selected), selected) >= 16

-----------------------------------------------------------------------------
(* extract_search_slots. *)

LocationMarkers == <<"in", "from", "near", "around">>

NamedIn(tokens, vocabulary) ==
    {entry \in vocabulary : entry \in SubSeqs(tokens)}

\* Mutant: the shortest entry that occurs.
ShortestMatch(tokens, vocabulary) ==
    CHOOSE entry \in NamedIn(tokens, vocabulary) \cup {<<>>} :
        \A e \in NamedIn(tokens, vocabulary) : Len(entry) <= Len(e)

\* Of the entries that occur, the longest (the code counts letters, here words);
\* <<>> if there is none.
LongestMatch(tokens, vocabulary) ==
    CHOOSE entry \in NamedIn(tokens, vocabulary) \cup {<<>>} :
        \A e \in NamedIn(tokens, vocabulary) : Len(entry) >= Len(e)

\* The words behind the token at i that may name a place.
PlaceAfter(tokens, i) ==
    LET place == SelectSeq(StripFiller(From(tokens, i + 1)),
                           LAMBDA word : word \notin SupplierNouns)
    IN SubSeq(place, 1, Min({3, Len(place)}))

\* The first marker, in the order of the list, with a place behind it.
MarkedPlace(tokens) ==
    LET at(m) == {i \in 1 .. Len(tokens) - 1 :
                     /\ tokens[i] = LocationMarkers[m]
                     /\ PlaceAfter(tokens, i) # <<>>}
        used == {m \in DOMAIN LocationMarkers : at(m) # {}}
    IN IF used = {} THEN <<>> ELSE PlaceAfter(tokens, Min(at(Min(used))))

\* The noun phrase before the first supplier noun.
NounPhrase(tokens) ==
    LET nouns == {i \in 2 .. Len(tokens) : tokens[i] \in SupplierNouns}
        words == StripFiller(SelectSeq(SubSeq(tokens, 1, Min(nouns) - 1),
                     LAMBDA word : word \notin SearchTokens \cup OrderVerbs))
    IN IF nouns = {} THEN <<>>
       ELSE SubSeq(words, Max({1, Len(words) - 2}), Len(words))

ExtractSearchSlots(text, products, locations) ==
    LET tokens   == Tokenise(text)
        product  == LongestMatch(tokens, products)
        location == LongestMatch(tokens, locations) IN
    [product  |-> IF product # <<>> THEN product ELSE NounPhrase(tokens),
     location |-> IF location # <<>> THEN location ELSE MarkedPlace(tokens)]
=============================================================================
