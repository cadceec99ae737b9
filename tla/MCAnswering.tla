---------------------------- MODULE MCAnswering ----------------------------
(* Two documents, a heading that changes and returns, overlapping chunks, a chunk*)
(* that cannot be resolved; contexts are priced by their rendering.        *)
EXTENDS Answering

AllUnits == {"a1", "a2", "a3", "b1"}
Document == [u \in AllUnits |-> IF u = "b1" THEN "b" ELSE "a"]
Ordinal == [u \in AllUnits |-> CASE u = "a2" -> 2 [] u = "a3" -> 3 [] OTHER -> 1]
Heading == [u \in AllUnits |-> CASE u = "a2" -> "Rules" [] u = "b1" -> "" [] OTHER -> "Intro"]
TextLines == [u \in AllUnits |-> IF u = "a2" THEN 2 ELSE 1]

R == INSTANCE Rendering WITH DocumentOf <- Document,
                             OrdinalOf <- Ordinal, HeadingOf <- Heading, LinesOf <- TextLines

AllChunks == {"a1", "a12", "a23", "b1", "unknown"}
ChunkUnits == [c \in AllChunks |->
    CASE c = "a12" -> <<"a1", "a2">> [] c = "a23" -> <<"a2", "a3">> [] c = "unknown" -> <<>> [] OTHER -> <<c>>]
LineCount == [S \in SUBSET AllUnits |-> R!RenderedLines(S)]

TwoJurisdictions == {"SA", "EG"}
PrimaryUnits == {"a1"}
OperativeUnits == {"a2"}

(* "part" occurs in both units of a document, "altered" in none. *)
AllQuotes == {"text_a1", "text_a2", "text_a3", "text_b1", "part", "altered"}
WholeText == [u \in AllUnits |->
    CASE u = "a1" -> "text_a1" [] u = "a2" -> "text_a2" [] u = "a3" -> "text_a3" [] OTHER -> "text_b1"]
QuoteOccurs == [q \in AllQuotes |->
    IF q = "part" THEN {"a1", "a2"} ELSE {u \in AllUnits : WholeText[u] = q}]

(* Right, partial, altered, misattributed, unknown. *)
WrittenCitations == {[evidence |-> p[1], quote |-> p[2]] : p \in
    {<<"a1", "text_a1">>, <<"a1", "part">>, <<"a1", "altered">>, <<"a2", "text_a1">>,
     <<"a2", "part">>, <<"b1", "text_b1">>, <<"unknown", "text_a1">>}}

Plain == [pipeline |-> "serving", staged |-> TRUE, features |-> {}, requested |-> {}, scoped |-> {}]
(* Each feature alone, the combinations the gates distinguish, the         *)
(* jurisdictions, and the offline pipeline under either policy.            *)
AllQueries ==
    {[Plain EXCEPT !.features = {f}] : f \in Features}
        \cup {[Plain EXCEPT !.features = fs] :
                fs \in {{}, {"case_facts", "identified"}, {"dispositive", "missing_section"},
                        {"official", "advice"}, {"future", "currentness"}}}
        \cup {[Plain EXCEPT !.requested = js] : js \in SUBSET TwoJurisdictions}
        \cup {[Plain EXCEPT !.features = {"forum"}, !.scoped = {"b1"}]}
        \cup {[Plain EXCEPT !.pipeline = "offline"]}
        \cup {[Plain EXCEPT !.pipeline = "offline", !.staged = FALSE, !.features = {"official"}]}
PlainQuery == {Plain}
=============================================================================
