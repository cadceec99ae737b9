------------------------------- MODULE Chunking -------------------------------
(***************************************************************************)
(* The chunk strategies (chunking/strategies.py, structure.py), and the    *)
(* integrity they are admitted by (chunking/validation.py).  Fixed windows *)
(* slide over a document's tokens; the structural strategies split each    *)
(* unit at paragraphs, then sentences, then by windows, and pack what is   *)
(* short together again; neighbor and parent-child chunks are structural   *)
(* ones with a wider context.                                              *)
(*                                                                         *)
(* A text is a sequence of characters of which each is a space, a newline, *)
(* or a token by itself: "." ends a sentence, "," does not.  A span is     *)
(* [start, end) in offsets from 0, as in the code.                         *)
(***************************************************************************)
EXTENDS Integers, Sequences, FiniteSets, Arrangement

CONSTANTS
    ChunkDocuments,  \* source and units of the documents: kind and text of each unit
    Maximum,         \* token_maximum: 512
    TargetTokens,    \* token_target: 384
    Overlap          \* overlap of windows: 64

ASSUME ChunkingAssumption ==
    /\ {Maximum, TargetTokens, Overlap} \subseteq Nat \ {0}
    /\ TargetTokens <= Maximum
    /\ ChunkDocuments \subseteq
          [source : STRING, units : Seq([kind : STRING, text : Seq(STRING)])]

VARIABLES
    chunkDocument,  \* the document
    strategy,       \* how it was chunked, or "none"
    chunks          \* its chunks, in the order they are built

chunkVars == <<chunkDocument, strategy, chunks>>

Strategies == {"fixed", "structure", "neighbor", "parent-child"}

(***************************************************************************)
(* Texts.                                                                  *)
(***************************************************************************)
IsSpace(c) == c \in {" ", "\n"}
Span(start, end) == [start |-> start, end |-> end]
Char(text, i) == text[i + 1]

TokensIn(text, span) == {i \in span.start .. span.end - 1 : ~IsSpace(Char(text, i))}
TokenCount(text, span) == Cardinality(TokensIn(text, span))
Blank(text, span) == TokensIn(text, span) = {}

(* Spans of a text, one after the other. *)
InOrder(spans) == Arranged(spans, [a \in spans |-> {b \in spans : b.start < a.start}])

(* _blocks: what stands between newlines. *)
TextBlocks(text) ==
    LET newline(i) == Char(text, i) = "\n"
    IN {block \in [start : 0 .. Len(text), end : 0 .. Len(text)] :
           /\ block.start = 0 \/ newline(block.start - 1)
           /\ block.end = Len(text) \/ newline(block.end)
           /\ \A i \in block.start .. block.end - 1 : ~newline(i)
           /\ ~Blank(text, block)}

(* A sentence begins after the spaces that follow a "."; the one before it *)
(* ends a character earlier.                                               *)
SentenceStarts(text, block) ==
    {block.start} \cup
    {e \in block.start + 2 .. block.end :
        /\ IsSpace(Char(text, e - 1))
        /\ e < block.end => ~IsSpace(Char(text, e))
        /\ \E p \in block.start + 1 .. e - 1 :
              /\ Char(text, p - 1) = "."
              /\ \A i \in p .. e - 1 : IsSpace(Char(text, i))}

Sentences(text, block) ==
    LET starts == SentenceStarts(text, block)
    IN {sentence \in [start : starts, end : block.start .. block.end] :
           /\ sentence.end = block.end \/ sentence.end + 1 \in starts
           /\ \A next \in starts : next > sentence.start => next > sentence.end
           /\ ~Blank(text, sentence)}

(* Token windows of `Maximum`, each `Overlap` into the one before it, until*)
(* the last token is in one.                                               *)
Step == IF Maximum > Overlap THEN Maximum - Overlap ELSE 1
Windows(text, span) ==
    LET tokens == Ascending(TokensIn(text, span))
        count == TokenCount(text, span)
        last(first) == IF first + Maximum < count THEN first + Maximum ELSE count
        firsts == {first \in {n * Step : n \in 0 .. count} :
                      first < count /\ (first > 0 => last(first - Step) < count)}
    IN {Span(tokens[first + 1], tokens[last(first)] + 1) : first \in firsts}

(***************************************************************************)
(* _exact_segments                                                         *)
(***************************************************************************)
Segment(span, fallback) == [start |-> span.start, end |-> span.end, fallback |-> fallback]

(* _window_segments *)
SentenceSegments(text, sentence) ==
    IF TokenCount(text, sentence) <= Maximum THEN {Segment(sentence, FALSE)}
    ELSE {Segment(window, TRUE) : window \in Windows(text, sentence)}

BlockSegments(text, block) ==
    IF TokenCount(text, block) <= Maximum THEN {Segment(block, FALSE)}
    ELSE UNION {SentenceSegments(text, sentence) : sentence \in Sentences(text, block)}

(* In the order of the blocks, of the sentences and of the windows, which  *)
(* is that of where they start.                                            *)
Segments(text) == InOrder(UNION {BlockSegments(text, block) : block \in TextBlocks(text)})

Current(packed) == packed[Len(packed)]

(* Fault: the two are counted apart, each within the maximum. *)
JoinsEach(text, packed, segment) ==
    /\ packed # <<>>
    /\ ~Current(packed).fallback /\ ~segment.fallback
    /\ TokenCount(text, segment) <= Maximum
    /\ TokenCount(text, Current(packed)) < TargetTokens

(* A segment joins the one before it, when neither is a window, that one is*)
(* short of the target, and both fit together.                             *)
Joins(text, packed, segment) ==
    /\ packed # <<>>
    /\ ~Current(packed).fallback /\ ~segment.fallback
    /\ TokenCount(text, Span(Current(packed).start, segment.end)) <= Maximum
    /\ TokenCount(text, Current(packed)) < TargetTokens

Pack(text, packed, segment) ==
    IF Joins(text, packed, segment)
    THEN [packed EXCEPT ![Len(packed)] = Segment(Span(Current(packed).start, segment.end), FALSE)]
    ELSE Append(packed, segment)

ExactSegments(text) ==
    LET segments == Segments(text)
        packed[n \in 0 .. Len(segments)] ==
            IF n = 0 THEN <<>> ELSE Pack(text, packed[n - 1], segments[n])
    IN packed[Len(segments)]

(***************************************************************************)
(* Strategies.                                                             *)
(***************************************************************************)
(* section_units: a case text stands in for its parts only when there are  *)
(* none.                                                                   *)
HasParts(d) ==
    /\ d.source = "arabiccr"
    /\ \E i \in DOMAIN d.units :
          d.units[i].kind = "part" /\ \E j \in DOMAIN d.units[i].text : ~IsSpace(d.units[i].text[j])

Sections(d) ==
    {i \in DOMAIN d.units :
        ~(d.source = "arabiccr" /\ d.units[i].kind = "case_text" /\ HasParts(d))}

Chunk(spans, context, tokens, window) ==
    [spans |-> spans, context |-> context, tokens |-> tokens, window |-> window]
UnitSpan(u, span) == [unit |-> u, start |-> span.start, end |-> span.end]
Whole(d, u) == Span(0, Len(d.units[u].text))

(* build_structural_leaf_chunks, of one unit. *)
Leaves(d, u) ==
    LET segments == ExactSegments(d.units[u].text)
    IN [i \in DOMAIN segments |->
           Chunk({UnitSpan(u, segments[i])}, {}, TokenCount(d.units[u].text, segments[i]),
                 segments[i].fallback)]

(* _neighbor_chunks: a leaf with the one before and the one after it. *)
WithNeighbors(leaves) ==
    [i \in DOMAIN leaves |->
        [leaves[i] EXCEPT !.context =
            UNION {leaves[j].spans : j \in DOMAIN leaves \cap (i - 1 .. i + 1)}]]

(* _parent_child_chunks: a leaf with its unit. *)
WithParent(d, u, leaves) ==
    [i \in DOMAIN leaves |-> [leaves[i] EXCEPT !.context = {UnitSpan(u, Whole(d, u))}]]

(* Sections in order, joined by newlines, and where each begins: cursor and*)
(* stream of _fixed_chunks.                                                *)
OrderedSections(d) == Ascending(Sections(d))
SectionText(d, n) == d.units[OrderedSections(d)[n]].text

Stream(d) ==
    LET count == Cardinality(Sections(d))
        joined[n \in 0 .. count] ==
            IF n = 0 THEN <<>>
            ELSE joined[n - 1] \o (IF n = 1 THEN <<>> ELSE <<"\n">>) \o SectionText(d, n)
    IN joined[count]

Begins(d) ==
    LET begins[n \in 1 .. Cardinality(Sections(d))] ==
            IF n = 1 THEN 0 ELSE begins[n - 1] + Len(SectionText(d, n - 1)) + 1
    IN begins

(* _fixed_chunks: a window's spans, one in each section it reaches. *)
WindowIn(d, window, n) ==
    LET begins == Begins(d)[n]
        ends == begins + Len(SectionText(d, n))
    IN UnitSpan(OrderedSections(d)[n],
                Span((IF window.start < begins THEN begins ELSE window.start) - begins,
                     (IF window.end > ends THEN ends ELSE window.end) - begins))

FixedChunk(d, window) ==
    LET spans == {span \in {WindowIn(d, window, n) : n \in 1 .. Cardinality(Sections(d))} :
                     span.end > span.start}
    IN Chunk(spans, spans, TokenCount(Stream(d), window), TRUE)

FixedChunks(d) ==
    LET windows == InOrder(Windows(Stream(d), Span(0, Len(Stream(d)))))
    IN [n \in DOMAIN windows |-> FixedChunk(d, windows[n])]

(* build_chunks: of each section in order, its chunks in order. *)
SectionChunks(d, how, u) ==
    CASE how = "structure" -> Leaves(d, u)
      [] how = "neighbor" -> WithNeighbors(Leaves(d, u))
      [] how = "parent-child" -> WithParent(d, u, Leaves(d, u))

Places(chunksOf) ==
    LET places == UNION {{[unit |-> u, nth |-> n] : n \in DOMAIN chunksOf[u]} : u \in DOMAIN chunksOf}
    IN Arranged(places, [p \in places |-> {q \in places : \/ q.unit < p.unit
                                                          \/ q.unit = p.unit /\ q.nth < p.nth}])

Chunks(d, how) ==
    LET chunksOf == [u \in Sections(d) |-> SectionChunks(d, how, u)]
        places == Places(chunksOf)
    IN IF how = "fixed" THEN FixedChunks(d)
       ELSE [i \in DOMAIN places |-> chunksOf[places[i].unit][places[i].nth]]

ChunkingInit ==
    /\ chunkDocument \in ChunkDocuments
    /\ strategy = "none"
    /\ chunks = <<>>

BuildChunks ==
    /\ strategy = "none"
    /\ strategy' \in Strategies
    /\ chunks' = Chunks(chunkDocument, strategy')
    /\ UNCHANGED chunkDocument

ChunkingNext == BuildChunks

ChunkingSpec == ChunkingInit /\ [][ChunkingNext]_chunkVars

(***************************************************************************)
(* validate_chunks: what admits a strategy to the selection.               *)
(***************************************************************************)
TextOf(u) == chunkDocument.units[u].text
ValidSpan(s) == s.start >= 0 /\ s.end <= Len(TextOf(s.unit)) /\ s.end > s.start

Eligible ==
    \A i \in DOMAIN chunks :
        /\ chunks[i].spans # {}
        /\ \A s \in chunks[i].spans : ValidSpan(s)
        /\ strategy # "fixed" => Cardinality({s.unit : s \in chunks[i].spans}) = 1

Covered(u) ==
    UNION {{j \in s.start .. s.end - 1 : ~IsSpace(Char(TextOf(u), j))} :
              s \in UNION {{t \in chunks[i].spans : t.unit = u} : i \in DOMAIN chunks}}

-----------------------------------------------------------------------------
(* Properties. *)

(* Whatever the document, no strategy loses a token of it (but of a case   *)
(* text whose parts are there), none fails its own integrity gates, and no *)
(* chunk has more tokens than the maximum, or none.                        *)
NothingIsLost ==
    strategy # "none" =>
        /\ Eligible
        /\ \A u \in DOMAIN chunkDocument.units :
              \/ Covered(u) = TokensIn(TextOf(u), Whole(chunkDocument, u))
              \/ /\ chunkDocument.units[u].kind = "case_text" /\ u \notin Sections(chunkDocument)
                 /\ \E v \in Sections(chunkDocument) : Covered(v) # {}
        /\ \A i \in DOMAIN chunks : chunks[i].tokens \in 1 .. Maximum

(* Chunks of a unit follow one another; two share tokens only as windows of*)
(* one sentence that is too long, and then the overlap; none is split off  *)
(* that would have fit into a short one before it.                         *)
TokensOf(i) == UNION {{<<s.unit, j>> : j \in TokensIn(TextOf(s.unit), s)} : s \in chunks[i].spans}
SpanOf(i) == CHOOSE s \in chunks[i].spans : TRUE

NothingIsSplitInVain ==
    strategy = "structure" =>
        \A i \in DOMAIN chunks : i + 1 \in DOMAIN chunks /\ SpanOf(i).unit = SpanOf(i + 1).unit =>
            LET both == Span(SpanOf(i).start, SpanOf(i + 1).end)
                shared == Cardinality(TokensOf(i) \cap TokensOf(i + 1))
            IN /\ SpanOf(i).start < SpanOf(i + 1).start /\ SpanOf(i).end < SpanOf(i + 1).end
               /\ IF chunks[i].window /\ chunks[i + 1].window
                  THEN shared \in {0, Maximum - Step} /\ (shared > 0 => chunks[i].tokens = Maximum)
                  ELSE shared = 0
               /\ \/ chunks[i].window \/ chunks[i + 1].window
                  \/ chunks[i].tokens >= TargetTokens
                  \/ TokenCount(TextOf(SpanOf(i).unit), both) > Maximum

(* Fixed windows overlap by the same number of tokens throughout, only the *)
(* last is short, and none only repeats the end of the one before it.      *)
WindowsAdvance ==
    strategy = "fixed" =>
        \A i \in DOMAIN chunks : i + 1 \in DOMAIN chunks =>
            /\ chunks[i].tokens = Maximum
            /\ Cardinality(TokensOf(i) \cap TokensOf(i + 1)) = Maximum - Step
            /\ ~(TokensOf(i + 1) \subseteq TokensOf(i))

(* A leaf's context is of its own unit and holds the leaf. *)
ContextIsOwn ==
    strategy \in {"neighbor", "parent-child"} =>
        \A i \in DOMAIN chunks :
            /\ \A s \in chunks[i].context : s.unit = SpanOf(i).unit
            /\ \E s \in chunks[i].context : s.start <= SpanOf(i).start /\ SpanOf(i).end <= s.end

(* What chunking promises. *)
ChunksAreSound == NothingIsLost /\ NothingIsSplitInVain /\ WindowsAdvance /\ ContextIsOwn
=============================================================================
