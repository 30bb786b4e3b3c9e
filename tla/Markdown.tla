------------------------------ MODULE Markdown ------------------------------
(***************************************************************************)
(* document_to_markdown of infrastructure/extraction/markdown.py, over the *)
(* structure PyMuPDF gives: a page is a sequence of blocks, a block of     *)
(* lines, a line of spans.  A text is a sequence of characters; a blank is *)
(* what str.strip() strips; a size is in hundredths of a point.            *)
(***************************************************************************)
EXTENDS Integers, Sequences, FiniteSetsExt, SequencesExt

Space == " "
NL == "NL"
Bullets == {"bullet", "-", "*"}  \* some of _BULLET_MARKERS

Core(text) == {i \in DOMAIN text : text[i] # Space}
Strip(text) == IF Core(text) = {} THEN <<>> ELSE SubSeq(text, Min(Core(text)), Max(Core(text)))

(* A comprehension: over all of a sequence, over what passes a test. *)
Each(Op(_), seq) == [i \in DOMAIN seq |-> Op(seq[i])]
Only(Test(_), seq) == FlattenSeq(Each(LAMBDA x : IF Test(x) THEN <<x>> ELSE <<>>, seq))

(* sep.join() of what is not empty; a wrong version joins the rest too. *)
BugJoin(sep, texts) == FlattenSeq(
    [i \in DOMAIN texts |-> IF i = 1 THEN texts[i] ELSE sep \o texts[i]])
Join(sep, texts) == FlattenSeq(
    LET some == Only(LAMBDA t : t # <<>>, texts)
    IN  [i \in DOMAIN some |-> IF i = 1 THEN some[i] ELSE sep \o some[i]])

-----------------------------------------------------------------------------
(* The core of a span gets the marks, its edges stay outside them. *)
RenderSpan(span) ==
    LET text == span.text
        bold(t) == IF span.bold THEN <<"*", "*">> \o t \o <<"*", "*">> ELSE t
        italic(t) == IF span.italic THEN <<"*">> \o t \o <<"*">> ELSE t
    IN  IF Core(text) = {} THEN text
        ELSE SubSeq(text, 1, Min(Core(text)) - 1) \o italic(bold(Strip(text)))
             \o SubSeq(text, Max(Core(text)) + 1, Len(text))

(* A bullet and a space become "- "; an ordered item stays as it is, and   *)
(* so does what is no item.                                                *)
Item(text) == Len(text) >= 2 /\ text[1] \in Bullets /\ text[2] = Space
BugAsListItem(text) ==  \* a wrong version: one character too many is the marker
    IF Item(text) THEN <<"-", Space>> \o Strip(SubSeq(text, 4, Len(text))) ELSE text
AsListItem(text) ==
    IF Item(text) THEN <<"-", Space>> \o Strip(SubSeq(text, 3, Len(text))) ELSE text

(* 1.8, 1.5 and 1.25 times the body size make the levels 1, 2 and 3. *)
HeadingRatios == <<180, 150, 125>>
HeadingLevel(size, body) ==
    LET reached == {l \in 1..3 : 100 * size >= HeadingRatios[l] * body}
    IN  IF body <= 0 \/ reached = {} THEN 0 ELSE Min(reached)

Level(line, body) == HeadingLevel(Max({line[i].size : i \in DOMAIN line}), body)

Texts(line) == FlattenSeq(Each(LAMBDA span : span.text, line))
RenderLine(line, body) ==
    IF Core(Texts(line)) = {} THEN <<>>
    ELSE IF Level(line, body) > 0
         THEN [i \in 1..Level(line, body) |-> "#"] \o <<Space>> \o Strip(Texts(line))
         ELSE AsListItem(Strip(FlattenSeq(Each(RenderSpan, line))))

(* The size that carries most characters on a page, to a tenth of a point; *)
(* of two that carry as many, the one met first.                           *)
Lines(page) == FlattenSeq(Each(LAMBDA block : block.lines,
                               Only(LAMBDA block : ~block.image, page)))
Rounded(size) == ((size + 5) \div 10) * 10
BugWeight(spans, size) ==  \* a wrong version: spans are counted, not their characters
    Cardinality({i \in DOMAIN spans : Rounded(spans[i].size) = size})
Weight(spans, size) ==
    MapThenSumSet(LAMBDA i : Len(Strip(spans[i].text)),
                  {i \in DOMAIN spans : Rounded(spans[i].size) = size})
BodySize(page) ==
    LET spans == Only(LAMBDA span : Core(span.text) # {}, FlattenSeq(Lines(page)))
        of(i) == Weight(spans, Rounded(spans[i].size))
        heaviest == {i \in DOMAIN spans : \A j \in DOMAIN spans : of(j) <= of(i)}
    IN  IF spans = <<>> THEN 0 ELSE Rounded(spans[Min(heaviest)].size)

RenderBlock(block, body) ==
    IF block.image THEN <<>> ELSE Join(<<NL>>, Each(LAMBDA line : RenderLine(line, body), block.lines))
PageToMarkdown(page) ==
    Join(<<NL, NL>>, Each(LAMBDA block : RenderBlock(block, BodySize(page)), page))
DocumentToMarkdown(pages) == Join(<<NL, NL>>, Each(PageToMarkdown, pages))
=============================================================================
