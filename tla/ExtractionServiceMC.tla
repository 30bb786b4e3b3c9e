------------------------- MODULE ExtractionServiceMC -------------------------
(* Environments one field away from a valid one, and small documents. *)
EXTENDS ExtractionService

Base == [port |-> 8001, max_upload_bytes |-> 9, min_text_length |-> 3, workers |-> None,
         max_concurrent_extractions |-> None, max_inflight_requests |-> None,
         queue_timeout_seconds |-> 5, extraction_timeout_seconds |-> 30, max_pages |-> 2,
         max_extracted_chars |-> 20, metrics_cache_ttl_seconds |-> 1, log_level |-> "INFO"]
With(f, values) == {[Base EXCEPT ![f] = v] : v \in values}
MCEnvironments ==
    UNION {With(f, {-1, 0}) : f \in Caps \cup Timeouts \cup {"max_upload_bytes"}}
    \cup With("port", {0, 65536}) \cup With("log_level", {"info", "loud"})
    \cup With("metrics_cache_ttl_seconds", {-1, 0}) \cup With("min_text_length", {-1, 0, 7})
    \cup With("max_pages", {1}) \cup With("max_extracted_chars", {3, 8})
    \cup {[Base EXCEPT !.workers = w, !.max_concurrent_extractions = c, !.max_inflight_requests = d] :
             w \in {None, 0, 2}, c \in {None, 0, 1, 3}, d \in {None, -1, 1}}

MCAlphabet == {"a", "b", "e", "acute", "eacute", "shin", Space} \cup Bullets
Span(t, z) == [text |-> t, size |-> z, bold |-> FALSE, italic |-> FALSE]
Styled(t, z, b) == [text |-> t, size |-> z, bold |-> b, italic |-> TRUE]
SomeLines ==
    {<<Span(t, z)>> : t \in {<<"a">>, <<Space, "a", "b", "a", "b">>}, z \in {1000, 2400}}
    \cup {<<Span(<<"a">>, z), Span(<<"b">>, 1000)>> : z \in {1004, 1250, 1500}}
    \cup {<<Span(<<b, Space, Space, "e">>, 1000), Styled(<<"acute", Space>>, 1000, b = "-")>> : b \in Bullets}
    \cup {<<Span(<<"bullet", Space, "a">>, 1000)>>,
          <<Span(<<"a">>, 1000), Span(<<Space>>, 3000)>>, <<Span(<<Space, Space>>, 1000)>>,
          <<Span(<<"-", "a">>, 1000)>>, <<Span(<<"shin", "shin">>, 1000)>>,
          <<Styled(<<"e">>, 1000, FALSE), Span(<<"acute">>, 1000)>>, <<Span(<<"a", "b">>, 4)>>}
Text(lines) == [image |-> FALSE, lines |-> lines]
Picture == [image |-> TRUE, lines |-> <<>>]
Few == {<<Span(<<"a", Space, "b">>, 1000)>>, <<Span(<<Space>>, 2400)>>, <<Span(<<"b">>, 1800)>>,
        <<Span(<<"e">>, 1000), Span(<<"acute", "a", Space>>, 1000)>>}
Blocks == {Picture} \cup {Text(<<l>>) : l \in Few}
Pages == {<<Text(<<k, l>>)>> : k, l \in SomeLines} \cup {<<b, c>> : b, c \in Blocks} \cup {<<>>}

Document(pages) == [empty |-> FALSE, opens |-> TRUE, locked |-> FALSE, raises |-> "never", pages |-> pages]
Good == {Document(<<p>>) : p \in Pages}
        \cup {Document(<<p, q>>) : p, q \in {<<b>> : b \in Blocks} \cup {<<>>}}
        \cup {Document(<<<<>>, <<Text(<<l>>)>>, <<>>>>) : l \in Few}
MCFiles == Good \cup {[Document(<<>>) EXCEPT !.empty = TRUE], [Document(<<>>) EXCEPT !.opens = FALSE],
    [Document(<<<<>>>>) EXCEPT !.locked = TRUE], Document(<<>>)}
    \cup {[Document(p) EXCEPT !.raises = r, !.locked = l] :
             r \in Unguarded \cup {"rendering"}, l \in BOOLEAN, p \in {<<>>, <<<<>>>>}}
=============================================================================
