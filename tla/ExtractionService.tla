-------------------------- MODULE ExtractionService --------------------------
(***************************************************************************)
(* One document from the settings to the answer: create_app() with an      *)
(* environment, ExtractionService.extract (application/services/           *)
(* extraction_service.py) and, behind its port, PyMuPDFExtractor.extract   *)
(* (infrastructure/extraction/pymupdf_extractor.py), with the errors of    *)
(* application/errors.py.                                                  *)
(*                                                                         *)
(* Nothing runs at the same time here: a step is what lies between two     *)
(* places where the code may leave with an error.  PyMuPDF itself is       *)
(* external: a file opens or not, needs a password or not, its pages have  *)
(* the structure Markdown works on, and each read of them may raise.  The  *)
(* adapter runs in a worker of the process pool, which may die under it;   *)
(* the pool's own ways out, its queue and its timeouts, are ExtractorPool. *)
(***************************************************************************)
EXTENDS Settings, Markdown

CONSTANTS Environments,  \* what the process may be started with
          Files,         \* what may be uploaded
          Alphabet       \* what the text of a span is made of

(* What PyMuPDF answers for a file, if it opens: which read of the         *)
(* document is the first to raise, and its pages.  A span never runs over  *)
(* the end of its line.                                                    *)
TextSpan == [text : Seq(Alphabet), size : Nat, bold : BOOLEAN, italic : BOOLEAN]
LayoutBlock == [image : BOOLEAN, lines : Seq(Seq(TextSpan))]
Unguarded == {"needs_pass", "page_count", "returning"}  \* reads no try surrounds
Upload == [empty : BOOLEAN, opens : BOOLEAN, locked : BOOLEAN,
           raises : Unguarded \cup {"rendering", "never"}, pages : Seq(Seq(LayoutBlock))]

ASSUME ServiceAssumption ==
    /\ \A s \in Environments : Environment(s)
    /\ Files \subseteq Upload /\ NL \notin Alphabet

VARIABLES
    settings,  \* get_settings(), None before
    stage,     \* where extract() is
    file,      \* data
    handles,   \* what PyMuPDFExtractor.extract has open
    text,      \* the text, as rendered, then as normalised
    answer     \* the result, or the error raised

vars == <<settings, stage, file, handles, text, answer>>

LeastSize == 20  \* smaller fonts may be rounded away, see Rounded
NoText == <<>>
Init == /\ settings = None /\ stage = "off" /\ file = None /\ handles = {}
        /\ text = NoText /\ answer = None

Goto(s) == stage' = s

(* An error ends the extraction. *)
Raise(error) ==
    /\ Goto("over") /\ answer' = [error |-> error, text |-> NoText, pages |-> 0]
    /\ UNCHANGED <<settings, file, text>>

(* The status each class of errors.py pins. *)
Unprocessable == {"MissingFieldError", "EmptyFileError", "MalformedMultipartError",
    "EncryptionError", "NoTextError", "UnreadableError", "ExcessivePagesError",
    "ExcessiveTextError"}
Status(error) ==
    CASE error = "none" -> 200
      [] error \in Unprocessable -> 422
      [] error = "OversizedError" -> 413
      [] error = "OverloadError" -> 503
      [] error = "ExtractionTimeoutError" -> 504
      [] OTHER -> 500

-----------------------------------------------------------------------------
(* NFC: every character is decomposed, then what can be is composed; what  *)
(* is excluded from composition stays decomposed, three characters at most *)
(* for one.                                                                *)
Decomposition == [eacute |-> <<"e", "acute">>, shin |-> <<"s", "dagesh", "dot">>]
Decomposed(t) == FlattenSeq(Each(
    LAMBDA c : IF c \in DOMAIN Decomposition THEN Decomposition[c] ELSE <<c>>, t))
Compose(t, c) == IF t # <<>> /\ Last(t) = "e" /\ c = "acute" THEN Append(Front(t), "eacute")
                                                             ELSE Append(t, c)
NFC(t) == FoldLeft(Compose, <<>>, Decomposed(t))

(* Of a run of three or more newlines two are kept. *)
KeepTwo(t, c) == IF c = NL /\ IsSuffix(<<NL, NL>>, t) THEN t ELSE Append(t, c)
Normalize(t) == FoldLeft(KeepTwo, <<>>, NFC(t))

-----------------------------------------------------------------------------
(* Plausible wrong versions of the steps below: the document is left open  *)
(* by an error, the least length is asked of the text before it is         *)
(* normalised.                                                             *)
BugRefuseLocked ==
    /\ stage = "opened" /\ file.raises # "needs_pass" /\ file.locked
    /\ handles' = handles \ {"buffer"} /\ Raise("EncryptionError")
BugDeliver ==
    /\ stage = "rendered" /\ Len(file.pages) <= settings.max_pages
    /\ Len(text) \in settings.min_text_length..settings.max_extracted_chars /\ Goto("over")
    /\ answer' = [error |-> "none", text |-> Normalize(text), pages |-> Len(file.pages)]
    /\ UNCHANGED <<settings, file, handles, text>>

-----------------------------------------------------------------------------
(* get_settings() and create_app(): the process starts or refuses to. *)
Configure(s) ==
    /\ stage = "off" /\ Accepted(s) /\ settings' = s /\ Goto("idle")
    /\ UNCHANGED <<file, handles, text, answer>>
Refuse(s) ==
    /\ stage = "off" /\ ~Accepted(s) /\ Goto("refused")
    /\ UNCHANGED <<settings, file, handles, text, answer>>

(* extract() is called. *)
Receive(f) ==
    /\ stage = "idle" /\ file' = f /\ Goto("received")
    /\ UNCHANGED <<settings, handles, text, answer>>
RefuseEmpty ==
    /\ stage = "received" /\ file.empty /\ Raise("EmptyFileError")
    /\ UNCHANGED handles

(* The adapter: the buffer is closed however it ends, and so is the        *)
(* document once it is open.                                               *)
Open ==
    /\ stage = "received" /\ ~file.empty /\ file.opens
    /\ handles' = {"buffer", "document"} /\ Goto("opened")
    /\ UNCHANGED <<settings, file, text, answer>>
RefuseOpen ==
    /\ stage = "received" /\ ~file.empty /\ ~file.opens
    /\ Raise("UnreadableError") /\ UNCHANGED handles
RefuseLocked ==
    /\ stage = "opened" /\ file.raises # "needs_pass" /\ file.locked
    /\ handles' = {} /\ Raise("EncryptionError")
Unlocked == file.raises # "needs_pass" /\ ~file.locked
RefuseNoPages ==
    /\ stage = "opened" /\ Unlocked /\ file.raises # "page_count" /\ file.pages = <<>>
    /\ handles' = {} /\ Raise("UnreadableError")
HasPages == Unlocked /\ file.raises # "page_count" /\ file.pages # <<>>
RefuseBroken ==
    /\ stage = "opened" /\ HasPages /\ file.raises = "rendering"
    /\ handles' = {} /\ Raise("UnreadableError")
Render ==
    /\ stage = "opened" /\ HasPages /\ file.raises = "never"
    /\ text' = DocumentToMarkdown(file.pages) /\ handles' = {} /\ Goto("rendered")
    /\ UNCHANGED <<settings, file, answer>>

(* What is read outside the try raises as it is, to the catch-all handler; *)
(* so does the pool for a worker that died, with all it had open.          *)
Escape ==
    /\ stage = "opened"
    /\ \/ file.raises = "needs_pass"
       \/ Unlocked /\ file.raises = "page_count"
       \/ HasPages /\ file.raises = "returning"
    /\ handles' = {} /\ Raise("Exception")
WorkerDies ==
    /\ stage = "opened" \/ (stage = "received" /\ ~file.empty)
    /\ handles' = {} /\ Raise("BrokenProcessPool")

(* The service again: the caps come before normalisation, the least length *)
(* after it.                                                               *)
RefusePages ==
    /\ stage = "rendered" /\ Len(file.pages) > settings.max_pages
    /\ Raise("ExcessivePagesError") /\ UNCHANGED handles
RefuseLong ==
    /\ stage = "rendered" /\ Len(file.pages) <= settings.max_pages
    /\ Len(text) > settings.max_extracted_chars
    /\ Raise("ExcessiveTextError") /\ UNCHANGED handles
Normalise ==
    /\ stage = "rendered" /\ Len(file.pages) <= settings.max_pages
    /\ Len(text) <= settings.max_extracted_chars
    /\ text' = Normalize(text) /\ Goto("normalised")
    /\ UNCHANGED <<settings, file, handles, answer>>
RefuseShort ==
    /\ stage = "normalised" /\ Len(text) < settings.min_text_length
    /\ Raise("NoTextError") /\ UNCHANGED handles
Deliver ==
    /\ stage = "normalised" /\ Len(text) >= settings.min_text_length
    /\ Goto("over") /\ answer' = [error |-> "none", text |-> text, pages |-> Len(file.pages)]
    /\ UNCHANGED <<settings, file, handles, text>>

Terminated == stage \in {"refused", "over"} /\ UNCHANGED vars

Extract == \/ RefuseOpen \/ Open \/ RefuseLocked \/ RefuseNoPages \/ RefuseBroken \/ Render
           \/ Escape \/ WorkerDies
Serve == RefuseEmpty \/ Extract \/ RefusePages \/ RefuseLong \/ Normalise \/ RefuseShort \/ Deliver
Next == \/ \E s \in Environments : Configure(s) \/ Refuse(s)
        \/ \E f \in Files : Receive(f)
        \/ Serve \/ Terminated

Spec == Init /\ [][Next]_vars
-----------------------------------------------------------------------------
Delivered == answer # None /\ answer.error = "none"

(* Every accepted environment makes an application that can be built.      *)
SettingsBuildTheParts == settings # None => PartsCanBeBuilt(settings)

(* The words of the document are all in the answer, once and in the order  *)
(* of the pages: headings, items, marks, joins and normalisation neither   *)
(* lose nor repeat a letter, whatever spans the words are cut into.        *)
Marks == {Space, NL, "#"} \cup Bullets
Letters(t) == Only(LAMBDA c : c \notin Marks, Decomposed(t))
WordsKept ==
    Delivered => Letters(answer.text) = FlattenSeq(Each(
        LAMBDA page : FlattenSeq(Each(LAMBDA line : Letters(Texts(line)), Lines(page))), file.pages))

(* Where most characters have one size, on the page and in the document,   *)
(* no line of that size or a smaller one is a heading, and every line      *)
(* twice as large is: short titles, many small spans or blanks do not move *)
(* the body size.  What the docstring calls the document's body size and   *)
(* what the code takes, the page's, are the same there (markdown.py 9,     *)
(* 42); a page that holds nothing but a title is not such a page.          *)
Characters(page, Is(_)) ==
    LET spans == FlattenSeq(Lines(page))
    IN  MapThenSumSet(LAMBDA i : Len(Strip(spans[i].text)), {i \in DOMAIN spans : Is(spans[i].size)})
MostlyIn(page, z) == 2 * Characters(page, LAMBDA size : size = z) > Characters(page, LAMBDA size : TRUE)
IsHeading(line, page) ==
    LET rendered == RenderLine(line, BodySize(page)) IN rendered # <<>> /\ Head(rendered) = "#"
HeadingsStandOut ==
    Delivered => \A page \in ToSet(file.pages) : \A line, body \in ToSet(Lines(page)) :
        \A z \in {body[i].size : i \in DOMAIN body} :
            MostlyIn(page, z) /\ MostlyIn(FlattenSeq(file.pages), z) /\ z >= LeastSize =>
                /\ (\A i \in DOMAIN line : line[i].size <= z) => ~IsHeading(line, page)
                /\ (\E i \in DOMAIN line : Core(line[i].text) # {} /\ line[i].size >= 2 * z)
                       => IsHeading(line, page)

(* Images, blank spans, blank lines and pages without text leave nothing   *)
(* behind: a line has no blank at its ends, the text no newline at its     *)
(* own, and paragraphs and pages are one blank line apart.                 *)
BlanksLeaveNoTrace ==
    Delivered => LET t == <<NL, NL>> \o answer.text \o <<NL, NL>>
                 IN  /\ ~\E i \in 1..(Len(t) - 1) : {t[i], t[i + 1]} = {NL, Space}
                     /\ answer.text # NoText
                            => ~\E i \in 1..(Len(t) - 2) : t[i] = NL /\ t[i + 1] = NL /\ t[i + 2] = NL

(* What is delivered is within the settings' limits.  The cap on the text  *)
(* is asked before normalisation, which may make three characters of one:  *)
(* the answer is within three times the cap, not within it.                *)
ResultWithinLimits ==
    Delivered => /\ Len(answer.text) >= settings.min_text_length
                 /\ Len(answer.text) <= 3 * settings.max_extracted_chars
                 /\ answer.pages <= settings.max_pages
                 /\ Normalize(answer.text) = answer.text

(* No document or buffer outlives the adapter's call, however it ends: a   *)
(* result, an error of the domain, an exception no try surrounds, or the   *)
(* worker's death.  Only the last two are answered 500; what PyMuPDF       *)
(* raises as it opens or renders is the document's fault, a 422.           *)
NothingStaysOpen ==
    /\ stage # "opened" => handles = {}
    /\ answer # None /\ Status(answer.error) = 500 =>
          file.raises \in Unguarded \/ answer.error = "BrokenProcessPool"
=============================================================================
