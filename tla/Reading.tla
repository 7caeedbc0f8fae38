-------------------------------- MODULE Reading --------------------------------
(***************************************************************************)
(* Reading a file she was sent (agent/reading.py, nodes/reading.py,         *)
(* domain/reading_source.py, domain/book_impression.py).                    *)
(*                                                                         *)
(* Each request reads on from where the last impression of the file stopped *)
(* and writes the impression anew: it reads the newest version, reads for   *)
(* minutes, and appends only if no other version came in between.           *)
(***************************************************************************)
EXTENDS Naturals, Sequences, SequencesExt

CONSTANTS
    Files,
    Requests,       \* ids of ReadingTriggered
    Texts,          \* what a file may hold: the lengths of its paragraphs
    PageSize,       \* DEFAULT_PAGE_SIZE
    MaxReads,       \* MAX_READ_CALLS
    NoFile,
    ReadingLimit    \* bound: how often each of ReadingEvents happens

\* The bytes cannot be had; the agent fails, times out or writes nothing; the node raises
\* or dies; a dead letter is put back.
ReadingEvents == {"bytes", "agent", "raise", "crash", "replay"}

VARIABLES
    text,           \* the paragraphs of each file
    wanted,         \* the file of each request
    delivery,       \* a request on its durable edge
    reader,         \* the run of reading_node for a request
    impressions,    \* the versions of BookImpression of each file
    woes

NotReading == [pc |-> "off", base |-> 0, start |-> 0, frontier |-> 0, calls |-> 0, ended |-> FALSE]

--------------------------------------------------------------------------------
Chars(page) == FoldLeft(LAMBDA sum, n : sum + n, 0, page)

Flush(book) == IF book.page = <<>> THEN book.pages ELSE Append(book.pages, book.page)

\* A paragraph longer than a page is cut into pages of its own.
CutParagraph(para) ==
    [i \in 1 .. (para + PageSize - 1) \div PageSize |->
        <<IF i * PageSize <= para THEN PageSize ELSE para % PageSize>>]

Paragraph(book, para) ==
    IF para > PageSize
      THEN [pages |-> Flush(book) \o CutParagraph(para), page |-> <<>>]
    ELSE IF book.page # <<>> /\ Chars(book.page) + Len(book.page) + para + 1 > PageSize
      THEN [pages |-> Flush(book), page |-> <<para>>]
    ELSE [book EXCEPT !.page = Append(@, para)]

\* paginate: paragraphs go on a page while they fit, with a line break each.
Paginate(paras) == Flush(FoldLeft(Paragraph, [pages |-> <<>>, page |-> <<>>], paras))

ASSUME ReadingAssumption ==
    /\ NoFile \notin Files /\ MaxReads \in Nat
    /\ \A paras \in Texts : Len(Paginate(paras)) \in Nat

\* decode_pages refuses a file without text.
Readable(paras) == Chars(paras) > 0

Total(file) == Len(Paginate(text[file]))

--------------------------------------------------------------------------------
ReadingTypeOK ==
    /\ text \in [Files -> Texts]
    /\ wanted \in [Requests -> Files \cup {NoFile}]
    /\ delivery \in [Requests -> {"none", "queued", "done", "parked"}]
    /\ \A r \in Requests :
        /\ reader[r].pc \in {"off", "fetch", "read", "write", "settle"}
        /\ reader[r].start <= reader[r].frontier /\ reader[r].calls \in 0 .. MaxReads
        /\ reader[r].pc # "off" => wanted[r] # NoFile /\ delivery[r] = "queued"

ReadingInit ==
    /\ text \in [Files -> Texts]
    /\ wanted = [r \in Requests |-> NoFile]
    /\ delivery = [r \in Requests |-> "none"]
    /\ reader = [r \in Requests |-> NotReading]
    /\ impressions = [f \in Files |-> <<>>]
    /\ woes = [e \in ReadingEvents |-> 0]

Woe(e) == woes[e] < ReadingLimit[e] /\ woes' = [woes EXCEPT ![e] = @ + 1]

NewestImpression(file) == impressions[file][Len(impressions[file])]
Step(r, changed) == reader' = [reader EXCEPT ![r] = changed]
LeavesReading(r, state) == Step(r, NotReading) /\ delivery' = [delivery EXCEPT ![r] = state]

\* read_book: the same file in the same round has the same request.
ReadBook(r, file) ==
    /\ wanted[r] = NoFile
    /\ wanted' = [wanted EXCEPT ![r] = file]
    /\ delivery' = [delivery EXCEPT ![r] = "queued"]
    /\ UNCHANGED <<text, reader, impressions, woes>>

\* The request wrote the newest version: it was delivered again.
AlreadyRead(r, file) == impressions[file] # <<>> /\ NewestImpression(file).request = r

BeginsReading(r) ==
    /\ delivery[r] = "queued" /\ reader[r].pc = "off"
    /\ LET file == wanted[r]
           page == IF impressions[file] = <<>> THEN 0 ELSE NewestImpression(file).pages
       IN IF AlreadyRead(r, file) THEN LeavesReading(r, "done")
          ELSE /\ Step(r, [NotReading EXCEPT !.pc = "fetch", !.base = Len(impressions[file]),
                                             !.start = page, !.frontier = page])
               /\ UNCHANGED delivery
    /\ UNCHANGED <<text, wanted, impressions, woes>>

\* fetch_attachment_bytes and decode_pages: without pages nothing is read.
Fetches(r) ==
    /\ reader[r].pc = "fetch"
    /\ \/ /\ Readable(text[wanted[r]])
          /\ Step(r, [reader[r] EXCEPT !.pc = "read"])
          /\ UNCHANGED <<delivery, woes>>
       \/ ~Readable(text[wanted[r]]) /\ LeavesReading(r, "done") /\ UNCHANGED woes
       \/ Woe("bytes") /\ LeavesReading(r, "done")
    /\ UNCHANGED <<text, wanted, impressions>>

\* read: only the page at the frontier; beyond the last page the end is noted.
Reads(r) ==
    /\ reader[r].pc = "read" /\ reader[r].calls < MaxReads
    /\ Step(r, IF reader[r].frontier < Total(wanted[r])
                 THEN [reader[r] EXCEPT !.frontier = @ + 1, !.calls = @ + 1]
                 ELSE [reader[r] EXCEPT !.ended = TRUE])
    /\ UNCHANGED <<text, wanted, delivery, impressions, woes>>

\* The agent has written; without a page or the end, it read nothing.
Stops(r) ==
    /\ reader[r].pc = "read"
    /\ \/ /\ reader[r].ended \/ reader[r].frontier > reader[r].start
          /\ Step(r, [reader[r] EXCEPT !.pc = "write"])
          /\ UNCHANGED <<delivery, woes>>
       \/ /\ ~reader[r].ended /\ reader[r].frontier = reader[r].start
          /\ LeavesReading(r, "done") /\ UNCHANGED woes
       \/ Woe("agent") /\ LeavesReading(r, "done")
    /\ UNCHANGED <<text, wanted, impressions>>

\* Wrong variant: the version is appended to whatever is there.
StandsAnyway(r, file) == TRUE

\* save_impression: the compare of insert_append.
Stands(r, file) == Len(impressions[file]) = reader[r].base

Writes(r) ==
    /\ reader[r].pc = "write"
    /\ LET file == wanted[r]
           version == [request |-> r, start |-> reader[r].start, pages |-> reader[r].frontier,
                       status |-> IF reader[r].ended THEN "finished" ELSE "reading"]
       IN impressions' = IF Stands(r, file)
                           THEN [impressions EXCEPT ![file] = Append(@, version)]
                           ELSE impressions
    /\ Step(r, [reader[r] EXCEPT !.pc = "settle"])
    /\ UNCHANGED <<text, wanted, delivery, woes>>

Settles(r) ==
    /\ reader[r].pc = "settle"
    /\ LeavesReading(r, "done")
    /\ UNCHANGED <<text, wanted, impressions, woes>>

\* The node dies and the delivery comes again; it raises and the delivery is a dead letter.
Breaks(r) ==
    /\ reader[r].pc # "off"
    /\ \/ Woe("crash") /\ LeavesReading(r, "queued")
       \/ reader[r].pc # "settle" /\ Woe("raise") /\ LeavesReading(r, "parked")
    /\ UNCHANGED <<text, wanted, impressions>>

Replays(r) ==
    /\ delivery[r] = "parked" /\ Woe("replay")
    /\ LeavesReading(r, "queued")
    /\ UNCHANGED <<text, wanted, impressions>>

ReadingNext ==
    \E r \in Requests :
        \/ \E file \in Files : ReadBook(r, file)
        \/ BeginsReading(r) \/ Fetches(r) \/ Reads(r) \/ Stops(r) \/ Writes(r) \/ Settles(r)
        \/ Breaks(r) \/ Replays(r)

readingVars == <<text, wanted, delivery, reader, impressions, woes>>

ReadingSpec == ReadingInit /\ [][ReadingNext]_readingVars
--------------------------------------------------------------------------------
\* The pages hold every character of the text, and none is longer than a page may be.
PagesHoldTheText ==
    \A f \in Files : LET pages == Paginate(text[f]) IN
        /\ FoldLeft(LAMBDA sum, page : sum + Chars(page), 0, pages) = Chars(text[f])
        /\ \A i \in DOMAIN pages : Chars(pages[i]) + Len(pages[i]) - 1 <= PageSize

\* However requests overlap, fail and come again, the impressions of a file form one
\* reading: each starts where the one before stopped, gets further or to the end, and only
\* the one that got to the end says so.
ReadingIsContinuous ==
    \A f \in Files : \A i \in DOMAIN impressions[f] :
        LET v == impressions[f][i] IN
            /\ v.start = (IF i = 1 THEN 0 ELSE impressions[f][i - 1].pages)
            /\ v.pages > v.start \/ v.status = "finished"
            /\ v.pages <= Total(f)
            /\ v.status = "finished" => v.pages = Total(f)

\* A request that is delivered again does not read on, unless another request of the same
\* file wrote in between: only the newest version knows its request.
RepeatsNeedAnother ==
    \A f \in Files : \A i \in DOMAIN impressions[f] :
        i > 1 => impressions[f][i].request # impressions[f][i - 1].request
ReadingCanBeTrusted == ReadingIsContinuous /\ RepeatsNeedAnother
================================================================================
