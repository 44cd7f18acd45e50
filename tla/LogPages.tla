------------------------------- MODULE LogPages -------------------------------
(***************************************************************************)
(* Paging through one log source (file_reader.py, journal_reader.py): a    *)
(* browser opens the tail of a plain file, a gzip file or the journal and  *)
(* then asks for older or newer pages, while a plain file and the journal  *)
(* grow.  read_file_page takes the size of the file, the function that     *)
(* reads takes it again, and reads afterwards: steps of their own.         *)
(*                                                                         *)
(* The text is in the form of LineText, one byte for a character, lines    *)
(* end with a newline alone; line n carries the time n, unless it is       *)
(* Undated, and no byte of it can be decoded if it is Garbled.             *)
(***************************************************************************)
EXTENDS LineText, Integers

CONSTANTS
  PageBytes,     \* FILE_RECENT_BYTES, the size of a page
  FirstChunk,    \* the first read of a time window, 512 KiB
  PageLines,     \* most lines of a forward page and of a journal page
  BackLines,     \* lines that an older page of a gzip file goes back
  Undated,       \* lines without a timestamp
  Garbled,       \* lines that are not UTF-8
  Sinces,        \* time windows that may be asked for; 0 for none
  MaxText, MaxPages  \* bounds: pieces in the file, pages of a session

ASSUME PagesAssumption ==
  /\ PageBytes \in Nat \ {0} /\ FirstChunk \in Nat \ {0}
  /\ PageLines \in Nat \ {0} /\ BackLines \in Nat \ {0}
  /\ Undated \subseteq Nat /\ Garbled \subseteq Nat /\ Sinces \subseteq Nat
  /\ MaxText \in Nat /\ MaxPages \in Nat

VARIABLES
  kind,   \* plain, gzip or journal
  text,   \* the text of the source
  req,    \* the request being served: see Idle
  view,   \* the page in the browser (fileViewport)
  prev,   \* history: the page before it
  asked   \* counter for the bound

pagesVars == <<kind, text, req, view, prev, asked>>

\* The request: its direction and time window, the size of the file when it came;
\* the size that the function saw which reads, once it looked, how much of the end
\* it reads, and whether it fell back to the plain tail.
Idle == [dir |-> "none", since |-> 0, size |-> 0,
         looked |-> FALSE, seen |-> 0, width |-> 0, fell |-> FALSE]

\* A page: what the browser keeps, and as history the length of the text when it
\* was read (at), how far it was read (end), the size the reader had seen, and the
\* line that the reader stepped back over to find the end of the page (back).
NoPage == [from |-> 0, to |-> 0, lines |-> <<>>, older |-> FALSE, newer |-> FALSE,
           since |-> 0, dir |-> "none", fellBack |-> FALSE,
           at |-> 0, end |-> 0, seen |-> 0, back |-> 0]
FrontOf(s) == SubSeq(s, 1, Len(s) - 1)
Minus(m, n) == IF m > n THEN m - n ELSE 0
NotBelow(n) == IF n < 0 THEN 0 ELSE n
From(off) == SubSeq(text, off + 1, Len(text))

\* An empty line is never an event.
SolidIn(lines) == {i \in DOMAIN lines : ~Blank(lines[i])}
Solid(lines) == Picked(lines, SolidIn(lines))

\* len(line.encode("utf-8")) of a line decoded with errors="replace": each byte that
\* could not be decoded has become a character of three bytes.
Bytes(line) ==
  IF LineOf(line[1]) \in Garbled THEN 3 * Characters(line) ELSE Characters(line)

-----------------------------------------------------------------------------
(* Plain files: offsets are bytes *)

TextAfter(off, t) == IF off > 0 THEN AfterFirst(t) ELSE t

ReadTail(max) ==
  LET from == Minus(req.seen, max)
  IN  [from |-> from, lines |-> SplitLines(TextAfter(from, From(from)))]

RangeRead(off, end, to, lines, back) ==
  [from |-> off, end |-> end, to |-> to, lines |-> lines, back |-> back]

\* The last line of a page that does not reach the end of the file, as the reader
\* saw it, is dropped, and another one when the page does not end with a newline.
Trimmed(off, end, part, kept) ==
  IF kept # <<>> /\ ~Blank(kept[Len(kept)]) /\ ~EndsLine(part[Len(part)])
  THEN LET line == kept[Len(kept)]
       IN  RangeRead(off, end, end - (Bytes(line) + 1), FrontOf(kept), LineOf(line[1]))
  ELSE RangeRead(off, end, end, kept, 0)

RangeOf(off, end, part, lines) ==
  IF end >= req.seen \/ lines = <<>> THEN RangeRead(off, end, end, lines, 0)
  ELSE Trimmed(off, end, part, FrontOf(lines))

ReadFrom(off, max) ==
  LET raw == SubSeq(text, off + 1, Smaller(off + max, Len(text)))
  IN  RangeOf(off, off + Len(raw), TextAfter(off, raw), SplitLines(TextAfter(off, raw)))

ReadRange(start, max) == ReadFrom(Smaller(NotBelow(start), req.seen), max)

-----------------------------------------------------------------------------
(* Gzip files: offsets are line numbers, counted from 0 *)

AllLines == SplitLines(text)
SolidAt == SolidIn(AllLines)
LinesAt(S) == Picked(AllLines, S)

\* The bytes of these lines, each with its newline.
SizeOf(S) ==
  LET all == AllLines
  IN  Cardinality({p \in S \X (0..(3 * Len(text))) : p[2] <= Bytes(all[p[1]])})
LeastOf(S) == CHOOSE i \in S : \A j \in S : i <= j

\* Faulty: line numbers are counted from 1.
LastLinesFromOne(fits) ==
  [from |-> IF fits = {} THEN 0 ELSE LeastOf(fits), lines |-> LinesAt(fits)]

LastLines(fits) ==
  [from |-> IF fits = {} THEN 0 ELSE LeastOf(fits) - 1, lines |-> LinesAt(fits)]

\* The last lines that fit.
GzipTail(max) ==
  LastLines({i \in SolidAt : SizeOf({j \in SolidAt : j >= i}) <= max})

\* Faulty: the next page starts after the line that did not fit.
FirstLinesSkip(start, fits, rest) ==
  [from |-> start, lines |-> LinesAt(fits), more |-> rest # {},
   to |-> IF rest = {} THEN start + Cardinality(fits) ELSE LeastOf(rest)]

FirstLines(start, fits, rest) ==
  [from |-> start, lines |-> LinesAt(fits), more |-> rest # {},
   to |-> IF rest = {} THEN start + Cardinality(fits) ELSE LeastOf(rest) - 1]

\* The first lines that fit, one at least.
Fitting(after, max) ==
  {i \in after : LET upTo == {j \in after : j <= i}
                 IN  /\ Cardinality(upTo) <= PageLines
                     /\ Cardinality(upTo) = 1 \/ SizeOf(upTo) <= max}
Forward(start, max) ==
  LET after == {i \in SolidAt : i > start}
  IN  FirstLines(start, Fitting(after, max), after \ Fitting(after, max))

-----------------------------------------------------------------------------
(* A tail with a time window *)

Dated(l) == LineOf(l[1]) \notin Undated
WindowIn(lines, since) ==
  {i \in SolidIn(lines) : ~Dated(lines[i]) \/ LineOf(lines[i][1]) >= since}
InWindow(lines, since) == Picked(lines, WindowIn(lines, since))
Times(lines) == {LineOf(l[1]) : l \in {lines[i] : i \in {j \in DOMAIN lines :
                                          ~Blank(lines[j]) /\ Dated(lines[j])}}}

\* The oldest dated line that was read is in the window, or none is dated.
NoneBefore(lines, since) == \A t \in Times(lines) : t >= since

WindowCap == PageBytes * 4
FirstRead == Smaller(FirstChunk, WindowCap)

TailOf(max) == IF kind = "gzip" THEN GzipTail(max) ELSE ReadTail(max)

Windowed == req.dir = "tail" /\ req.since > 0 /\ ~req.fell /\ kind # "journal"

\* What read_tail_since has read: of an empty file, nothing.
WindowRead ==
  IF kind = "plain" /\ req.seen = 0 THEN [from |-> 0, lines |-> <<>>] ELSE TailOf(req.width)
WindowShown == InWindow(WindowRead.lines, req.since)

\* It reads more while the oldest line is too old.
TooShort ==
  /\ Windowed /\ ~NoneBefore(WindowRead.lines, req.since)
  /\ WindowRead.from > 0 /\ req.width < WindowCap

\* With nothing in the window, _tail_with_window_fallback reads the plain tail.
WindowEmpty == Windowed /\ ~TooShort /\ WindowShown = <<>> /\ req.size > 0

TailRead ==
  IF Windowed THEN [from |-> WindowRead.from, lines |-> WindowShown] ELSE TailOf(req.width)

-----------------------------------------------------------------------------
(* read_file_page *)

PageOf(r, to, older, newer) ==
  [NoPage EXCEPT !.from = r.from, !.to = to, !.lines = Solid(r.lines),
                 !.older = older, !.newer = newer, !.dir = req.dir, !.since = req.since,
                 !.at = Len(text), !.end = Len(text), !.seen = req.seen]

TailPage(r, to) == [PageOf(r, to, r.from > 0, FALSE) EXCEPT !.fellBack = req.fell]
InsidePage(r, newer) == PageOf(r, r.to, r.from > 0, newer)

PlainInside(r) ==
  [InsidePage(r, r.to < req.size) EXCEPT !.end = r.end, !.back = r.back]
PlainPage ==
  CASE req.dir = "tail" -> TailPage(TailRead, req.size)
    [] req.dir = "older" ->
         LET start == Minus(view.from, PageBytes)
         IN  PlainInside(ReadRange(start, view.from - start))
    [] req.dir = "newer" -> PlainInside(ReadRange(view.to, PageBytes))

GzipTailPage(r) == TailPage(r, r.from + Len(r.lines))
GzipInside(r) == InsidePage(r, r.more \/ (req.dir = "older" /\ view.from < r.to))
GzipPage ==
  CASE req.dir = "tail" -> GzipTailPage(TailRead)
    [] req.dir = "older" -> GzipInside(Forward(Minus(Minus(view.from, 1), BackLines), PageBytes))
    [] req.dir = "newer" -> GzipInside(Forward(view.to, PageBytes))

\* journalctl -n: the last lines, whatever the direction; it applies the window.
LastPage(in) ==
  PageOf([from |-> 0, lines |-> SubSeq(in, Minus(Len(in), PageLines) + 1, Len(in))], 0, TRUE, FALSE)
JournalIn(lines) ==
  {i \in SolidIn(lines) : req.dir = "older" \/ LineOf(lines[i][1]) >= req.since}
JournalPage == LastPage(Picked(Whole(text), JournalIn(Whole(text))))

ReadPage ==
  CASE kind = "plain" -> PlainPage
    [] kind = "gzip" -> GzipPage
    [] kind = "journal" -> JournalPage

-----------------------------------------------------------------------------
(* The session *)

\* The program that logs; a gzip file does not change any more.
Log ==
  /\ Len(text) < MaxText
  /\ kind = "gzip" => asked = 0
  /\ LET line == Cardinality(Newlines(text)) + 1
     IN  \E piece \in {2 * line - 1, 2 * line} : text' = Append(text, piece)
  /\ UNCHANGED <<kind, req, view, prev, asked>>

\* api_file_page: the tail, or an older or newer page when the browser's buttons
\* are enabled; only a tail has a time window.
AskPage(dir, since) ==
  /\ req = Idle /\ asked < MaxPages
  /\ CASE dir = "tail" -> view = NoPage
       [] dir = "older" -> since = 0 /\ view.older
       [] dir = "newer" -> since = 0 /\ view.newer
  /\ req' = [Idle EXCEPT !.dir = dir, !.since = since, !.size = Len(text),
                         !.looked = kind # "plain",
                         !.width = IF since > 0 THEN FirstRead ELSE PageBytes]
  /\ asked' = asked + 1
  /\ UNCHANGED <<kind, text, view, prev>>

\* The function that reads a plain file takes its size for itself.
TakeSize ==
  /\ req # Idle /\ ~req.looked
  /\ req' = [req EXCEPT !.looked = TRUE, !.seen = Len(text)]
  /\ UNCHANGED <<kind, text, view, prev, asked>>

\* read_tail_since goes back by another chunk, _read_gzip_tail_since twice as far.
Widen ==
  /\ req.looked /\ TooShort
  /\ req' = [req EXCEPT !.width = IF kind = "gzip" THEN Smaller(2 * req.width, WindowCap)
                                 ELSE req.width + FirstRead]
  /\ UNCHANGED <<kind, text, view, prev, asked>>

\* read_tail looks for itself once more.
FallBack ==
  /\ req.looked /\ WindowEmpty
  /\ req' = [req EXCEPT !.fell = TRUE, !.looked = kind # "plain", !.seen = 0, !.width = PageBytes]
  /\ UNCHANGED <<kind, text, view, prev, asked>>

Serve ==
  /\ req.looked /\ ~TooShort /\ ~WindowEmpty
  /\ view' = ReadPage /\ prev' = view
  /\ req' = Idle
  /\ UNCHANGED <<kind, text, asked>>

PagesInit ==
  /\ kind \in {"plain", "gzip", "journal"}
  /\ text = <<>> /\ req = Idle /\ view = NoPage /\ prev = NoPage /\ asked = 0

PagesNext ==
  \/ Log \/ TakeSize \/ Widen \/ FallBack \/ Serve
  \/ \E dir \in {"tail", "older", "newer"}, since \in Sinces : AskPage(dir, since)

PagesSpec == PagesInit /\ [][PagesNext]_pagesVars
-----------------------------------------------------------------------------
\* The text of line n up to a place, and when page p was read.
LineTo(n, at) == Picked(text, {k \in 1..at : LineOf(text[k]) = n})
LineThen(n, p) == LineTo(n, p.at)
Number(p, i) == LineOf(p.lines[i][1])
Shown(p) == {Number(p, i) : i \in DOMAIN p.lines}
Written(p) == {n \in 1..p.at : LineThen(n, p) # <<>> /\ ~Blank(LineThen(n, p))}

\* What was read for the page lies in one line: no end of one was read.
Unbroken(p) == kind = "plain" /\ \A k \in (p.from + 1)..p.end : ~EndsLine(text[k])

\* The file grew after the reader had seen its size, and the read went beyond that.
ReadPast(p) == p.seen <= p.end /\ p.end < p.at

\* The reader stepped back over a line whose bytes it counted threefold.
Overstepped(p) == p.back \in Garbled

\* A window leaves out only lines that carry an older time.
LeftOut(n, p) == p.since > n /\ ~p.fellBack /\ n \notin Undated

PagesTypeOK ==
  /\ kind \in {"plain", "gzip", "journal"}
  /\ text \in Seq(1..(2 * MaxText))
  /\ req.dir \in {"none", "tail", "older", "newer"}
  /\ req.size \in 0..Len(text) /\ req.seen \in 0..Len(text)
  /\ \A p \in {view, prev} :
        /\ p.from \in 0..Len(text) /\ p.at \in 0..Len(text) /\ p.end \in 0..p.at
        /\ p.to \in Int /\ p.to <= p.end
        /\ p.lines \in Seq(Seq(1..(2 * MaxText)))

\* A page shows whole lines in the order of the source, each as it stood when it
\* was read, wherever the byte range cut the text, and none is left out in between
\* but by the window.  Part of a line is shown in two cases only: by a page of
\* which the whole read lay inside one line, and as the last line of a page that
\* was read past the end of the file as the reader had seen it.
PageWhole ==
  \A i, j \in DOMAIN view.lines :
    /\ \/ view.lines[i] = LineThen(Number(view, i), view)
       \/ Unbroken(view)
       \/ /\ ReadPast(view) /\ i = Len(view.lines)
          /\ view.lines[i] = LineTo(Number(view, i), view.end)
    /\ i < j => Number(view, i) < Number(view, j)
    /\ \A n \in Written(view) \ Shown(view) :
          Number(view, i) < n /\ n < Number(view, j) => LeftOut(n, view)

\* The lines between two pages of one session that neither of them shows, and
\* that the window of the second one did not leave out of what it had read.
Between(lo, hi) ==
  {n \in Written(view) \ (Shown(lo) \cup Shown(hi)) :
     /\ (\E m \in Shown(lo) : m < n) /\ (\E m \in Shown(hi) : n < m)
     /\ ~(LeftOut(n, hi) /\ n > LineOf(text[hi.from + 1]))}

\* read_forward_lines reached the end of the file: it says that the page ends as
\* many lines after its start as it shows, although it passed over blank lines.
EndsEarly(p) == \E n \in Shown(p) : n > p.to

\* "Returns (line_start, line_end_exclusive, lines, has_more, error)"
\* (file_reader.py:260): the page that read_forward_lines returns ends after the
\* last line it shows.
EndExclusive ==
  kind = "gzip" /\ view.dir \in {"older", "newer"} => ~EndsEarly(view)

SeamCloses(lo, hi) ==
  /\ kind = "plain" =>
       /\ Cardinality(Between(lo, hi)) <= 2
       /\ Shown(lo) \cap Shown(hi) = {} \/ (view.dir = "newer" /\ Overstepped(lo))
  /\ kind = "gzip" /\ view.dir = "newer" =>
       /\ Between(lo, hi) = {}
       /\ Shown(lo) \cap Shown(hi) = {} \/ EndsEarly(lo)

\* Going back and forth by pages: in a plain file, whose pages are cut at bytes,
\* at most two lines are lost at each seam and none comes twice, though the file
\* grows between any two steps of a request, unless the end of the first page was
\* found by stepping back over a line that is not UTF-8; in a gzip file the next
\* page takes up where the last one ended, and only a page that ends early lets
\* lines come twice.
SeamsClose ==
  CASE view.dir = "older" -> SeamCloses(view, prev)
    [] view.dir = "newer" -> SeamCloses(prev, view)
    [] OTHER -> TRUE

\* A reader that keeps asking for older or for newer pages gets on: each page
\* starts before, or ends after, the one it was asked from, or is the last.  Not
\* so in the journal, where an older page is the last lines once more, and after
\* stepping back over a line that is not UTF-8.
PagingMoves ==
  /\ view.dir = "older" /\ kind # "journal" => view.from < prev.from
  /\ view.dir = "newer" => view.to > prev.to \/ ~view.newer \/ Overstepped(view)

\* What a reader may rely on when paging: whole pages, closed seams, progress.
PagesSound == PageWhole /\ SeamsClose /\ PagingMoves
=============================================================================
