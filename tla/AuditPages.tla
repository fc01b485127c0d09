----------------------------- MODULE AuditPages -----------------------------
(***************************************************************************)
(* audit_read_file: a file is read in pages while it is written to.  The   *)
(* reader goes on one line after the end_line it was told; a log grows in  *)
(* between, and now and then a file is written anew.  A file is the number *)
(* of its lines: what matters is which of them a page holds.               *)
(***************************************************************************)
EXTENDS Integers, FiniteSetsExt

CONSTANTS None,          \* an argument left out
          DefaultLines,  \* 500
          MostLines,     \* 2000
          SmallLines,    \* lines of a file of MAX_FILE_BYTES
          MaxLength      \* bound: lines of the file

ASSUME NoneAssumption == None \notin Int
ASSUME MaxLengthAssumption == MaxLength \in Nat
ASSUME LinesAssumption == DefaultLines \in Nat \ {0} /\ MostLines \in Nat \ {0}

VARIABLES length,    \* lines of the file now
          page,      \* the last answer
          from,      \* where the reader began
          next,      \* where it goes on
          covered,   \* history: the lines it has been given since it began
          fromEnd,   \* history: it began with an end_line counted from the end
          rewritten  \* history: the file was written anew since then

auditVars == <<length, page, from, next, covered, fromEnd, rewritten>>

NoPage == [start |-> 1, end |-> 0, total |-> 0, lines |-> {}, error |-> FALSE]

AuditTypeOK ==
    /\ length \in 0 .. MaxLength
    /\ from \in -1 .. MaxLength + 1 /\ next \in -1 .. MaxLength + 1
    /\ covered \subseteq 1 .. MaxLength
    /\ page.start \in 1 .. MaxLength + 1 /\ page.end \in -2 .. page.total
    /\ page.lines \subseteq 1 .. page.total /\ page.total \in 0 .. MaxLength
    /\ page.error \in BOOLEAN /\ fromEnd \in BOOLEAN /\ rewritten \in BOOLEAN

AuditInit ==
    /\ length = 0 /\ page = NoPage
    /\ from = 1 /\ next = 1 /\ covered = {}
    /\ fromEnd = FALSE /\ rewritten = FALSE

FileGrows ==
    /\ length < MaxLength
    /\ length' = length + 1
    /\ UNCHANGED <<page, from, next, covered, fromEnd, rewritten>>

FileIsRewritten ==
    /\ length' \in 0 .. MaxLength
    /\ rewritten' = TRUE
    /\ UNCHANGED <<page, from, next, covered, fromEnd>>

-----------------------------------------------------------------------------
(* audit_read_file. *)

\* max_lines, 0 standing for the default.
Lines(max) == Min({Max({IF max = 0 THEN DefaultLines ELSE max, 1}), MostLines})

\* `start_line or 1`, `if end_line`: 0 is as good as nothing.
Given(line) == line # None /\ line # 0

\* Tells the end that was looked for, not the end that was found.
LastIndexUncut(start, end_line, max) ==
    IF Given(end_line) THEN end_line ELSE start + Lines(max)

\* `end`: an end_line takes the place of max_lines, whatever it is.
LastIndex(start, end_line, max) ==
    IF Given(end_line) THEN Min({end_line, length}) ELSE Min({start + Lines(max), length})

\* Tells the number of its lines for the number of its last line.
PageCounted(start_line, end_line, max) ==
    LET start == IF Given(start_line) THEN Max({start_line - 1, 0}) ELSE 0
        end == LastIndex(start, end_line, max) IN
    [start |-> start + 1, end |-> Max({end - start, 0}), total |-> length,
     lines |-> start + 1 .. end, error |-> FALSE]

\* A negative end is told as it is, and cuts that many lines off the end of the file.
LinesTo(start, end) ==
    start + 1 .. IF end < 0 THEN length + end ELSE Min({end, length})

\* The answer.  The size cap is for a read without any line number.
Page(start_line, end_line, max) ==
    IF length > SmallLines /\ start_line = None /\ end_line = None
    THEN [NoPage EXCEPT !.error = TRUE]
    ELSE LET start == IF Given(start_line) THEN Max({start_line - 1, 0}) ELSE 0
             end == LastIndex(start, end_line, max) IN
         [start |-> start + 1, end |-> end, total |-> length,
          lines |-> LinesTo(start, end), error |-> FALSE]

\* The reader begins somewhere, perhaps past the end, and names an end, perhaps by
\* counting from it.
ReadFrom ==
    /\ \E start_line \in {None} \union (-1 .. MaxLength + 1),
          end_line \in {None} \union (-2 .. MaxLength + 1), max \in {-1, 0, MostLines + 1} :
         /\ page' = Page(start_line, end_line, max)
         /\ fromEnd' = (Given(end_line) /\ end_line < 0)
    /\ from' = Min({page'.start, page'.end + 1})
    /\ next' = page'.end + 1
    /\ covered' = page'.lines /\ rewritten' = FALSE
    /\ UNCHANGED length

\* And goes on after the line it was told to be the last.
ReadOn ==
    /\ \E max \in {0, 1} : page' = Page(next, None, max)
    /\ next' = page'.end + 1
    /\ covered' = covered \union page'.lines
    /\ UNCHANGED <<length, from, fromEnd, rewritten>>

AuditNext == FileGrows \/ FileIsRewritten \/ ReadFrom \/ ReadOn

AuditSpec == AuditInit /\ [][AuditNext]_auditVars

-----------------------------------------------------------------------------
(* Properties. *)

\* A reader that goes on where it was told has every line from its first to there and
\* none beyond, whatever start_line, max_lines and non-negative end_line it asked for and
\* however the file grew between its pages.  (After a negative end_line it is told that
\* number for the last line it has, and going on from there it begins again.)
PagesCover == ~rewritten /\ ~fromEnd => covered = from .. next - 1

\* Going on in a growing file, but for that, it is given no line a second time.
NoLineTwice ==
    [][ReadOn /\ ~rewritten /\ ~fromEnd => page'.lines \intersect covered = {}]_auditVars

=============================================================================
