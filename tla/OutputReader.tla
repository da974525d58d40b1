---------------------------- MODULE OutputReader ----------------------------
(***************************************************************************)
(* Reading a captured output in pieces (capture.go:389-580,                *)
(* caller.go:315-383): an agent follows next_offset or next_start_line     *)
(* from answer to answer until one says eof, and may choose other limits   *)
(* for every request.                                                      *)
(*                                                                         *)
(* A line is its length and whether it matches the pattern; lines and      *)
(* characters are counted from zero, as the cursors are.  The loop of      *)
(* searchCapturedOutput takes one step per line.  A request holds on to    *)
(* the capture that Get found; the capture may be gone by the next one.    *)
(***************************************************************************)
EXTENDS Integers, Sequences, SequencesExt, FiniteSetsExt

CONSTANTS
    MaxLines,  \* bound on the lines of an output
    Lengths,   \* lengths of a line
    Prefix,    \* what "%d:%s\n" adds to a line: 3 for the first nine
    Limits,    \* limits a request may name: up to 64000 in the code
    Contexts,  \* lines of context it may ask for: up to 10
    MatchCaps  \* values of max_matches: up to 100

ASSUME SizesAssumption ==
    /\ MaxLines \in Nat /\ Prefix \in Nat \ {0}
    /\ Lengths \subseteq Nat /\ Contexts \subseteq Nat
    /\ Limits \subseteq Nat \ {0} /\ MatchCaps \subseteq Nat \ {0}

VARIABLES
    lines,    \* the captured stream, line by line
    chars,    \* its characters, when it is read in pages
    mode,     \* how this agent reads it
    held,     \* the capture is still in the store, and readable by the agent
    pc,       \* between requests, in the search loop, or over
    cursor,   \* next_offset or next_start_line of the last answer
    got,      \* characters, or lines reported as matches, so far, in order
    shown,    \* the reported ones that are in a content, at least in part
    res       \* the request being served, or the last one, and its answer

vars == <<lines, chars, mode, held, pc, cursor, got, shown, res>>

Total == Len(lines)
Line(k) == lines[k + 1]

\* The characters of lines a, ..., b - 1, with their numbers.
WidthOf(ls, a, b) ==
    MapThenSumSet(LAMBDA k : ls[k + 1].size + Prefix, a .. b - 1)

Nothing == [limit |-> 1, context |-> 0, cap |-> 1, at |-> 0, written |-> 0,
            last |-> -1, found |-> <<>>, content |-> <<>>, truncated |-> FALSE]

Least(a, b) == IF a < b THEN a ELSE b
Most(a, b) == IF a > b THEN a ELSE b

\* a, a + 1, ..., b - 1
From(a, b) == [k \in 1 .. Most(b - a, 0) |-> a + k - 1]

TypeOK ==
    /\ lines \in Seq([size : Lengths, hit : BOOLEAN]) /\ Total <= MaxLines
    /\ chars \in 0 .. MaxLines
    /\ mode \in {"page", "tail", "search"}
    /\ held \in BOOLEAN
    /\ pc \in {"ready", "loop", "done", "refused"}
    /\ cursor \in 0 .. MaxLines
    /\ got \in Seq(0 .. MaxLines) /\ shown \subseteq 0 .. MaxLines
    /\ res \in [limit : Limits \cup {1}, context : Contexts \cup {0},
                cap : MatchCaps \cup {1}, at : 0 .. MaxLines, written : Nat,
                last : Int, found : Seq(0 .. MaxLines),
                content : Seq(0 .. MaxLines), truncated : BOOLEAN]

\* An output is read as characters or as lines; the other is left empty.
Init ==
    /\ mode \in {"page", "tail", "search"}
    /\ lines \in IF mode = "search"
                 THEN BoundedSeq([size : Lengths, hit : BOOLEAN], MaxLines)
                 ELSE {<<>>}
    /\ chars \in IF mode = "search" THEN {0} ELSE 0 .. MaxLines
    /\ held = TRUE
    /\ pc = "ready"
    /\ cursor = 0
    /\ got = <<>> /\ shown = {}
    /\ res = Nothing

-----------------------------------------------------------------------------
\* The capture expires or is evicted, or the tower withdraws the verb.
Withdraw ==
    /\ held
    /\ held' = FALSE
    /\ UNCHANGED <<lines, chars, mode, pc, cursor, got, shown, res>>

\* Not found, or not authorized: the agent gives up.
Refused ==
    /\ pc = "ready" /\ ~held
    /\ pc' = "refused"
    /\ UNCHANGED <<lines, chars, mode, held, cursor, got, shown, res>>

\* An offset beyond the end is moved to it; following next_offset never is.
PageRead(l) ==
    LET start == Least(cursor, chars)
        end == Least(start + l, chars)
    IN  /\ pc = "ready" /\ held /\ mode = "page"
        /\ got' = got \o From(start, end)
        /\ cursor' = end
        /\ pc' = IF end = chars THEN "done" ELSE "ready"
        /\ UNCHANGED <<lines, chars, mode, held, shown, res>>

TailRead(l) ==
    LET start == Most(chars - l, 0) IN
    /\ pc = "ready" /\ held /\ mode = "tail"
    /\ got' = From(start, Least(start + l, chars))
    /\ cursor' = chars
    /\ pc' = "done"
    /\ UNCHANGED <<lines, chars, mode, held, shown, res>>

-----------------------------------------------------------------------------
(* searchCapturedOutput.                                                   *)

Search(l, x, m) ==
    /\ pc = "ready" /\ held /\ mode = "search"
    /\ pc' = "loop"
    /\ res' = [Nothing EXCEPT !.limit = l, !.context = x, !.cap = m,
                              !.at = Least(cursor, Total)]
    /\ UNCHANGED <<lines, chars, mode, held, cursor, got, shown>>

InLoop == pc = "loop" /\ res.at < Total

\* Faulty: lines already written for an earlier match are written again.
BlockStartAgain == Most(res.at - res.context, 0)

\* The block of the match at res.at is From(BlockStart, BlockEnd).
BlockStart == Most(Most(res.at - res.context, 0), res.last + 1)
BlockEnd == Least(res.at + res.context + 1, Total)
Width(a, b) == WidthOf(lines, a, b)

Remaining == res.limit - res.written
Fits == Width(BlockStart, BlockEnd) <= Remaining

\* The lines of a block that are written, at least in part, before the limit.
Reached == {k \in BlockStart .. BlockEnd - 1 : Width(BlockStart, k) < Remaining}

NoMatch ==
    /\ InLoop /\ ~Line(res.at).hit
    /\ res' = [res EXCEPT !.at = @ + 1]
    /\ UNCHANGED <<lines, chars, mode, held, pc, cursor, got, shown>>

\* The answer is complete: the agent goes on at line next unless that is eof.
Answer(next) ==
    /\ cursor' = next
    /\ pc' = IF next >= Total THEN "done" ELSE "ready"

\* The block fits; the last match asked for ends the search.  (The line of the
\* match is in this block or, as context, in an earlier one.)
Match ==
    /\ InLoop /\ Line(res.at).hit
    /\ Fits
    /\ got' = Append(got, res.at)
    /\ shown' = shown \cup {res.at}
    /\ LET full == Len(res.found) + 1 >= res.cap
       IN  /\ res' = [res EXCEPT
                 !.content = @ \o From(BlockStart, BlockEnd),
                 !.written = @ + Width(BlockStart, BlockEnd),
                 !.found = Append(@, res.at),
                 !.last = BlockEnd - 1,
                 !.truncated = full /\ res.at + 1 < Total,
                 !.at = @ + 1]
           /\ IF full /\ res.at + 1 < Total THEN Answer(res.at + 1)
              ELSE IF full THEN Answer(Total)
              ELSE UNCHANGED <<pc, cursor>>
    /\ UNCHANGED <<lines, chars, mode, held>>

\* Faulty: the search resumes at the line that did not fit.
CutStays ==
    /\ InLoop /\ Line(res.at).hit
    /\ ~Fits /\ res.found = <<>>
    /\ res' = [res EXCEPT !.found = <<res.at>>, !.written = res.limit,
                          !.truncated = TRUE]
    /\ Answer(res.at)
    /\ UNCHANGED <<lines, chars, mode, held, got, shown>>

\* Not even the first block fits: as much of it as the limit allows, which may
\* end before the match itself, and the search resumes behind it.  (content
\* lists a line if any of its characters are there.)
Cut ==
    /\ InLoop /\ Line(res.at).hit
    /\ ~Fits /\ res.found = <<>>
    /\ got' = Append(got, res.at)
    /\ shown' = IF res.at \in Reached THEN shown \cup {res.at} ELSE shown
    /\ res' = [res EXCEPT
          !.content = From(BlockStart, BlockStart + Cardinality(Reached)),
          !.written = res.limit,
          !.found = <<res.at>>,
          !.truncated = TRUE]
    /\ Answer(res.at + 1)
    /\ UNCHANGED <<lines, chars, mode, held>>

\* Faulty: a block that does not fit is skipped.
FullSkips ==
    /\ InLoop /\ Line(res.at).hit
    /\ ~Fits /\ res.found # <<>>
    /\ res' = [res EXCEPT !.truncated = TRUE]
    /\ Answer(res.at + 1)
    /\ UNCHANGED <<lines, chars, mode, held, got, shown>>

\* A later block does not fit: the next request starts with its match.
Full ==
    /\ InLoop /\ Line(res.at).hit
    /\ ~Fits /\ res.found # <<>>
    /\ res' = [res EXCEPT !.truncated = TRUE]
    /\ Answer(res.at)
    /\ UNCHANGED <<lines, chars, mode, held, got, shown>>

EndOfLines ==
    /\ pc = "loop" /\ res.at = Total
    /\ Answer(Total)
    /\ UNCHANGED <<lines, chars, mode, held, got, shown, res>>

-----------------------------------------------------------------------------
SearchLoop == NoMatch \/ Match \/ Cut \/ Full \/ EndOfLines

Read ==
    \/ Refused
    \/ \E l \in Limits : PageRead(l) \/ TailRead(l)
    \/ \E l \in Limits, x \in Contexts, m \in MatchCaps : Search(l, x, m)
    \/ SearchLoop

Next == Read \/ Withdraw

Spec == Init /\ [][Next]_vars

\* The agent keeps asking and the handler runs.
FairSpec == Spec /\ WF_vars(Read)

-----------------------------------------------------------------------------
(* Properties.                                                             *)

Increasing(s) == \A i, j \in DOMAIN s : i < j => s[i] < s[j]

\* The lines that the searches have been over.
Searched == IF pc = "loop" THEN res.at ELSE cursor

\* The first block of an answer shows its match at k, with limit l and x lines
\* of context: what leads up to it leaves room.
Shows(k, l, x) == Width(Most(k - x, 0), k) < l

\* Following the cursor skips nothing and repeats nothing, whatever the limits
\* of the single requests: what an agent has is what lies before its cursor,
\* every character or, reported as a match, every matching line, in order
\* (capture.go:460-479, 519-562).  A reported line is missing from the content
\* only where some request leaves no room for it.  A tail is the end of the
\* output.
CursorIsExact ==
    /\ mode = "page" => got = From(0, cursor)
    /\ mode = "tail" /\ pc = "done" => got = From(chars - Len(got), chars)
    /\ mode = "search" =>
          /\ Increasing(got)
          /\ ToSet(got) = {k \in 0 .. Searched - 1 : Line(k).hit}
          /\ \A k \in ToSet(got) \ shown :
                \E l \in Limits, x \in Contexts : ~Shows(k, l, x)

Around(f) == UNION {(k - res.context) .. (k + res.context) : k \in ToSet(f)}

\* The lines around the matches of the answer.
Wanted == Around(res.found) \cap (0 .. Total - 1)

\* lastEmitted is still -1: the first block was cut.
IsCut == res.found # <<>> /\ res.last = -1

\* An answer holds each line once and in order, and exactly the lines around
\* its matches, however their contexts overlap; if its first block was cut, it
\* holds the beginning of them (capture.go:523-559).
ContentIsContext ==
    /\ Increasing(res.content)
    /\ IsCut => \E b \in 0 .. Total :
                    ToSet(res.content) = {k \in Wanted : k < b}
    /\ ~IsCut => ToSet(res.content) = Wanted

\* Every reading ends: each answer moves the cursor, a line longer than the
\* limit included, so the agent reaches eof unless it is refused.
ReadingEnds == <>(pc \in {"done", "refused"})
=============================================================================
