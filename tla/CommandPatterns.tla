--------------------------- MODULE CommandPatterns ---------------------------
(***************************************************************************)
(* The command patterns of scpi_handler_pattern.c: [text] is optional,     *)
(* (A|B) is a choice.  A pattern is checked when it is registered and then *)
(* matched against every command received, by an automaton over the        *)
(* positions of the pattern that is closed in one forward pass.            *)
(*                                                                         *)
(* The pattern is written symbol by symbol, so that every string up to a   *)
(* length is reached; the code is compared with a grammar of its own.      *)
(***************************************************************************)
EXTENDS Integers, Sequences, SequencesExt

CONSTANTS
    Letters,         \* the literals used; "?" is one more
    MaxDepth,        \* MAX_DEPTH
    MaxExpansions,   \* MAX_EXPANSIONS
    Beginnings,      \* what a pattern begins with
    MaxWritten       \* bound on the symbols written after that

VARIABLES
    pattern,
    written          \* symbols written since the beginning

Literals == Letters \cup {"?"}
Opening == {"(", "["}
Closing == {")", "]"}
Symbols == Literals \cup Opening \cup Closing \cup {"|"}

PatternInit == pattern \in Beginnings /\ written = 0

\* Symbols of S in positions i to k.
CountIn(S, i, k) == Cardinality({j \in i..k : pattern[j] \in S})

OpenGroups == CountIn(Opening, 1, Len(pattern)) - CountIn(Closing, 1, Len(pattern))

\* A string that closes a group it has not opened, or opens more than it can still close,
\* is looked at and not extended.
Write ==
    /\ written < MaxWritten /\ written' = written + 1
    /\ OpenGroups \in 0..(MaxWritten - written)
    /\ \E ch \in Symbols : pattern' = Append(pattern, ch)
-----------------------------------------------------------------------------
(* The code *)

\* The first position after start where more groups have closed than opened.
FirstClosing(start) ==
    CHOOSE k \in (start + 1)..Len(pattern) :
        /\ CountIn(Closing, start + 1, k) > CountIn(Opening, start + 1, k)
        /\ \A j \in (start + 1)..(k - 1) :
               CountIn(Closing, start + 1, j) <= CountIn(Opening, start + 1, j)

group_end(start) == FirstClosing(start)
alternative_end(start) == FirstClosing(start)

\* Where the branches of the choice that opens at start begin.
BranchStarts(start) ==
    {start + 1} \cup
        {i + 1 : i \in {k \in start..group_end(start) :
            /\ pattern[k] = "|"
            /\ CountIn(Opening, start + 1, k) = CountIn(Closing, start + 1, k)}}

\* A count of 0 rejects the pattern.  A result is a count and the position reached.
Rejected == <<0, 0>>
EndsSequence(i) == i > Len(pattern) \/ pattern[i] \in Closing \cup {"|"}
Is(i, ch) == i <= Len(pattern) /\ pattern[i] = ch

RECURSIVE parse_sequence(_, _, _), ParseBranches(_, _, _)

ParseGroup(i, depth) ==
    LET first == parse_sequence(i + 1, depth + 1, 0)
        choices ==
            IF pattern[i] = "[" THEN <<first[1] + 1, first[2]>>
            ELSE IF Is(first[2], "|") THEN ParseBranches(first[1], first[2], depth)
            ELSE Rejected
    IN  IF depth = MaxDepth \/ first[1] = 0 \/ choices[1] = 0 THEN Rejected
        ELSE IF ~Is(choices[2], IF pattern[i] = "[" THEN "]" ELSE ")") THEN Rejected
        ELSE <<choices[1], choices[2] + 1>>

ParseBranches(choices, i, depth) ==
    IF ~Is(i, "|") THEN <<choices, i>>
    ELSE LET next == parse_sequence(i + 1, depth + 1, 0) IN
         IF next[1] = 0 \/ choices + next[1] > MaxExpansions THEN Rejected
         ELSE ParseBranches(choices + next[1], next[2], depth)

\* From position i on, count expansions of the sequence so far, 0 before its first item.
parse_sequence(i, depth, count) ==
    IF EndsSequence(i) THEN <<count, i>>
    ELSE LET item == IF pattern[i] \in Opening THEN ParseGroup(i, depth) ELSE <<1, i + 1>>
             before == IF count = 0 THEN 1 ELSE count
         IN  IF item[1] = 0 \/ before * item[1] > MaxExpansions THEN Rejected
             ELSE parse_sequence(item[2], depth, before * item[1])

\* The keywords given to the visitor, in its order, from position pos on.
RECURSIVE visit_sequence(_, _)
visit_sequence(pos, keyword) ==
    IF pos > Len(pattern) THEN <<keyword>>
    ELSE CASE pattern[pos] = "[" -> visit_sequence(group_end(pos) + 1, keyword)
                                        \o visit_sequence(pos + 1, keyword)
           [] pattern[pos] = "(" ->
                  FlattenSeq([b \in 1..Cardinality(BranchStarts(pos)) |->
                      visit_sequence(SetToSortSeq(BranchStarts(pos), <)[b], keyword)])
           [] pattern[pos] = "|" -> visit_sequence(alternative_end(pos) + 1, keyword)
           [] pattern[pos] \in Closing -> visit_sequence(pos + 1, keyword)
           [] OTHER -> visit_sequence(pos + 1, Append(keyword, pattern[pos]))

Visited == visit_sequence(1, <<>>)

valid_expansion(keyword) ==
    keyword # <<>> /\ \A i \in 1..(Len(keyword) - 1) : keyword[i] # "?"

Parsed == parse_sequence(1, 0, 0)

IsValid ==
    /\ Parsed[1] # 0 /\ Parsed[2] = Len(pattern) + 1
    /\ \A i \in DOMAIN Visited : valid_expansion(Visited[i])

\* Mutant: the end of a branch goes on in the next one.
EnteredNextBranch(pos) ==
    CASE pattern[pos] = "[" -> {group_end(pos) + 1, pos + 1}
      [] pattern[pos] = "(" -> BranchStarts(pos)
      [] pattern[pos] \in Closing \cup {"|"} -> {pos + 1}
      [] OTHER -> {}

\* The positions entered without reading a symbol.
Entered(pos) ==
    CASE pattern[pos] = "[" -> {group_end(pos) + 1, pos + 1}
      [] pattern[pos] = "(" -> BranchStarts(pos)
      [] pattern[pos] = "|" -> {alternative_end(pos) + 1}
      [] pattern[pos] \in Closing -> {pos + 1}
      [] OTHER -> {}

\* One forward pass.
Closure(current) ==
    FoldLeft(LAMBDA S, pos : IF pos \in S THEN S \cup Entered(pos) ELSE S,
             current, [i \in 1..Len(pattern) |-> i])

Matches(keyword) ==
    LET reached == FoldLeft(LAMBDA S, ch : {pos + 1 : pos \in {p \in Closure(S) :
                                p <= Len(pattern) /\ pattern[p] = ch}},
                            {1}, keyword)
    IN  Len(pattern) + 1 \in Closure(reached)
-----------------------------------------------------------------------------
(* The grammar: a sequence of literals, optional sequences and choices *)

Inner(p) == SubSeq(p, 2, Len(p) - 1)
Enclosed(p, open, close) == Len(p) >= 2 /\ p[1] = open /\ p[Len(p)] = close

\* The keywords of p as a sequence, as an item of one and as the branches of a choice, when
\* groups may still nest depth deep; a string that is not of that form has none.
RECURSIVE Sequence(_, _), Item(_, _), Choice(_, _)
Item(p, depth) ==
    IF Len(p) = 1 THEN IF p[1] \in Literals THEN {p} ELSE {}
    ELSE IF depth = 0 THEN {}
    ELSE IF Enclosed(p, "[", "]") THEN
        LET words == Sequence(Inner(p), depth - 1) IN
        IF words = {} THEN {} ELSE words \cup {<<>>}
    ELSE IF Enclosed(p, "(", ")") THEN Choice(Inner(p), depth - 1)
    ELSE {}

Sequence(p, depth) ==
    Item(p, depth) \cup
        UNION {{a \o b : a \in Item(SubSeq(p, 1, k), depth),
                         b \in Sequence(SubSeq(p, k + 1, Len(p)), depth)} : k \in 1..(Len(p) - 1)}

Choice(p, depth) ==
    UNION {LET left == Sequence(SubSeq(p, 1, k - 1), depth)
               rest == SubSeq(p, k + 1, Len(p))
               right == Sequence(rest, depth) \cup Choice(rest, depth)
           IN  IF left = {} \/ right = {} THEN {} ELSE left \cup right :
           k \in {k \in 2..(Len(p) - 1) : p[k] = "|"}}

Language == IF pattern = <<>> THEN {} ELSE Sequence(pattern, MaxDepth)
-----------------------------------------------------------------------------
(* Properties *)

\* scpi_handler.h: a pattern is accepted exactly when it is of the grammar, has at most
\* MaxExpansions expansions, none of them empty, and "?" ends those it is in.
AcceptedIsWellFormed ==
    IsValid <=> /\ Language # {}
                /\ Len(Visited) <= MaxExpansions
                /\ \A word \in Language : valid_expansion(word)

\* An accepted pattern is matched by its expansions and by nothing else, however groups
\* nest, and the visitor, which finds overlaps of patterns, sees the same keywords and as
\* many as were counted.
MatchedIsExpanded ==
    IsValid =>
        /\ ToSet(Visited) = Language /\ Len(Visited) = Parsed[1]
        /\ \A keyword \in Language \cup SeqOf(Literals, 3) :
               Matches(keyword) <=> keyword \in Language
=============================================================================
