--------------------------- MODULE MarkdownFilter ---------------------------
(***************************************************************************)
(* The filter that removes from an answer the Markdown WeChat cannot show.  *)
(* It is fed a text in pieces and gives out what it can; it holds back what *)
(* may still become a marker.  One step of "pump" is one turn of its loop.  *)
(* A text is a sequence of characters, given by name: "nl" is a newline,     *)
(* "tick" a backtick, "lb" and "rb" are brackets, "lp" and "rp" parentheses.  *)
(***************************************************************************)
EXTENDS Naturals, SequencesExt

CONSTANTS Alphabets,  \* sets of characters; a text is over one of them
          MaxLength   \* bound of a text

Letters == {"a", "C"}    \* "C" stands for a CJK character

VARIABLES
    alphabet,
    text,       \* what was fed
    filter,     \* buf, fence, sol, inl with its acc, and the output
    calling     \* "none", "feed", "flush", "closed"

fvars == <<alphabet, text, filter, calling>>

FilterInit ==
    /\ alphabet \in Alphabets /\ text = <<>> /\ calling = "none"
    /\ filter = [buf |-> <<>>, fence |-> FALSE, sol |-> TRUE, inl |-> "none", acc |-> <<>>, out |-> <<>>]

Marker(inl) == CASE inl = "image"  -> <<"bang", "lb">>
                 [] inl = "bold3"  -> <<"star", "star", "star">>
                 [] inl = "ubold3" -> <<"under", "under", "under">>
                 [] inl = "italic" -> <<"star">>
                 [] inl = "uitalic" -> <<"under">>
                 [] OTHER -> <<>>

From(b, i) == SubSeq(b, i, Len(b))
Upto(b, i) == SubSeq(b, 1, i)
At(b, i) == IF i \in DOMAIN b THEN b[i] ELSE "end"
First(S) == IF S = {} THEN 0 ELSE Min(S)
Find(b, p, i) == First({k \in i .. Len(b) - Len(p) + 1 : SubSeq(b, k, k + Len(p) - 1) = p})
Fence == <<"tick", "tick", "tick">>
\* The run of c that contains position i starts and ends here.
RunStart(b, i, c) == Max({k \in 0 .. i : k = 0 \/ b[k] # c}) + 1
RunEnd(b, i, c)   == Min({k \in i .. Len(b) + 1 : At(b, k) # c}) - 1

Emit(f, i) == [f EXCEPT !.buf = From(f.buf, i + 1), !.out = @ \o Upto(f.buf, i)]
Body(f) == [f EXCEPT !.sol = FALSE]

-----------------------------------------------------------------------------
\* pumpFence: a line after the other, until one starts with three backticks.
PumpFence(f, eof) ==
    LET b == f.buf  nl == Find(b, <<"nl">>, IF f.sol /\ IsPrefix(Fence, b) THEN 4 ELSE 1)
    IN CASE f.sol /\ Len(b) < 3 /\ ~eof -> f
         [] f.sol /\ IsPrefix(Fence, b) ->
              IF nl # 0 THEN [Emit(f, nl) EXCEPT !.fence = FALSE]
              ELSE IF eof THEN [Emit(f, Len(b)) EXCEPT !.fence = FALSE] ELSE f
         [] OTHER -> IF nl # 0 THEN [Emit(f, nl) EXCEPT !.sol = TRUE] ELSE Body(Emit(f, Len(b)))

\* pumpSOL: what may only stand at the start of a line.
PumpSOL(f, eof) ==
    LET b == f.buf  c == b[1]
        nl == Find(b, <<"nl">>, 4)
        hashes == RunEnd(b, 1, "hash")
        rule == Min({k \in 1 .. Len(b) + 1 : At(b, k) \notin {c, "space"}}) - 1
        marks == Cardinality({k \in 1 .. rule : b[k] = c})
    IN CASE c = "nl" -> Emit(f, 1)
         [] c = "tick" /\ Len(b) < 3 /\ ~eof -> f
         [] c = "tick" /\ IsPrefix(Fence, b) ->
              IF nl # 0 THEN [Emit(f, nl) EXCEPT !.fence = TRUE]
              ELSE IF eof THEN Emit(f, Len(b)) ELSE f
         [] c = "hash" /\ hashes = Len(b) /\ ~eof -> f
         [] c = "hash" /\ hashes \in 5 .. 6 /\ At(b, hashes + 1) = "space" ->
              Body([f EXCEPT !.buf = From(b, hashes + 2)])
         [] c = "space" /\ RunEnd(b, 1, "space") = Len(b) /\ ~eof -> f
         [] c \in {"dash", "star", "under"} /\ rule = Len(b) /\ ~eof -> f
         [] c \in {"dash", "star", "under"} /\ (eof \/ rule < Len(b)) /\ At(b, rule + 1) \in {"end", "nl"} /\ marks >= 3 ->
              Emit(f, Min({rule + 1, Len(b)}))
         [] OTHER -> Body(f)

\* pumpBody: the text up to the next marker that opens something, or all of it
\* but the end that may become one.
Opens(b, i) ==
    LET c == b[i]  run == RunEnd(b, i, c) - i + 1
    IN CASE c = "bang" /\ At(b, i + 1) = "lb" -> "image"
         [] c \in {"star", "under"} /\ RunStart(b, i, c) = i /\ run >= 3 ->
              (IF c = "star" THEN "bold3" ELSE "ubold3")
         [] c \in {"star", "under"} /\ RunStart(b, i, c) = i /\ run = 1 /\ At(b, i + 1) \notin {"space", "nl", "end"} ->
              (IF c = "star" THEN "italic" ELSE "uitalic")
         [] OTHER -> "none"
Hold(b) == LET c == At(b, Len(b))
           IN IF c \in {"star", "under"} THEN Len(b) - Max({RunStart(b, Len(b), c), Len(b) - 1}) + 1
              ELSE IF c = "bang" THEN 1 ELSE 0
PumpBody(f, eof) ==
    LET b == f.buf
        stop == First({i \in 1 .. Len(b) : b[i] = "nl" \/ Opens(b, i) # "none"})
    IN IF stop = 0 THEN Emit(f, Len(b) - (IF eof THEN 0 ELSE Hold(b)))
       ELSE IF b[stop] = "nl" THEN [Emit(f, stop) EXCEPT !.sol = TRUE]
       ELSE LET inl == Opens(b, stop)
            IN [f EXCEPT !.out = @ \o Upto(b, stop - 1), !.inl = inl,
                         !.buf = From(b, stop + Len(Marker(inl)))]

\* pumpInline: what the marker has opened, until it is closed.  Emphasis around
\* CJK text loses its markers, an image is removed.
HasCJK(b) == \E i \in DOMAIN b : b[i] = "C"
\* Mutant: the character after the closing marker is skipped.
CloseLong(f, a, i, mark) ==
    LET content == Upto(a, i - 1)
    IN [f EXCEPT !.inl = "none", !.acc = <<>>, !.buf = From(a, i + Len(mark) + 1),
                 !.out = @ \o (IF HasCJK(content) THEN content ELSE mark \o content \o mark)]
\* The marker closes at i.
Close(f, a, i, mark) ==
    LET content == Upto(a, i - 1)
    IN [f EXCEPT !.inl = "none", !.acc = <<>>, !.buf = From(a, i + Len(mark)),
                 !.out = @ \o (IF HasCJK(content) THEN content ELSE mark \o content \o mark)]
\* The line ends before the emphasis does.
Broken(f, a, i) == [f EXCEPT !.inl = "none", !.acc = <<>>, !.buf = From(a, i + 1), !.sol = TRUE,
                             !.out = @ \o Marker(f.inl) \o Upto(a, i)]
PumpInline(f) ==
    LET a == f.acc \o f.buf  mark == Marker(f.inl)
        held == [f EXCEPT !.acc = a, !.buf = <<>>]
        end == Find(a, mark, 1)
        single == First({i \in DOMAIN a : \/ a[i] = "nl"
                                          \/ /\ a[i] = mark[1] /\ At(a, i + 1) # mark[1]
                                             /\ (i - RunStart(a, i, mark[1])) % 2 = 0})
        bracket == Find(a, <<"rb">>, 1)
        paren == Find(a, <<"rp">>, bracket + 2)
    IN CASE f.inl \in {"bold3", "ubold3"} -> IF end = 0 THEN held ELSE Close(f, a, end, mark)
         [] f.inl \in {"italic", "uitalic"} ->
              IF single = 0 THEN held
              ELSE IF a[single] = "nl" THEN Broken(f, a, single) ELSE Close(f, a, single, mark)
         [] f.inl = "image" ->
              IF bracket \in {0, Len(a)} THEN held
              ELSE IF a[bracket + 1] # "lp"
                   THEN [f EXCEPT !.inl = "none", !.acc = <<>>, !.buf = From(a, bracket + 1),
                                  !.out = @ \o mark \o Upto(a, bracket)]
              ELSE IF paren = 0 THEN held
              ELSE [f EXCEPT !.inl = "none", !.acc = <<>>, !.buf = From(a, paren + 1)]

\* One turn of the loop of pump.
Pumped(f, eof) == IF f.fence THEN PumpFence(f, eof)
                  ELSE IF f.inl # "none" THEN PumpInline(f)
                  ELSE IF f.sol THEN PumpSOL(f, eof) ELSE PumpBody(f, eof)

-----------------------------------------------------------------------------
Feed(c) ==
    /\ calling = "none" /\ Len(text) < MaxLength
    /\ text' = Append(text, c) /\ filter' = [filter EXCEPT !.buf = Append(@, c)]
    /\ calling' \in {"none", "feed"}    \* the piece goes on, or ends here
    /\ UNCHANGED alphabet

Flush == /\ calling = "none" /\ calling' = "flush" /\ UNCHANGED <<alphabet, text, filter>>

\* The loop ends when a turn changes nothing, or nothing is left; a marker that
\* was never closed is given out by flush.
Pump ==
    /\ calling \in {"feed", "flush"}
    /\ LET f == IF filter.buf = <<>> THEN filter ELSE Pumped(filter, calling = "flush")
           same == [f EXCEPT !.acc = <<>>, !.out = <<>>, !.buf = Len(@)]
                   = [filter EXCEPT !.acc = <<>>, !.out = <<>>, !.buf = Len(@)]
       IN IF filter.buf # <<>> /\ ~same
          THEN filter' = f /\ UNCHANGED calling
          ELSE /\ calling' = (IF calling = "flush" THEN "closed" ELSE "none")
               /\ filter' = (IF calling = "flush"
                             THEN [f EXCEPT !.out = @ \o Marker(f.inl) \o f.acc, !.inl = "none", !.acc = <<>>]
                             ELSE f)
    /\ UNCHANGED <<alphabet, text>>

FilterNext == (\E c \in alphabet : Feed(c)) \/ Flush \/ Pump

-----------------------------------------------------------------------------
Whole == filter.out \o Marker(filter.inl) \o filter.acc \o filter.buf
\* b is what is left of t, in its order, and has all of the characters to keep.
Within(b, t, keep) ==
    \E S \in SUBSET DOMAIN t :
       /\ \A i \in DOMAIN t : t[i] \in keep => i \in S
       /\ Cardinality(S) = Len(b)
       /\ \A i \in S : t[i] = b[Cardinality({k \in S : k <= i})]
HasImage(t) == Find(t, <<"rb", "lp">>, 1) # 0
IsFenced(t) == IsPrefix(Fence, t) /\ Find(t, <<"nl">> \o Fence, 1) = 0

\* However a text is cut into pieces, the filter only removes: what it gave out
\* and what it holds are parts of the text in their order, every letter is among
\* them unless an image was removed, a fenced block is passed as it is, and the
\* last call leaves nothing behind.
FilterOnlyRemoves ==
    /\ Within(Whole, text, IF HasImage(text) THEN {} ELSE Letters)
    /\ IsFenced(text) => Whole = text
    /\ calling = "closed" => filter.buf = <<>> /\ filter.inl = "none" /\ filter.acc = <<>>
=============================================================================
