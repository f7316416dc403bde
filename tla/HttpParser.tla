----------------------------- MODULE HttpParser -----------------------------
(***************************************************************************)
(* How src/tornado/HttpServer.cpp takes a request apart: parseHttpRequest,   *)
(* HTTPHeaders::parse with its parseLine and parseCookies, and               *)
(* parseBodyArguments.  A text is a sequence of tokens: the separators the   *)
(* code splits at, a space, and letters.  A step is a call of one of them,   *)
(* on any text of the bounds.                                                *)
(***************************************************************************)
EXTENDS Integers, Sequences, SequencesExt

CONSTANTS
    Uris,      \* the URIs of start lines
    Values,    \* what header lines have after the colon, or the space
    Bodies,    \* the bodies of requests
    MaxLines   \* bound: header lines of a request

ASSUME HttpParserAssumption ==
    /\ MaxLines \in Nat
    /\ \A text \in Uris \cup Values \cup Bodies : text \in Seq(STRING)

Keys == {"Cookie", "Content-Encoding", "Other", ""}

\* A start line has its number of items, whether its version is right, its URI.
StartLines == [items : {2, 3}, http : BOOLEAN, uri : Uris]

\* A header line that starts with a space, that has a colon, or neither.
Lines ==
    [kind : {"continuation"}, key : {""}, value : Values]
      \cup [kind : {"field"}, key : Keys, value : Values]
      \cup [kind : {"text"}, key : {""}, value : {<< >>}]

VARIABLES
    stage,          \* "start", "headers", "body", "accepted" or "refused"
    last_key, last_value, headers, cookies, arguments, body_arguments,
    startLine,      \* history: what was parsed, in that order
    lines,
    body

parsed == <<last_key, last_value, headers, cookies, arguments, body_arguments>>
vars == <<stage, parsed, startLine, lines, body>>

Nothing == << >>

Init ==
    /\ stage = "start"
    /\ last_key = "" /\ last_value = << >>
    /\ headers = Nothing /\ cookies = Nothing
    /\ arguments = Nothing /\ body_arguments = Nothing
    /\ startLine = [items |-> 0, http |-> FALSE, uri |-> << >>]
    /\ lines = << >>
    /\ body = << >>

-----------------------------------------------------------------------------
(* The helpers.                                                            *)

\* boost::split at one separator: there is always a piece, maybe empty.
Split(text, sep) ==
    FoldLeft(LAMBDA pieces, c : IF c = sep THEN Append(pieces, << >>)
                                ELSE [pieces EXCEPT ![Len(pieces)] = Append(@, c)],
             << << >> >>, text)

\* boost::trim_left and trim.
TrimLeft(text) ==
    LET ink == SelectInSeq(text, LAMBDA c : c # " ") IN
    IF ink = 0 THEN << >> ELSE SubSeq(text, ink, Len(text))

Trim(text) == Reverse(TrimLeft(Reverse(TrimLeft(text))))

Put(map, key, value) ==
    [k \in DOMAIN map \cup {key} |-> IF k = key THEN value ELSE map[k]]

\* Mutant of IsPair: a value may contain "=".
IsPairAtLeast(piece) == Len(Split(piece, "=")) >= 2

IsPair(piece) == Len(Split(piece, "=")) = 2

ArePairs(pieces) == \A i \in DOMAIN pieces : IsPair(pieces[i])

PairsOf(pieces) ==
    FoldLeft(LAMBDA map, piece : LET kv == Split(piece, "=") IN Put(map, kv[1], kv[2]),
             Nothing, pieces)

QsPieces(qs) == Split(qs, "&")

\* Mutant of CookiePieces: the items are not trimmed.
CookiePiecesUntrimmed(text) == Split(text, ";")

CookiePieces(text) ==
    LET items == Split(text, ";") IN [i \in DOMAIN items |-> Trim(items[i])]

\* Mutant of Continued: the value is replaced.
ContinuedReplaces(value) == TrimLeft(value)

\* The value of the header before, with a line that continues it.
Continued(value) == last_value \o << " " >> \o TrimLeft(value)

ValueOf(key) == IF key \in DOMAIN headers THEN headers[key] ELSE << >>

-----------------------------------------------------------------------------
(* The calls.                                                              *)

\* The start line of parseHttpRequest.
ParseStartLine(line) ==
    /\ stage = "start"
    /\ startLine' = line
    /\ LET uri == Split(line.uri, "?") IN
       IF line.items = 3 /\ line.http
            /\ (Len(uri) = 1 \/ (Len(uri) = 2 /\ ArePairs(QsPieces(uri[2]))))
       THEN /\ stage' = "headers"
            /\ arguments' = IF Len(uri) = 2 THEN PairsOf(QsPieces(uri[2])) ELSE Nothing
       ELSE stage' = "refused" /\ UNCHANGED arguments
    /\ UNCHANGED <<last_key, last_value, headers, cookies, body_arguments, lines, body>>

\* One round of parse: parseLine, where the text after a leading space goes on
\* with the header before, and a header that comes again replaces the first.
ParseLine(line) ==
    /\ stage = "headers"
    /\ Len(lines) < MaxLines
    /\ lines' = Append(lines, line)
    /\ \/ /\ line.kind = "continuation" /\ last_key # ""
          /\ last_value' = Continued(line.value)
          /\ headers' = Put(headers, last_key, last_value')
          /\ UNCHANGED <<last_key, stage>>
       \/ /\ line.kind = "field"
          /\ last_key' = line.key
          /\ last_value' = Trim(line.value)
          /\ headers' = Put(headers, line.key, last_value')
          /\ UNCHANGED stage
       \/ /\ line.kind = "text" \/ (line.kind = "continuation" /\ last_key = "")
          /\ stage' = "refused"
          /\ UNCHANGED <<last_key, last_value, headers>>
    /\ UNCHANGED <<cookies, arguments, body_arguments, startLine, body>>

\* The end of parse.
ParseCookies ==
    /\ stage = "headers"
    /\ LET items == CookiePieces(ValueOf("Cookie")) IN
       IF ValueOf("Cookie") = << >> THEN stage' = "body" /\ UNCHANGED cookies
       ELSE IF ArePairs(items) THEN stage' = "body" /\ cookies' = PairsOf(items)
       ELSE stage' = "refused" /\ UNCHANGED cookies
    /\ UNCHANGED <<last_key, last_value, headers, arguments, body_arguments,
                   startLine, lines, body>>

\* parseBodyArguments of a POST.  "form" stands for the type of an HTML form,
\* which is looked for in the header Content-Encoding, at the beginning.
ParseBodyArguments(text) ==
    /\ stage = "body"
    /\ body' = text
    /\ LET encoding == ValueOf("Content-Encoding") IN
       IF encoding # << >> /\ encoding[1] = "form"
       THEN IF ArePairs(QsPieces(text))
            THEN stage' = "accepted" /\ body_arguments' = PairsOf(QsPieces(text))
            ELSE stage' = "refused" /\ UNCHANGED body_arguments
       ELSE stage' = "accepted" /\ UNCHANGED body_arguments
    /\ UNCHANGED <<last_key, last_value, headers, cookies, arguments, startLine, lines>>

Next ==
    \/ \E line \in StartLines : ParseStartLine(line)
    \/ \E line \in Lines : ParseLine(line)
    \/ ParseCookies
    \/ \E text \in Bodies : ParseBodyArguments(text)

Spec == Init /\ [][Next]_vars

-----------------------------------------------------------------------------
(* What a request means, by what stands where in its text.                  *)

\* A piece is what stands between two neighbours of these positions.
Cuts(text, sep) == {0, Len(text) + 1} \cup {i \in DOMAIN text : text[i] = sep}

Pieces(text, sep) ==
    {c \in Cuts(text, sep) \X Cuts(text, sep) :
        c[1] < c[2] /\ \A k \in (c[1] + 1)..(c[2] - 1) : k \notin Cuts(text, sep)}

Equals(text, c) == {k \in (c[1] + 1)..(c[2] - 1) : text[k] = "="}

\* Every piece has one "=" and no more, the empty piece included.
WellFormed(text, sep) ==
    \A c \in Pieces(text, sep) : \E k \in Equals(text, c) : Equals(text, c) = {k}

\* What is before and behind it; a cookie loses the spaces on its outside.
KeyOf(text, c, sep) ==
    LET k == CHOOSE k \in Equals(text, c) : TRUE
        key == SubSeq(text, c[1] + 1, k - 1)
    IN IF sep = ";" THEN TrimLeft(key) ELSE key

MeaningOf(text, c, sep) ==
    LET k == CHOOSE k \in Equals(text, c) : TRUE
        value == SubSeq(text, k + 1, c[2] - 1)
    IN IF sep = ";" THEN Reverse(TrimLeft(Reverse(value))) ELSE value

\* A key stands for what the last piece with it says.
Means(text, sep, map) ==
    LET cs == Pieces(text, sep) IN
    /\ DOMAIN map = {KeyOf(text, c, sep) : c \in cs}
    /\ \A c \in cs :
          (\A d \in cs : d[1] > c[1] => KeyOf(text, d, sep) # KeyOf(text, c, sep)) =>
             map[KeyOf(text, c, sep)] = MeaningOf(text, c, sep)

IsField(i) == lines[i].kind = "field"

\* The field that line i belongs to: the last line with a colon.
FieldOf(i) == CHOOSE f \in 1..i : IsField(f) /\ \A k \in (f + 1)..i : ~IsField(k)

\* The value of the field at line f with the lines up to i that continue it.
ValueUpTo(f, i) ==
    FoldLeft(LAMBDA text, line : text \o << " " >> \o TrimLeft(line.value),
             Trim(lines[f].value), SubSeq(lines, f + 1, i))

QueryMarks == {i \in DOMAIN startLine.uri : startLine.uri[i] = "?"}
Query(q) == SubSeq(startLine.uri, q + 1, Len(startLine.uri))

IsForm == ValueOf("Content-Encoding") # << >> /\ ValueOf("Content-Encoding")[1] = "form"

StartFault ==
    \/ startLine.items # 3 \/ ~startLine.http
    \/ \E q \in QueryMarks : QueryMarks # {q} \/ ~WellFormed(Query(q), "&")

LineFault ==
    \E i \in DOMAIN lines :
       \/ lines[i].kind = "text"
       \/ lines[i].kind = "continuation"
             /\ ~ \E f \in 1..i : IsField(f) /\ f = FieldOf(i) /\ lines[f].key # ""

CookieFault == ValueOf("Cookie") # << >> /\ ~WellFormed(ValueOf("Cookie"), ";")

BodyFault == IsForm /\ ~WellFormed(body, "&")

-----------------------------------------------------------------------------
(* Properties.                                                             *)

\* The map that parseLine builds from its last_key_ and last_value_ is what the
\* lines say: each header has the value of its last field, with the lines that
\* continue that field and no others (HttpServer.cpp 46-78).
HeadersMeanLines ==
    stage \in {"headers", "body", "accepted"} =>
       /\ DOMAIN headers = {lines[i].key : i \in {j \in DOMAIN lines : IsField(j)}}
       /\ \A i \in DOMAIN lines :
             LET f == FieldOf(i)
                 last == /\ i = Len(lines) \/ IsField(i + 1)
                         /\ \A k \in (i + 1)..Len(lines) :
                               IsField(k) => lines[k].key # lines[f].key
             IN last => headers[lines[f].key] = ValueUpTo(f, i)

\* What is between the separators and around the "=" of a query, a cookie or a
\* form ends up in the maps, the later one of two with the same key, and nothing
\* else does (HttpServer.cpp 80-104, 313-331).
MapsMeanTexts ==
    stage \in {"body", "accepted"} =>
       /\ \/ arguments = Nothing /\ QueryMarks = {}
          \/ \E q \in QueryMarks : Means(Query(q), "&", arguments)
       /\ IF ValueOf("Cookie") = << >> THEN cookies = Nothing
          ELSE Means(ValueOf("Cookie"), ";", cookies)
       /\ IF IsForm /\ stage = "accepted" THEN Means(body, "&", body_arguments)
          ELSE body_arguments = Nothing

\* A step refuses the request if and only if what it has parsed is malformed: a
\* piece without exactly one "=" in a query, a cookie or a form, even the empty
\* one that a trailing separator leaves, a line without a colon, a continuation
\* of nothing (HttpServer.cpp 13-104, 226-331).
RefusedForAReason ==
    [][/\ stage = "start" => (stage' = "refused" <=> StartFault')
       /\ stage = "headers" /\ stage' = "refused" => LineFault' \/ CookieFault'
       /\ stage = "headers" /\ stage' = "headers" => ~LineFault'
       /\ stage = "headers" /\ stage' = "body" => ~CookieFault'
       /\ stage = "body" => (stage' = "refused" <=> BodyFault')]_vars
=============================================================================
