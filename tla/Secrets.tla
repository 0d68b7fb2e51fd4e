------------------------------- MODULE Secrets -------------------------------
(***************************************************************************)
(* `scan_secrets` (src/src/secrets.rs): the validators that search the     *)
(* bytes of one file, one after the other, each with a cursor of its own.  *)
(*                                                                         *)
(* A text is a sequence of symbols.  What a validator asks of a byte is    *)
(* which class it is in, so one symbol stands for a class, and one symbol  *)
(* for a word that is only looked for as a whole (a PEM mark, a prefix, a  *)
(* word of DENY_WORDS).  Lengths count symbols; the limits of the code are *)
(* parameters.  Positions count from 1 and an end is the position behind.  *)
(***************************************************************************)
EXTENDS Integers, Sequences, FiniteSets, SequencesExt

CONSTANTS Bytes,
          Texts,          \* what a file may contain
          Validators,     \* the validators in their order, PEM left out
          Newline, CarriageReturn,
          Header, Footer, \* "-----BEGIN ", "-----END "
          Kind,           \* "PRIVATE KEY-----"
          Base64,         \* what a PEM body line is made of
          DenyWords,
          PemRule,        \* rules are numbers in the order of their ids
          HeaderCap,      \* 160 bytes of a header or footer line
          BlockCap,       \* PEM_MAX_BLOCK
          LineCap,        \* 256 bytes of a body line
          Radius, PemRadius,   \* 100, 500: where a deny word counts
          TailBytes            \* 4 trailing bytes of evidence

(* A validator: what it looks for, which bytes may not stand before it,    *)
(* where its body begins and what it is made of.  "fixed" is scan_aws,     *)
(* "run" scan_github_token and scan_prefixed, "segments" the two with      *)
(* three parts, scan_slack_webhook and scan_jwt.                           *)
Shapes == {"fixed", "run", "segments"}

ASSUME ConstantsAssumption ==
  /\ Texts \subseteq Seq(Bytes)
  /\ {HeaderCap, BlockCap, LineCap} \subseteq Nat \ {0}
  /\ {Radius, PemRadius, TailBytes, PemRule} \subseteq Nat
  /\ {Newline, CarriageReturn, Header, Footer, Kind} \intersect Base64 = {}
  /\ Newline \notin {CarriageReturn, Header, Footer}
  /\ Validators \in Seq(Range(Validators))
  /\ \A k \in DOMAIN Validators :
       LET v == Validators[k] IN
       /\ v.shape \in Shapes /\ v.prefix \in Seq(Bytes) /\ v.prefix # <<>>
       /\ v.begin \in 0..Len(v.prefix)
       /\ v.shape = "run" => v.begin = Len(v.prefix)
       /\ v.shape = "segments" => Len(v.prefix) <= v.begin + v.min
       /\ v.rule \in Nat \ {PemRule} /\ v.min \in Nat \ {0} /\ v.cap \in Nat
       /\ v.separator \notin v.body

VARIABLES text,
          at,         \* the validator at work
          pc,
          from,       \* where its search goes on
          start, end, \* the candidate
          segments, segment_len,
          header_end, footer_start, line_start, last_line,   \* of scan_pem
          out

candidate == <<start, end, segments, segment_len>>
block == <<header_end, footer_start, line_start, last_line>>
vars == <<text, at, pc, from, candidate, block, out>>

NoLine == <<0, 0>>

Init ==
  /\ text \in Texts
  /\ at = 1 /\ pc = "pem" /\ from = 1
  /\ start = 1 /\ end = 1 /\ segments = 0 /\ segment_len = 0
  /\ header_end = 1 /\ footer_start = 1 /\ line_start = 1 /\ last_line = NoLine
  /\ out = <<>>

-----------------------------------------------------------------------------
(* What all validators use. *)

V == Validators[at]

Behind == Len(text) + 1

Least(a, b) == IF a < b THEN a ELSE b

Occurs(needle, i) ==
  /\ i + Len(needle) <= Behind
  /\ \A k \in DOMAIN needle : text[i + k - 1] = needle[k]

(* find_from: the first occurrence at or behind `from`. *)
IsNext(needle, i) ==
  /\ i \in from..Len(text) /\ Occurs(needle, i)
  /\ \A j \in from..i - 1 : ~Occurs(needle, j)

AllIn(first, behind, bytes) == \A i \in first..behind - 1 : text[i] \in bytes

NoNext(needle) == \A i \in from..Len(text) : ~Occurs(needle, i)

(* line_col, counted byte by byte. *)
LineCol(p) ==
  FoldLeft(LAMBDA place, byte : IF byte = Newline THEN <<place[1] + 1, 1>>
                                ELSE <<place[1], place[2] + 1>>,
           <<1, 1>>, SubSeq(text, 1, p - 1))

(* is_documented_example over context(..): a deny word near the match. *)
Documented(s, e, radius) ==
  \E i \in DOMAIN text : s - radius <= i /\ i < e + radius /\ text[i] \in DenyWords

Finding(rule, s, e, shown) ==
  [rule |-> rule, start |-> s, end |-> e,
   line |-> LineCol(s)[1], column |-> LineCol(s)[2], shown |-> shown]

(* Bug: the tail is counted from the start of the token. *)
TailOfFromStart(first, behind) == {i \in first..behind - 1 : i >= first + TailBytes}

(* The last bytes of first..behind - 1. *)
TailOf(first, behind) == {i \in first..behind - 1 : i >= behind - TailBytes}

-----------------------------------------------------------------------------
(* scan_pem *)

IsLineEnd(i, stop, e) ==
  /\ e \in i..stop
  /\ \A j \in i..e - 1 : text[j] # Newline
  /\ e < stop => text[e] = Newline

IsDelimiterEnd(i, e) == IsLineEnd(i, Least(Behind, i + HeaderCap), e)

HasKind(i, e) == \E j \in i..e - 1 : text[j] = Kind

NextBlock == pc' = "pem" /\ UNCHANGED <<text, at, from, candidate, block, out>>

PemHeader ==
  /\ pc = "pem"
  /\ \E s \in from..Len(text), e \in from..Behind :
       /\ IsNext(<<Header>>, s) /\ IsDelimiterEnd(s, e)
       /\ from' = s + 1
       /\ \/ ~HasKind(s, e) /\ UNCHANGED <<pc, start, header_end>>
          \/ HasKind(s, e) /\ pc' = "footer" /\ start' = s /\ header_end' = e
  /\ UNCHANGED <<text, at, end, segments, segment_len, footer_start, line_start, last_line, out>>

IsFirstFooter(h, f) ==
  /\ f \in h..Least(Behind, h + BlockCap) - 1 /\ text[f] = Footer
  /\ \A j \in h..f - 1 : text[j] # Footer

PemFooter ==
  /\ pc = "footer"
  /\ \E f \in header_end..Len(text), e \in header_end..Behind :
       /\ IsFirstFooter(header_end, f) /\ IsDelimiterEnd(f, e) /\ HasKind(f, e)
       /\ pc' = "lines"
       /\ footer_start' = f /\ end' = e /\ line_start' = header_end /\ last_line' = NoLine
  /\ UNCHANGED <<text, at, from, start, segments, segment_len, header_end, out>>

(* No footer in reach, or the footer of something else. *)
PemNoFooter ==
  /\ pc = "footer"
  /\ \A f \in header_end..Len(text) :
       IsFirstFooter(header_end, f) => \E e \in f..Behind : IsDelimiterEnd(f, e) /\ ~HasKind(f, e)
  /\ NextBlock

IsBase64Line(i, stop) ==
  stop - i <= LineCap /\ AllIn(i, stop, Base64)

(* One line of bytes[header_end..footer_start], without a CR at its end. *)
PemLine ==
  /\ pc = "lines" /\ line_start <= footer_start
  /\ \E e \in line_start..footer_start :
       /\ IsLineEnd(line_start, footer_start, e)
       /\ LET stop == IF e > line_start /\ text[e - 1] = CarriageReturn THEN e - 1 ELSE e
          IN  \/ /\ stop = line_start
                 /\ line_start' = e + 1 /\ UNCHANGED <<pc, last_line>>
              \/ /\ stop > line_start /\ IsBase64Line(line_start, stop)
                 /\ line_start' = e + 1 /\ last_line' = <<line_start, stop>> /\ UNCHANGED pc
              \/ /\ stop > line_start /\ ~IsBase64Line(line_start, stop)
                 /\ pc' = "pem" /\ UNCHANGED <<line_start, last_line>>
  /\ UNCHANGED <<text, at, from, candidate, header_end, footer_start, out>>

PemRefused ==
  /\ pc = "lines" /\ line_start > footer_start
  /\ last_line = NoLine \/ Documented(start, end, PemRadius)
  /\ NextBlock

PemFinding ==
  Finding(PemRule, start, end,
          (start..header_end - 1) \union TailOf(last_line[1], last_line[2]))

(* Bug: the search goes on behind the header, as after a refusal. *)
PemReportNoSkip ==
  /\ pc = "lines" /\ line_start > footer_start
  /\ last_line # NoLine /\ ~Documented(start, end, PemRadius)
  /\ out' = Append(out, PemFinding)
  /\ pc' = "pem"
  /\ UNCHANGED <<text, at, from, candidate, block>>

PemReport ==
  /\ pc = "lines" /\ line_start > footer_start
  /\ last_line # NoLine /\ ~Documented(start, end, PemRadius)
  /\ out' = Append(out, PemFinding)
  /\ from' = end
  /\ pc' = "pem"
  /\ UNCHANGED <<text, at, candidate, block>>

PemDone ==
  /\ pc = "pem" /\ NoNext(<<Header>>)
  /\ pc' = "search" /\ from' = 1
  /\ UNCHANGED <<text, at, candidate, block, out>>

Pem == PemHeader \/ PemFooter \/ PemNoFooter \/ PemLine \/ PemRefused \/ PemReport \/ PemDone

-----------------------------------------------------------------------------
(* The validators for tokens. *)

Working == pc # "sort" /\ pc # "done"

Reject == pc' = "search" /\ UNCHANGED <<text, at, from, candidate, block, out>>

(* Bug: a byte before the prefix is not looked at. *)
MidTokenNever(v, s) == FALSE

MidToken(v, s) == s > 1 /\ text[s - 1] \in v.boundary

SkipMidToken ==
  /\ pc = "search" /\ at \in DOMAIN Validators
  /\ \E s \in from..Len(text) :
       IsNext(V.prefix, s) /\ MidToken(V, s) /\ from' = s + 1
  /\ UNCHANGED <<text, at, pc, candidate, block, out>>

StartToken ==
  /\ pc = "search" /\ at \in DOMAIN Validators
  /\ \E s \in from..Len(text) :
       /\ IsNext(V.prefix, s) /\ ~MidToken(V, s)
       /\ from' = s + 1
       /\ start' = s /\ end' = s + V.begin
  /\ segments' = 0 /\ segment_len' = 0
  /\ pc' = "body"
  /\ UNCHANGED <<text, at, block, out>>

FixedBody ==
  LET behind == start + Len(V.prefix) + V.min
      sound == /\ behind <= Behind
               /\ AllIn(start + Len(V.prefix), behind, V.body)
               /\ behind = Behind \/ text[behind] \notin V.boundary
  IN
  /\ pc = "body" /\ V.shape = "fixed"
  /\ end' = behind
  /\ pc' = IF sound THEN "context" ELSE "search"
  /\ UNCHANGED <<text, at, from, start, segments, segment_len, block, out>>

(* The conditions of the loops, in which a token may be one byte longer    *)
(* than the limit.                                                         *)
InReach == end <= Len(text) /\ end - start <= V.cap

BodyByte ==
  /\ pc = "body" /\ V.shape # "fixed"
  /\ InReach /\ text[end] \in V.body
  /\ end' = end + 1
  /\ segment_len' = segment_len + 1
  /\ UNCHANGED <<text, at, pc, from, start, segments, block, out>>

(* Bug: the limit ends a run one byte too early. *)
EndOfRunShort ==
  /\ pc = "body" /\ V.shape = "run"
  /\ ~(end < Len(text) /\ end - start <= V.cap /\ text[end] \in V.body)
  /\ pc' = IF segment_len >= V.min THEN "context" ELSE "search"
  /\ UNCHANGED <<text, at, from, candidate, block, out>>

EndOfRun ==
  LET body == SubSeq(text, start + Len(V.prefix), end - 1)
      sound == Len(body) >= V.min /\ (V.inner = {} \/ ToSet(body) \intersect V.inner # {})
  IN
  /\ pc = "body" /\ V.shape = "run"
  /\ ~(InReach /\ text[end] \in V.body)
  /\ pc' = IF sound THEN "context" ELSE "search"
  /\ UNCHANGED <<text, at, from, candidate, block, out>>

Separates == InReach /\ segments < 2 /\ text[end] = V.separator /\ segment_len >= V.min

EndOfSegment ==
  /\ pc = "body" /\ V.shape = "segments" /\ Separates
  /\ segments' = segments + 1 /\ segment_len' = 0
  /\ end' = end + 1
  /\ UNCHANGED <<text, at, pc, from, start, block, out>>

EndOfSegments ==
  /\ pc = "body" /\ V.shape = "segments"
  /\ ~(InReach /\ text[end] \in V.body) /\ ~Separates
  /\ pc' = IF segments = 2 /\ segment_len >= V.min THEN "context" ELSE "search"
  /\ UNCHANGED <<text, at, from, candidate, block, out>>

DocumentedToken ==
  /\ pc = "context" /\ Documented(start, end, Radius)
  /\ Reject

(* The search goes on one byte behind the start, not behind the token. *)
ReportToken ==
  /\ pc = "context" /\ ~Documented(start, end, Radius)
  /\ out' = Append(out, Finding(V.rule, start, end,
                                (start..start + Len(V.prefix) - 1) \union TailOf(start, end)))
  /\ pc' = "search"
  /\ UNCHANGED <<text, at, from, candidate, block>>

NextValidator ==
  /\ pc = "search" /\ at \in DOMAIN Validators
  /\ NoNext(V.prefix)
  /\ at' = at + 1 /\ from' = 1
  /\ UNCHANGED <<text, pc, candidate, block, out>>

AllDone ==
  /\ pc = "search" /\ at \notin DOMAIN Validators
  /\ pc' = "sort"
  /\ UNCHANGED <<text, at, from, candidate, block, out>>

Token ==
  \/ SkipMidToken \/ StartToken \/ FixedBody \/ BodyByte \/ EndOfRun
  \/ EndOfSegment \/ EndOfSegments \/ DocumentedToken \/ ReportToken
  \/ NextValidator \/ AllDone

(* By line, column and rule id. *)
Before(f, g) ==
  \/ f.line < g.line
  \/ f.line = g.line /\ f.column < g.column
  \/ f.line = g.line /\ f.column = g.column /\ f.rule <= g.rule

(* Any order of the findings that sort_by can leave. *)
Sort ==
  /\ pc = "sort"
  /\ \E p \in Bijection(DOMAIN out, DOMAIN out) :
       /\ out' = [i \in DOMAIN out |-> out[p[i]]]
       /\ \A i, j \in DOMAIN out : i < j => Before(out[p[i]], out[p[j]])
  /\ pc' = "done"
  /\ UNCHANGED <<text, at, from, candidate, block>>

Next == Pem \/ Token \/ Sort

Spec == Init /\ [][Next]_vars

-----------------------------------------------------------------------------
Done == pc = "done"

(* What a token of a validator is, said of the text alone. *)

Room(v, s, e) == e = Behind \/ text[e] \notin v.body \/ e - s > v.cap

IsBody(v, s, e) ==
  LET b == s + Len(v.prefix) IN
  \/ /\ v.shape = "fixed"
     /\ e = b + v.min /\ AllIn(b, e, v.body)
     /\ e = Behind \/ text[e] \notin v.boundary
  \/ /\ v.shape = "run"
     /\ e >= b + v.min /\ AllIn(b, e, v.body) /\ Room(v, s, e)
     /\ e - s <= v.cap + 1
     /\ v.inner = {} \/ \E i \in b..e - 1 : text[i] \in v.inner
  \/ /\ v.shape = "segments"
     /\ e - s <= v.cap + 1 /\ Room(v, s, e)
     /\ \E p, q \in s..e - 1 :
          /\ text[p] = v.separator /\ text[q] = v.separator
          /\ AllIn(s + v.begin, p, v.body) /\ p >= s + v.begin + v.min
          /\ AllIn(p + 1, q, v.body) /\ q >= p + 1 + v.min
          /\ AllIn(q + 1, e, v.body) /\ e >= q + 1 + v.min

IsToken(v, s, e) ==
  /\ e <= Behind
  /\ Occurs(v.prefix, s) /\ ~MidToken(v, s)
  /\ IsBody(v, s, e)
  /\ ~Documented(s, e, Radius)

(* What a PEM block is: the lines between a header and the first footer    *)
(* behind it have base64 characters in them and nothing else.              *)
IsBlock(s, e) ==
  /\ text[s] = Header
  /\ \E h \in s..Behind, f \in s..Len(text) :
       /\ IsDelimiterEnd(s, h) /\ HasKind(s, h)
       /\ IsFirstFooter(h, f) /\ IsDelimiterEnd(f, e) /\ HasKind(f, e)
       /\ \A i \in h..f - 1 :
            \/ text[i] \in Base64 \union {Newline}
            \/ text[i] = CarriageReturn /\ (i + 1 = f \/ text[i + 1] = Newline)
       /\ \A i \in h..f - 1 - LineCap : \E j \in i..i + LineCap : text[j] \notin Base64
       /\ \E i \in h..f - 1 : text[i] \in Base64
  /\ ~Documented(s, e, PemRadius)

Spans(rules) == {<<f.rule, f.start, f.end>> : f \in {g \in ToSet(out) : g.rule \in rules}}

TokenRules == {Validators[k].rule : k \in DOMAIN Validators}

(* The findings are the tokens of the text: none is invented by a cursor   *)
(* that one validator left behind, by a limit or by the end of the file,   *)
(* and none is skipped, wherever a candidate before it broke off.          *)
TokensAreExact ==
  Done => Spans(TokenRules) =
            {<<m[1].rule, m[2], m[3]>> :
               m \in {c \in ToSet(Validators) \X (1..Len(text)) \X (1..Behind) : IsToken(c[1], c[2], c[3])}}

(* Every PEM block is found, unless it begins within one that was: after a *)
(* header without a body, with a footer of something else or one that is   *)
(* too far away, the search takes up the very next header.                 *)
BlocksAreExact ==
  Done =>
    LET found == {<<m[2], m[3]>> : m \in Spans({PemRule})} IN
    found = {b \in (1..Len(text)) \X (1..Behind) :
               IsBlock(b[1], b[2]) /\ ~\E a \in found : a[1] < b[1] /\ b[1] < a[2]}

(* "-----BEGIN ... PRIVATE KEY-----", and the line that it begins.         *)
Marker(s) == {j \in s..Len(text) : \A k \in s..j - 1 : text[k] # Kind}

MarkerLine(s) ==
  {j \in s..Least(Behind, s + HeaderCap) - 1 : \A k \in s..j : text[k] # Newline}

(* The key begins, or stands as a whole, on the line of its marker.        *)
KeyOnMarkerLine(s) == \E j \in MarkerLine(s) \ Marker(s) : text[j] \in Base64

(* The part of a finding that is the secret itself: a token without its    *)
(* fixed prefix, the characters of a key behind its marker.                *)
PrefixOf(f) ==
  UNION {f.start..f.start + Len(v.prefix) - 1 :
           v \in {w \in ToSet(Validators) : w.rule = f.rule /\ Occurs(w.prefix, f.start)}}

KeyBytes(f) == {j \in f.start..f.end - 1 : text[j] \in Base64} \ Marker(f.start)

SecretOf(f) == IF f.rule = PemRule THEN KeyBytes(f) ELSE (f.start..f.end - 1) \ PrefixOf(f)

(* "Evidence is ALWAYS redacted (shape + at most 4 trailing chars)": of    *)
(* the secret it shows at most that many bytes, and nothing of what is     *)
(* around it.  The one key it does not hold for begins on the line of its  *)
(* marker (KeyStaysHidden), and of that it holds behind this line.         *)
EvidenceIsRedacted ==
  \A i \in DOMAIN out :
    LET f == out[i]
        open == IF f.rule = PemRule /\ KeyOnMarkerLine(f.start) THEN MarkerLine(f.start) ELSE {}
    IN  /\ f.shown \subseteq f.start..f.end - 1
        /\ Cardinality((f.shown \intersect SecretOf(f)) \ open) <= TailBytes

(* What a comment says and the code does not do.  "The full secret MUST    *)
(* never appear here": of each key, on however many lines it is written,   *)
(* the evidence shows at most the trailing bytes.                          *)
KeyStaysHidden ==
  \A i \in DOMAIN out :
    out[i].rule = PemRule => Cardinality(out[i].shown \intersect SecretOf(out[i])) <= TailBytes

(* A rule whose prefixes and bodies are made of bytes that may not stand   *)
(* before one of its tokens never reports a part of a token it has         *)
(* reported, although the search goes on within it.                        *)
Closed(rule) ==
  \A k, l \in DOMAIN Validators :
    Validators[k].rule = rule /\ Validators[l].rule = rule =>
      /\ Validators[k].shape # "segments"
      /\ Validators[k].body \union ToSet(Validators[k].prefix) \subseteq Validators[l].boundary

NoTokenWithinToken ==
  \A i, j \in DOMAIN out :
    /\ out[i].rule = out[j].rule /\ out[i].rule \in TokenRules /\ Closed(out[i].rule)
    /\ out[i].start < out[j].start
    => out[i].end <= out[j].start

=============================================================================
