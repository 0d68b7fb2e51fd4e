--------------------------- MODULE SecretsProofs ---------------------------
(***************************************************************************)
(* Proofs about Secrets, for any texts, any validators and any limits:     *)
(* what is reported are the tokens and the blocks of the text, and what is *)
(* shown of them is redacted.                                              *)
(***************************************************************************)
EXTENDS Secrets, FiniteSetTheorems, TLAPS

Numbers ==
  /\ text \in Seq(Bytes)
  /\ at \in 1..Len(Validators) + 1
  /\ from \in 1..Behind
  /\ start \in 1..Behind /\ end \in Nat
  /\ segments \in 0..2 /\ segment_len \in Nat
  /\ out \in Seq(ToSet(out))
  /\ pc \in {"pem", "footer", "lines", "search", "body", "context", "sort", "done"}

(* Tokens: what is known of a candidate, while it is read and after it.    *)
Candidate ==
  pc \in {"body", "context"} =>
    /\ at \in DOMAIN Validators /\ start \in 1..Len(text) /\ from = start + 1
    /\ Occurs(V.prefix, start) /\ ~MidToken(V, start)

(* p ends a segment that begins at b. *)
Ends(v, b, p) == p >= b + v.min /\ AllIn(b, p, v.body) /\ text[p] = v.separator

ReadSegments(v, b, n, e, l) ==
  \/ n = 0 /\ AllIn(b, e, v.body) /\ l = e - b
  \/ n = 1 /\ \E p \in b..e - 1 :
       Ends(v, b, p) /\ AllIn(p + 1, e, v.body) /\ l = e - (p + 1)
  \/ n = 2 /\ \E p, q \in b..e - 1 :
       /\ Ends(v, b, p) /\ Ends(v, p + 1, q)
       /\ AllIn(q + 1, e, v.body) /\ l = e - (q + 1)

Reads ==
  pc = "body" /\ V.shape # "fixed" =>
    /\ end \in start + V.begin..Behind
    /\ end - start <= V.cap + 1 \/ end = start + V.begin
    /\ IF V.shape = "run" THEN AllIn(start + V.begin, end, V.body)
       ELSE ReadSegments(V, start + V.begin, segments, end, segment_len)

Judged == pc = "context" => end <= Behind /\ IsBody(V, start, end)

(* What is reported is a token, and what is shown of it is redacted.       *)
TokenOf(k, f) ==
  /\ f.rule = Validators[k].rule /\ f.start \in 1..Len(text) /\ f.end \in 1..Behind
  /\ IsToken(Validators[k], f.start, f.end)
  /\ f.shown = (f.start..f.start + Len(Validators[k].prefix) - 1) \union TailOf(f.start, f.end)

KeyOf(f) ==
  /\ f.rule = PemRule /\ f.start \in 1..Len(text) /\ f.end \in 1..Behind
  /\ IsBlock(f.start, f.end)
  /\ \E h, a, b \in f.start..f.end :
       /\ h <= f.start + HeaderCap
       /\ \A j \in f.start..h - 1 : text[j] # Newline
       /\ f.shown = (f.start..h - 1) \union TailOf(a, b)

Sound == \A f \in ToSet(out) : KeyOf(f) \/ \E k \in DOMAIN Validators : TokenOf(k, f)

(* Validator k has been at s. *)
Passed(k, s) ==
  \/ pc \in {"sort", "done"}
  \/ /\ pc \in {"search", "body", "context"}
     /\ k < at \/ (k = at /\ s < from /\ (pc \in {"body", "context"} => s # start))

Complete ==
  \A k \in DOMAIN Validators, s \in 1..Len(text), e \in 1..Behind :
    Passed(k, s) /\ IsToken(Validators[k], s, e) =>
      \E f \in ToSet(out) : f.rule = Validators[k].rule /\ f.start = s /\ f.end = e

(* Keys: what is known of a block between its header and its footer ...     *)
InBlock ==
  /\ pc \in {"pem", "footer", "lines"} => at = 1
  /\ pc \in {"footer", "lines"} =>
       /\ start \in 1..Len(text) /\ from = start + 1 /\ text[start] = Header
       /\ header_end \in start + 1..Behind
       /\ IsDelimiterEnd(start, header_end) /\ HasKind(start, header_end)

(* ... and of the lines before line_start.                                 *)
IsLineByte(h, f, i) ==
  \/ text[i] \in Base64 \union {Newline}
  \/ text[i] = CarriageReturn /\ (i + 1 = f \/ text[i + 1] = Newline)

LinesRead(h, f, l) ==
  /\ l = h \/ l = f + 1 \/ text[l - 1] = Newline
  /\ \A i \in h..f - 1 : i < l => IsLineByte(h, f, i)
  /\ \A i \in h..f - 1 - LineCap : i + LineCap < l => \E j \in i..i + LineCap : text[j] \notin Base64

LastLine(h, f, l) ==
  \/ last_line = NoLine /\ \A i \in h..f - 1 : i < l => text[i] \notin Base64
  \/ \E a, b \in h..f : last_line = <<a, b>> /\ a < b /\ text[a] \in Base64

InLines ==
  pc = "lines" =>
    /\ footer_start \in header_end..Len(text) /\ end \in footer_start + 1..Behind
    /\ IsFirstFooter(header_end, footer_start)
    /\ IsDelimiterEnd(footer_start, end) /\ HasKind(footer_start, end)
    /\ line_start \in header_end..footer_start + 1
    /\ LinesRead(header_end, footer_start, line_start)
    /\ LastLine(header_end, footer_start, line_start)

Keys == {f \in ToSet(out) : f.rule = PemRule}

(* No block begins within another, and the search is behind them all.      *)
KeysApart ==
  /\ \A f, g \in Keys : f.start < g.start => f.end <= g.start
  /\ pc = "pem" => \A f \in Keys : f.end <= from
  /\ pc \in {"footer", "lines"} => \A f \in Keys : f.end <= start

KeysFound ==
  \A s \in 1..Len(text), e \in 1..Behind :
    /\ IsBlock(s, e)
    /\ pc = "pem" => s < from
    /\ pc \in {"footer", "lines"} => s < start
    => \E f \in Keys : \/ f.start = s /\ f.end = e
                       \/ f.start < s /\ s < f.end

-----------------------------------------------------------------------------
LEMMA ValidatorFacts ==
  ASSUME NEW k \in DOMAIN Validators
  PROVE  LET v == Validators[k] IN
         /\ v.shape \in Shapes /\ v.prefix \in Seq(Bytes) /\ Len(v.prefix) \in Nat \ {0}
         /\ v.begin \in 0..Len(v.prefix)
         /\ v.shape = "run" => v.begin = Len(v.prefix)
         /\ v.shape = "segments" => Len(v.prefix) <= v.begin + v.min
         /\ v.rule \in Nat /\ v.rule # PemRule /\ v.min \in Nat \ {0} /\ v.cap \in Nat
         /\ v.separator \notin v.body
BY ConstantsAssumption

LEMMA ValidatorsAreAList ==
  DOMAIN Validators = 1..Len(Validators) /\ Len(Validators) \in Nat
BY ConstantsAssumption

LEMMA Added ==
  ASSUME NEW s, s \in Seq(ToSet(s)), NEW x
  PROVE  Append(s, x) \in Seq(ToSet(Append(s, x))) /\ ToSet(Append(s, x)) = ToSet(s) \union {x}
<1> DEFINE t == Append(s, x)
<1>1. /\ DOMAIN s = 1..Len(s) /\ Len(s) \in Nat /\ t \in Seq(ToSet(s) \union {x})
      /\ Len(t) = Len(s) + 1 /\ DOMAIN t = 1..Len(t)
      /\ \A i \in 1..Len(t) : t[i] = IF i = Len(s) + 1 THEN x ELSE s[i]
  BY DEF ToSet
<1> HIDE DEF t
<1>2. ToSet(t) = ToSet(s) \union {x}
  BY <1>1 DEF ToSet
<1> QED BY <1>1, <1>2 DEF t

(* What depends on the text alone stays as it is. *)
LEMMA SameText ==
  ASSUME text' = text
  PROVE  /\ Behind' = Behind
         /\ \A v, s, e : IsToken(v, s, e)' <=> IsToken(v, s, e)
         /\ \A v, s, e : IsBody(v, s, e)' <=> IsBody(v, s, e)
         /\ \A v, s : MidToken(v, s)' <=> MidToken(v, s)
         /\ \A n, s : Occurs(n, s)' <=> Occurs(n, s)
         /\ \A a, b, S : AllIn(a, b, S)' <=> AllIn(a, b, S)
         /\ \A v, a, b : Ends(v, a, b)' <=> Ends(v, a, b)
         /\ \A v, b, n, e, l : ReadSegments(v, b, n, e, l)' <=> ReadSegments(v, b, n, e, l)
         /\ \A k, f : TokenOf(k, f)' <=> TokenOf(k, f)
<1>1. Behind' = Behind
  BY DEF Behind
<1>2. /\ \A n, s : Occurs(n, s)' <=> Occurs(n, s)
      /\ \A v, s : MidToken(v, s)' <=> MidToken(v, s)
      /\ \A a, b, S : AllIn(a, b, S)' <=> AllIn(a, b, S)
  BY <1>1 DEF Occurs, MidToken, AllIn
<1>3. \A v, s, e : IsBody(v, s, e)' <=> IsBody(v, s, e)
  BY <1>1, <1>2 DEF IsBody, Room
<1>4. \A s, e, r : Documented(s, e, r)' <=> Documented(s, e, r)
  BY DEF Documented
<1>5. \A v, s, e : IsToken(v, s, e)' <=> IsToken(v, s, e)
  BY <1>1, <1>2, <1>3, <1>4 DEF IsToken
<1>6. \A v, a, b : Ends(v, a, b)' <=> Ends(v, a, b)
  BY <1>2 DEF Ends
<1>7. \A k, f : TokenOf(k, f)' <=> TokenOf(k, f)
  BY <1>1, <1>5 DEF TokenOf, TailOf
<1>8. \A v, b, n, e, l : ReadSegments(v, b, n, e, l)' <=> ReadSegments(v, b, n, e, l)
  BY <1>2, <1>6 DEF ReadSegments
<1> QED BY <1>1, <1>2, <1>3, <1>5, <1>6, <1>7, <1>8

LEMMA NextNumbers ==
  ASSUME Numbers, Candidate, InBlock, InLines, [Next]_vars
  PROVE  Numbers'
<1> USE ValidatorsAreAList
<1> DEFINE Rest == /\ at' \in 1..Len(Validators) + 1 /\ from' \in 1..Behind /\ start' \in 1..Behind
                   /\ end' \in Nat /\ segments' \in 0..2 /\ segment_len' \in Nat
                   /\ pc' \in {"pem", "footer", "lines", "search", "body", "context", "sort", "done"}
<1>1. /\ text \in Seq(Bytes) /\ Len(text) \in Nat /\ Behind = Len(text) + 1
      /\ Len(Validators) \in Nat
  BY DEF Numbers, Behind
<1>2. SUFFICES text' = text /\ Rest /\ out' \in Seq(ToSet(out'))
  BY <1>1 DEF Numbers, Behind
<1>3. text' = text
  BY DEF Next, Pem, Token, vars, candidate, block, PemHeader, PemFooter, PemNoFooter, PemLine,
         PemRefused, PemReport, PemDone, NextBlock, Reject, SkipMidToken, StartToken, FixedBody,
         BodyByte, EndOfRun, EndOfSegment, EndOfSegments, DocumentedToken, ReportToken,
         NextValidator, AllDone, Sort
<1>4. CASE Pem
  <2> USE DEF Numbers, candidate, block
  <2>1. CASE PemHeader
    <3>1. UNCHANGED <<at, end, segments, segment_len, out>>
      BY <2>1 DEF PemHeader
    <3>2. PICK s \in from..Len(text), e \in from..Behind :
            /\ from' = s + 1
            /\ \/ UNCHANGED <<pc, start>>
               \/ pc' = "footer" /\ start' = s
      BY <2>1 DEF PemHeader
    <3> QED BY <1>1, <1>3, <3>1, <3>2
  <2>2. CASE PemFooter
    <3>1. /\ UNCHANGED <<at, from, start, segments, segment_len, out>>
          /\ pc' = "lines"
      BY <2>2 DEF PemFooter
    <3>2. PICK f \in header_end..Len(text), e \in header_end..Behind :
            IsDelimiterEnd(f, e) /\ IsFirstFooter(header_end, f) /\ end' = e /\ HasKind(f, e)
      BY <2>2 DEF PemFooter
    <3>3. end' \in Nat
      <4>1. header_end \in Int /\ header_end >= 0
        BY <1>1, <2>2 DEF InBlock, PemFooter
      <4> QED BY <1>1, <3>2, <4>1
    <3> QED BY <1>1, <1>3, <3>1, <3>3
  <2>3. CASE PemNoFooter \/ PemRefused \/ PemDone
    <3>1. /\ UNCHANGED <<at, candidate, out>> /\ pc' \in {"pem", "search"}
          /\ from' = from \/ from' = 1
      BY <2>3 DEF PemNoFooter, PemRefused, PemDone, NextBlock
    <3> QED BY <1>1, <1>3, <3>1
  <2>4. CASE PemLine
    BY <1>1, <1>3, <2>4 DEF PemLine
  <2>5. CASE PemReport
    <3>1. out' = Append(out, PemFinding) /\ from' = end /\ pc = "lines" /\ pc' = "pem"
          /\ UNCHANGED <<at, candidate, block>>
      BY <2>5 DEF PemReport
    <3> HIDE DEF Numbers
    <3>2. out' \in Seq(ToSet(out'))
      BY <3>1, Added DEF Numbers
    <3>3. end \in 1..Behind
      BY <1>1, <3>1 DEF InLines, InBlock
    <3> QED BY <1>1, <1>3, <3>1, <3>2, <3>3 DEF Numbers
  <2> QED BY <1>4, <2>1, <2>2, <2>3, <2>4, <2>5 DEF Pem
<1>5. CASE Token
  <2> USE DEF Numbers, candidate, block
  <2>1. CASE SkipMidToken
    BY <1>1, <1>3, <2>1 DEF SkipMidToken
  <2>2. CASE StartToken
    <3>1. /\ UNCHANGED <<at, out>> /\ pc' = "body" /\ segments' = 0 /\ segment_len' = 0
          /\ at \in DOMAIN Validators
      BY <2>2 DEF StartToken
    <3>2. PICK s \in from..Len(text) : from' = s + 1 /\ start' = s /\ end' = s + V.begin
      BY <2>2 DEF StartToken
    <3>3. V.begin \in Nat
      BY <3>1, ValidatorFacts DEF V
    <3> QED BY <1>1, <1>3, <3>1, <3>2, <3>3
  <2>3. CASE FixedBody
    <3>1. /\ UNCHANGED <<at, from, start, segments, segment_len, out>> /\ pc = "body"
          /\ end' = start + Len(V.prefix) + V.min /\ pc' \in {"context", "search"}
      BY <2>3 DEF FixedBody
    <3>2. Len(V.prefix) \in Nat /\ V.min \in Nat
      BY <3>1, ValidatorFacts DEF V, Candidate
    <3> QED BY <1>1, <1>3, <3>1, <3>2, SMTT(30)
  <2>4. CASE BodyByte
    BY <1>1, <1>3, <2>4 DEF BodyByte
  <2>5. CASE EndOfRun \/ EndOfSegments
    <3>1. UNCHANGED <<at, from, candidate, block, out>> /\ pc' \in {"context", "search"}
      BY <2>5 DEF EndOfRun, EndOfSegments
    <3> QED BY <1>1, <1>3, <3>1
  <2>6. CASE EndOfSegment
    BY <1>1, <1>3, <2>6 DEF EndOfSegment, Separates
  <2>7. CASE DocumentedToken \/ AllDone
    BY <1>1, <1>3, <2>7 DEF DocumentedToken, Reject, AllDone
  <2>8. CASE ReportToken
    <3>1. UNCHANGED <<at, from, candidate, block>> /\ pc' = "search"
          /\ \E f : out' = Append(out, f)
      BY <2>8 DEF ReportToken
    <3> HIDE DEF Numbers
    <3>2. out' \in Seq(ToSet(out'))
      BY <3>1, Added DEF Numbers
    <3> QED BY <1>1, <1>3, <3>1, <3>2 DEF Numbers
  <2>9. CASE NextValidator
    BY <1>1, <1>3, <2>9 DEF NextValidator
  <2> QED BY <1>5, <2>1, <2>2, <2>3, <2>4, <2>5, <2>6, <2>7, <2>8, <2>9 DEF Token
<1>6. CASE Sort
  <2>1. PICK p \in Bijection(DOMAIN out, DOMAIN out) : out' = [i \in DOMAIN out |-> out[p[i]]]
    BY <1>6 DEF Sort
  <2>2. /\ UNCHANGED <<at, from, candidate, block>> /\ pc' = "done"
    BY <1>6 DEF Sort
  <2>3. out' \in Seq(ToSet(out'))
    <3>1. DOMAIN out = 1..Len(out) /\ Len(out) \in Nat
      BY DEF Numbers
    <3>2. out' = [i \in 1..Len(out) |-> out[p[i]]] /\ DOMAIN out' = 1..Len(out)
      BY <2>1, <3>1
    <3>3. \A i \in 1..Len(out) : out'[i] \in ToSet(out')
      BY <3>2 DEF ToSet
    <3>4. out' = [i \in 1..Len(out) |-> out'[i]]
      BY <3>2
    <3> QED BY <3>1, <3>3, <3>4
  <2> QED BY <1>1, <1>3, <2>2, <2>3 DEF Numbers, candidate
<1>7. CASE UNCHANGED vars
  BY <1>1, <1>3, <1>7 DEF vars, candidate, Numbers
<1> QED BY <1>4, <1>5, <1>6, <1>7 DEF Next

(* Two readings of a stretch of bytes from b on stop at the same place.    *)
LEMMA SameStop ==
  ASSUME NEW k \in DOMAIN Validators,
         NEW s \in Int, NEW b \in Int, NEW m \in Int, NEW p \in Int,
         Len(text) \in Nat, b <= m, b <= p, m <= Behind, p <= Behind,
         AllIn(b, m, Validators[k].body), AllIn(b, p, Validators[k].body),
         m - s <= Validators[k].cap + 1 \/ m = b, p - s <= Validators[k].cap + 1 \/ p = b,
         Room(Validators[k], s, m), Room(Validators[k], s, p)
  PROVE  m = p
<1> DEFINE v == Validators[k]
<1>1. v.cap \in Nat
  BY ValidatorFacts
<1> HIDE DEF v
<1>2. ASSUME NEW x \in Int, NEW y \in Int, b <= x, x < y, y <= Behind, AllIn(b, y, v.body),
             Room(v, s, x), y - s <= v.cap + 1 \/ y = b
      PROVE  FALSE
  <2>1. text[x] \in v.body
    BY <1>2 DEF AllIn
  <2> QED BY <1>1, <1>2, <2>1 DEF Room, Behind
<1>3. ~(m < p)
  BY <1>2 DEF v
<1>4. ~(p < m)
  BY <1>2 DEF v
<1> QED BY <1>3, <1>4

LEMMA SameEnd ==
  ASSUME NEW k \in DOMAIN Validators, NEW b \in Int, NEW p \in Int, NEW q \in Int,
         Ends(Validators[k], b, p), Ends(Validators[k], b, q)
  PROVE  p = q
<1>1. Validators[k].separator \notin Validators[k].body /\ Validators[k].min \in Nat
  BY ValidatorFacts
<1>2. p >= b /\ q >= b
  BY <1>1 DEF Ends
<1>3. ~(p < q)
  BY <1>1, <1>2 DEF Ends, AllIn
<1>4. ~(q < p)
  BY <1>1, <1>2 DEF Ends, AllIn
<1> QED BY <1>3, <1>4

(* A body of segments, said with the end of each.                          *)
IsSegments(v, s, e) ==
  /\ e - s <= v.cap + 1 /\ Room(v, s, e)
  /\ \E p, q \in s + v.begin..e - 1 :
       /\ Ends(v, s + v.begin, p) /\ Ends(v, p + 1, q)
       /\ AllIn(q + 1, e, v.body) /\ e >= q + 1 + v.min

LEMMA SegmentsAre ==
  ASSUME NEW k \in DOMAIN Validators, NEW s \in Int, NEW e \in Int,
         Validators[k].shape = "segments"
  PROVE  IsBody(Validators[k], s, e) <=> IsSegments(Validators[k], s, e)
<1> DEFINE v == Validators[k]
           b == s + v.begin
<1>1. v.min \in Nat /\ v.begin \in Nat
  BY ValidatorFacts
<1> HIDE DEF v
<1>2. ASSUME IsBody(v, s, e)
      PROVE  IsSegments(v, s, e)
  <2>1. /\ e - s <= v.cap + 1 /\ Room(v, s, e)
        /\ \E p, q \in s..e - 1 :
             /\ text[p] = v.separator /\ text[q] = v.separator
             /\ AllIn(b, p, v.body) /\ p >= b + v.min
             /\ AllIn(p + 1, q, v.body) /\ q >= p + 1 + v.min
             /\ AllIn(q + 1, e, v.body) /\ e >= q + 1 + v.min
    BY <1>2 DEF IsBody, v
  <2> QED BY <1>1, <2>1 DEF IsSegments, Ends
<1>3. ASSUME IsSegments(v, s, e)
      PROVE  IsBody(v, s, e)
  <2>1. PICK p, q \in b..e - 1 :
             /\ Ends(v, b, p) /\ Ends(v, p + 1, q)
             /\ AllIn(q + 1, e, v.body) /\ e >= q + 1 + v.min
    BY <1>3 DEF IsSegments
  <2>2. p \in s..e - 1 /\ q \in s..e - 1
    BY <1>1, <2>1
  <2>3. v.shape = "segments" /\ e - s <= v.cap + 1 /\ Room(v, s, e)
    BY <1>3 DEF IsSegments, v
  <2> QED BY <2>1, <2>2, <2>3 DEF IsBody, Ends
<1> QED BY <1>2, <1>3 DEF v

(* A token has one end. *)
LEMMA OneEnd ==
  ASSUME NEW k \in DOMAIN Validators, NEW s \in Int, NEW d \in Int, NEW e \in Int,
         Len(text) \in Nat, d <= Behind, e <= Behind,
         IsBody(Validators[k], s, d), IsBody(Validators[k], s, e)
  PROVE  d = e
<1> DEFINE v == Validators[k]
           b == s + Len(v.prefix)
<1>1. v.shape \in Shapes /\ v.min \in Nat /\ v.cap \in Nat /\ Len(v.prefix) \in Nat /\ v.begin \in Nat
  BY ValidatorFacts
<1>2. CASE v.shape = "fixed"
  BY <1>1, <1>2 DEF IsBody
<1>3. CASE v.shape = "run"
  <2>1. /\ d >= b + v.min /\ AllIn(b, d, v.body) /\ Room(v, s, d) /\ d - s <= v.cap + 1
        /\ e >= b + v.min /\ AllIn(b, e, v.body) /\ Room(v, s, e) /\ e - s <= v.cap + 1
    BY <1>3 DEF IsBody
  <2>2. b \in Int /\ v.min \in Nat
    BY <1>1
  <2>3. d >= b + v.min /\ e >= b + v.min
    BY <2>1
  <2> HIDE DEF b, v
  <2>4. b <= d /\ b <= e
    BY <2>2, <2>3
  <2> USE DEF v
  <2> QED BY <2>1, <2>2, <2>4, SameStop
<1>4. CASE v.shape = "segments"
  <2>1. IsSegments(v, s, d) /\ IsSegments(v, s, e)
    BY <1>4, SegmentsAre
  <2>2. PICK p, q \in s + v.begin..d - 1 :
          /\ Ends(v, s + v.begin, p) /\ Ends(v, p + 1, q)
          /\ AllIn(q + 1, d, v.body) /\ d >= q + 1 + v.min
    BY <2>1 DEF IsSegments
  <2>3. PICK x, y \in s + v.begin..e - 1 :
          /\ Ends(v, s + v.begin, x) /\ Ends(v, x + 1, y)
          /\ AllIn(y + 1, e, v.body) /\ e >= y + 1 + v.min
    BY <2>1 DEF IsSegments
  <2>4. x = p
    <3>1. s + v.begin \in Int /\ p \in Int /\ x \in Int
      BY <1>1
    <3> QED BY <2>2, <2>3, <3>1, SameEnd
  <2>5. y = q
    <3>1. p + 1 \in Int /\ q \in Int /\ y \in Int
      BY <1>1
    <3> QED BY <2>2, <2>3, <2>4, <3>1, SameEnd
  <2>6. /\ d - s <= v.cap + 1 /\ Room(v, s, d)
        /\ e - s <= v.cap + 1 /\ Room(v, s, e)
    BY <2>1 DEF IsSegments
  <2>7. q + 1 \in Int /\ q + 1 <= d /\ q + 1 <= e
    <3>1. s + v.begin \in Int
      BY <1>1
    <3>2. q \in Int /\ q <= d - 1 /\ y \in Int /\ y <= e - 1
      BY <3>1
    <3> QED BY <2>5, <3>2
  <2> QED BY <2>2, <2>3, <2>5, <2>6, <2>7, SameStop
<1> QED BY <1>1, <1>2, <1>3, <1>4 DEF Shapes

(* The end of a body: a candidate goes on exactly if it has one.           *)
Decided ==
  /\ pc' = "context" => end' <= Behind /\ IsBody(V, start, end')
  /\ pc' # "context" => \A e \in 1..Behind : ~IsBody(V, start, e)

LEMMA Reading ==
  ASSUME Numbers, Candidate, pc = "body"
  PROVE  /\ at \in DOMAIN Validators /\ V = Validators[at] /\ V.shape \in Shapes
         /\ V.min \in Nat \ {0} /\ V.cap \in Nat /\ V.begin \in Nat
         /\ Len(V.prefix) \in Nat /\ V.begin <= Len(V.prefix)
         /\ Len(text) \in Nat /\ start \in 1..Len(text) /\ end \in Nat
         /\ start + Len(V.prefix) <= Behind /\ Behind = Len(text) + 1
<1>1. /\ at \in DOMAIN Validators /\ start \in 1..Len(text) /\ Occurs(V.prefix, start)
      /\ text \in Seq(Bytes) /\ end \in Nat
  BY DEF Candidate, Numbers
<1>2. start + Len(V.prefix) <= Behind
  BY <1>1 DEF Occurs
<1> QED BY <1>1, <1>2, ValidatorFacts DEF V, Behind

LEMMA FixedDecided ==
  ASSUME Numbers, Candidate, FixedBody
  PROVE  Decided
<1> DEFINE b == start + Len(V.prefix)
           sound == /\ b + V.min <= Behind
                    /\ AllIn(b, b + V.min, V.body)
                    /\ b + V.min = Behind \/ text[b + V.min] \notin V.boundary
<1>1. /\ pc = "body" /\ V.shape = "fixed" /\ end' = b + V.min
      /\ pc' = "context" <=> sound
  <2>1. /\ pc = "body" /\ V.shape = "fixed" /\ end' = b + V.min
    BY DEF FixedBody
  <2>2. CASE sound
    <3>1. pc' = "context"
      BY <2>2 DEF FixedBody
    <3> QED BY <2>1, <2>2, <3>1
  <2>3. CASE ~sound
    <3>1. pc' = "search"
      BY <2>3 DEF FixedBody
    <3> QED BY <2>1, <2>3, <3>1
  <2> QED BY <2>2, <2>3
<1>2. /\ V.min \in Nat /\ Len(V.prefix) \in Nat /\ b \in Int /\ Behind \in Int
  BY <1>1, Reading
<1>3. \A e : IsBody(V, start, e) <=> /\ e = b + V.min /\ AllIn(b, e, V.body)
                                     /\ e = Behind \/ text[e] \notin V.boundary
  BY <1>1 DEF IsBody
<1> HIDE DEF b
<1>4. pc' = "context" => end' <= Behind /\ IsBody(V, start, end')
  BY <1>1, <1>2, <1>3
<1>5. ASSUME NEW e \in 1..Behind, IsBody(V, start, e)
      PROVE  pc' = "context"
  BY <1>1, <1>2, <1>3, <1>5
<1> QED BY <1>4, <1>5 DEF Decided

LEMMA RunDecided ==
  ASSUME Numbers, Candidate, Reads, EndOfRun
  PROVE  Decided
<1> DEFINE b == start + Len(V.prefix)
           body == SubSeq(text, b, end - 1)
<1>1. /\ pc = "body" /\ V.shape = "run" /\ end' = end
      /\ ~(InReach /\ text[end] \in V.body)
      /\ pc' = "context" <=> /\ Len(body) >= V.min
                             /\ V.inner = {} \/ ToSet(body) \intersect V.inner # {}
  BY DEF EndOfRun, candidate
<1>2. /\ at \in DOMAIN Validators /\ V = Validators[at]
      /\ V.min \in Nat \ {0} /\ V.cap \in Nat /\ b \in Nat /\ b <= Behind
      /\ Len(text) \in Nat /\ start \in 1..Len(text) /\ Behind = Len(text) + 1 /\ end \in Nat
      /\ V.begin = Len(V.prefix)
  BY <1>1, Reading, ValidatorFacts
<1>3. /\ b <= end /\ end <= Behind /\ AllIn(b, end, V.body)
      /\ end - start <= V.cap + 1 \/ end = b
  BY <1>1, <1>2 DEF Reads
<1>4. Room(V, start, end)
  BY <1>1, <1>2, <1>3 DEF Room, InReach
<1>5. \A e : IsBody(V, start, e) <=> /\ e >= b + V.min /\ AllIn(b, e, V.body) /\ Room(V, start, e)
                                     /\ e - start <= V.cap + 1
                                     /\ V.inner = {} \/ \E i \in b..e - 1 : text[i] \in V.inner
  BY <1>1 DEF IsBody
<1>6. Len(body) = end - b /\ (ToSet(body) \intersect V.inner # {}
                                <=> \E i \in b..end - 1 : text[i] \in V.inner)
  <2>1. b >= 1 /\ end - 1 <= Len(text) /\ end - 1 >= b - 1
    BY <1>2, <1>3
  <2>2. text \in Seq(Bytes) /\ b \in Int /\ end - 1 \in Int
    BY <1>2 DEF Numbers
  <2> HIDE DEF b
  <2>3. /\ Len(body) = end - b /\ DOMAIN body = 1..end - b
        /\ \A i \in 1..end - b : body[i] = text[b + i - 1]
    BY <1>2, <2>1, <2>2
  <2> HIDE DEF body
  <2>5. ASSUME NEW i \in b..end - 1
        PROVE  i - b + 1 \in 1..end - b /\ body[i - b + 1] = text[i]
    <3>1. i - b + 1 \in 1..end - b
      BY <1>2, <2>2
    <3> QED BY <1>2, <2>2, <2>3, <3>1
  <2>6. \A i \in 1..end - b : b + i - 1 \in b..end - 1
    BY <1>2, <2>2
  <2> QED BY <2>3, <2>5, <2>6 DEF ToSet
<1> HIDE DEF b, body
<1>7. ASSUME pc' = "context"
      PROVE  end' <= Behind /\ IsBody(V, start, end')
  <2>1. end - b >= V.min /\ (V.inner = {} \/ \E i \in b..end - 1 : text[i] \in V.inner)
    BY <1>1, <1>6, <1>7
  <2>2. end >= b + V.min /\ end - start <= V.cap + 1
    BY <1>2, <1>3, <2>1
  <2>3. IsBody(V, start, end)
    BY <1>3, <1>4, <1>5, <2>1, <2>2
  <2> QED BY <1>1, <1>3, <2>3
<1>8. ASSUME NEW e \in 1..Behind, IsBody(V, start, e)
      PROVE  pc' = "context"
  <2>1. e >= b + V.min /\ AllIn(b, e, V.body) /\ Room(V, start, e) /\ e - start <= V.cap + 1
    BY <1>5, <1>8
  <2>2. e = end
    <3>1. b \in Int /\ end \in Int /\ e \in Int /\ start \in Int /\ e <= Behind /\ V.min \in Nat
      BY <1>2
    <3>2. b <= e
      BY <2>1, <3>1
    <3>3. /\ at \in DOMAIN Validators /\ V = Validators[at] /\ Len(text) \in Nat
          /\ b <= end /\ end <= Behind /\ AllIn(b, end, V.body)
          /\ end - start <= V.cap + 1 \/ end = b
      BY <1>2, <1>3
    <3> QED BY <1>4, <2>1, <3>1, <3>2, <3>3, SameStop
  <2>3. end >= b + V.min /\ (V.inner = {} \/ \E i \in b..end - 1 : text[i] \in V.inner)
    BY <1>5, <1>8, <2>2
  <2>4. end - b >= V.min
    <3>1. b \in Int /\ end \in Int /\ V.min \in Nat
      BY <1>2
    <3> QED BY <2>3, <3>1
  <2>5. Len(body) >= V.min /\ (V.inner = {} \/ ToSet(body) \intersect V.inner # {})
    BY <1>6, <2>3, <2>4
  <2> QED BY <1>1, <2>5
<1> QED BY <1>7, <1>8 DEF Decided

LEMMA AtSeparator ==
  ASSUME NEW k \in DOMAIN Validators,
         NEW s \in Int, NEW b \in Int, NEW m \in Int, NEW p \in Int,
         Len(text) \in Nat, b <= m, m <= Behind, p < Behind, p - s <= Validators[k].cap,
         AllIn(b, m, Validators[k].body), Ends(Validators[k], b, p),
         m - s <= Validators[k].cap + 1 \/ m = b, Room(Validators[k], s, m)
  PROVE  m = p /\ m - b >= Validators[k].min
<1>1. /\ Validators[k].separator \notin Validators[k].body /\ Validators[k].min \in Nat
      /\ Validators[k].cap \in Nat
  BY ValidatorFacts
<1>2. p >= b + Validators[k].min /\ AllIn(b, p, Validators[k].body)
      /\ text[p] = Validators[k].separator
  BY DEF Ends
<1>3. b <= p /\ p <= Behind /\ p - s <= Validators[k].cap + 1 /\ Room(Validators[k], s, p)
  BY <1>1, <1>2 DEF Room, Behind
<1>4. m = p
  BY <1>2, <1>3, SameStop
<1> QED BY <1>1, <1>2, <1>4

LEMMA SegmentsDecided ==
  ASSUME Numbers, Candidate, Reads, EndOfSegments
  PROVE  Decided
<1> DEFINE b == start + V.begin
<1>1. /\ pc = "body" /\ V.shape = "segments" /\ end' = end
      /\ ~(InReach /\ text[end] \in V.body) /\ ~Separates
      /\ pc' = "context" <=> segments = 2 /\ segment_len >= V.min
  BY DEF EndOfSegments, candidate
<1>2. /\ at \in DOMAIN Validators /\ V = Validators[at]
      /\ V.min \in Nat \ {0} /\ V.cap \in Nat /\ b \in Nat /\ b <= Behind
      /\ Len(text) \in Nat /\ start \in 1..Len(text) /\ Behind = Len(text) + 1 /\ end \in Nat
      /\ V.begin \in Nat /\ segments \in 0..2 /\ segment_len \in Nat
  <2>1. segments \in 0..2 /\ segment_len \in Nat
    BY DEF Numbers
  <2>2. /\ at \in DOMAIN Validators /\ V = Validators[at]
        /\ V.min \in Nat \ {0} /\ V.cap \in Nat /\ V.begin \in Nat
        /\ Len(V.prefix) \in Nat /\ V.begin <= Len(V.prefix)
        /\ Len(text) \in Nat /\ start \in 1..Len(text) /\ end \in Nat
        /\ start + Len(V.prefix) <= Behind /\ Behind = Len(text) + 1
    BY <1>1, Reading
  <2>3. b \in Nat /\ b <= Behind
    BY <2>2
  <2> QED BY <2>1, <2>2, <2>3
<1>3. /\ b <= end /\ end <= Behind /\ ReadSegments(V, b, segments, end, segment_len)
      /\ end - start <= V.cap + 1 \/ end = b
  BY <1>1, <1>2 DEF Reads
<1>4. Room(V, start, end)
  BY <1>1, <1>2, <1>3 DEF Room, InReach
<1>5. \A e \in Int : IsBody(V, start, e) <=> IsSegments(V, start, e)
  <2>1. Validators[at].shape = "segments" /\ start \in Int
    BY <1>1, <1>2
  <2> QED BY <1>2, <2>1, SegmentsAre
<1> HIDE DEF b
<1>6. ASSUME pc' = "context"
      PROVE  end' <= Behind /\ IsBody(V, start, end')
  <2>1. segments = 2 /\ segment_len >= V.min
    BY <1>1, <1>6
  <2>2. PICK p, q \in b..end - 1 :
       /\ Ends(V, b, p) /\ Ends(V, p + 1, q)
       /\ AllIn(q + 1, end, V.body) /\ segment_len = end - (q + 1)
    BY <1>3, <2>1 DEF ReadSegments
  <2>3. end >= q + 1 + V.min /\ end - start <= V.cap + 1
    <3>1. b \in Int /\ end \in Int /\ V.min \in Nat
      BY <1>2
    <3>2. q \in Int /\ b <= q /\ q <= end - 1
      BY <3>1
    <3>3. end # b
      BY <3>1, <3>2
    <3>4. end >= q + 1 + V.min
      BY <2>1, <2>2, <3>1, <3>2
    <3> QED BY <1>3, <3>3, <3>4
  <2>4. IsSegments(V, start, end)
    BY <1>4, <2>2, <2>3 DEF IsSegments, b
  <2> QED BY <1>1, <1>2, <1>3, <1>5, <2>4
<1>7. ASSUME NEW e \in 1..Behind, IsBody(V, start, e), pc' # "context"
      PROVE  FALSE
  <2>1. /\ e - start <= V.cap + 1 /\ Room(V, start, e)
        /\ \E p, q \in b..e - 1 :
             /\ Ends(V, b, p) /\ Ends(V, p + 1, q)
             /\ AllIn(q + 1, e, V.body) /\ e >= q + 1 + V.min
    BY <1>2, <1>5, <1>7 DEF IsSegments, b
  <2>2. PICK p, q \in b..e - 1 :
             /\ Ends(V, b, p) /\ Ends(V, p + 1, q)
             /\ AllIn(q + 1, e, V.body) /\ e >= q + 1 + V.min
    BY <2>1
  <2>3. /\ p \in Int /\ q \in Int /\ p < Behind /\ q < Behind
        /\ p - start <= V.cap /\ q - start <= V.cap /\ start \in Int /\ b \in Int /\ end \in Int
    <3>1. start \in Int /\ b \in Int /\ end \in Int /\ e \in Int /\ e <= Behind /\ Behind \in Int
          /\ V.cap \in Int
      BY <1>2
    <3>2. p \in Int /\ q \in Int /\ p <= e - 1 /\ q <= e - 1
      BY <3>1
    <3> QED BY <2>1, <3>1, <3>2
  <2>4. text[p] = V.separator /\ text[q] = V.separator
    BY <2>2 DEF Ends
  <2>5. CASE segments = 0
    <3>1. AllIn(b, end, V.body) /\ segment_len = end - b
      BY <1>3, <2>5 DEF ReadSegments
    <3>2. end = p /\ end - b >= V.min
      BY <1>2, <1>3, <1>4, <2>2, <2>3, <3>1, AtSeparator
    <3>3. InReach
      BY <1>2, <2>3, <3>2 DEF InReach
    <3> QED BY <1>1, <2>4, <2>5, <3>1, <3>2, <3>3 DEF Separates
  <2>6. CASE segments = 1
    <3>1. PICK x \in b..end - 1 :
            Ends(V, b, x) /\ AllIn(x + 1, end, V.body) /\ segment_len = end - (x + 1)
      BY <1>3, <2>6 DEF ReadSegments
    <3>2. x = p
      <4>1. x \in Int
        BY <3>1
      <4> QED BY <1>2, <2>2, <2>3, <3>1, <4>1, SameEnd
    <3>3. /\ p + 1 \in Int /\ p + 1 <= end /\ AllIn(p + 1, end, V.body)
          /\ segment_len = end - (p + 1) /\ end - start <= V.cap + 1
      BY <1>2, <1>3, <2>3, <3>1, <3>2, SMTT(30)
    <3>4. end = q /\ end - (p + 1) >= V.min
      BY <1>2, <1>3, <1>4, <2>2, <2>3, <3>3, AtSeparator
    <3>5. InReach
      BY <1>2, <2>3, <3>4 DEF InReach
    <3> QED BY <1>1, <2>4, <2>6, <3>3, <3>4, <3>5 DEF Separates
  <2>7. CASE segments = 2
    <3>1. PICK x, y \in b..end - 1 :
            /\ Ends(V, b, x) /\ Ends(V, x + 1, y)
            /\ AllIn(y + 1, end, V.body) /\ segment_len = end - (y + 1)
      BY <1>3, <2>7 DEF ReadSegments
    <3>2. x = p
      <4>1. x \in Int
        BY <3>1
      <4> QED BY <1>2, <2>2, <2>3, <3>1, <4>1, SameEnd
    <3>3. y = q
      <4>1. y \in Int /\ p + 1 \in Int
        BY <2>3, <3>1
      <4> QED BY <1>2, <2>2, <2>3, <3>1, <3>2, <4>1, SameEnd
    <3>4. /\ q + 1 \in Int /\ q + 1 <= end /\ q + 1 <= e /\ AllIn(q + 1, end, V.body)
          /\ segment_len = end - (q + 1) /\ end - start <= V.cap + 1 /\ e \in Int /\ e <= Behind
      <4>1. /\ y \in Int /\ y <= end - 1 /\ y >= b /\ e \in Int /\ e <= Behind /\ q <= e - 1
            /\ segment_len = end - (y + 1) /\ AllIn(y + 1, end, V.body)
        BY <1>2, <2>2, <2>3, <3>1
      <4>2. end - start <= V.cap + 1
        BY <1>2, <1>3, <2>3, <4>1
      <4> QED BY <2>3, <3>3, <4>1, <4>2
    <3>5. end = e
      BY <1>2, <1>3, <1>4, <2>1, <2>2, <2>3, <3>4, SameStop
    <3>6. segment_len >= V.min
      <4>1. e >= q + 1 + V.min /\ segment_len = e - (q + 1) /\ V.min \in Int /\ q \in Int /\ e \in Int
        <5>1. V.min \in Int
          BY <1>2
        <5>2. e >= q + 1 + V.min /\ e \in Int /\ q \in Int
          BY <2>2, <2>3, <3>4
        <5>3. segment_len = e - (q + 1)
          BY <3>4, <3>5
        <5> QED BY <5>1, <5>2, <5>3
      <4> QED BY <4>1
    <3> QED BY <1>1, <1>7, <2>7, <3>6
  <2> QED BY <1>2, <2>5, <2>6, <2>7
<1> QED BY <1>6, <1>7 DEF Decided

-----------------------------------------------------------------------------
(* Steps. *)

LEMMA TextStays ==
  ASSUME [Next]_vars
  PROVE  text' = text
BY DEF Next, Pem, Token, vars, candidate, block, PemHeader, PemFooter, PemNoFooter, PemLine,
       PemRefused, PemReport, PemDone, NextBlock, Reject, SkipMidToken, StartToken, FixedBody,
       BodyByte, EndOfRun, EndOfSegment, EndOfSegments, DocumentedToken, ReportToken,
       NextValidator, AllDone, Sort

(* scan_pem keeps out of the other validators' part of the state.          *)
LEMMA PemSteps ==
  ASSUME Pem
  PROVE  /\ pc \in {"pem", "footer", "lines"} /\ at' = at
         /\ \/ pc' \in {"pem", "footer", "lines"} /\ (PemReport \/ out' = out)
            \/ PemDone
BY DEF Pem, PemHeader, PemFooter, PemNoFooter, PemLine, PemRefused, PemReport, PemDone, NextBlock,
       candidate, block

(* ... and they out of its, and of each other's candidates.                *)
BodyStep == FixedBody \/ BodyByte \/ EndOfRun \/ EndOfSegment \/ EndOfSegments

LEMMA BodySteps ==
  ASSUME BodyStep
  PROVE  /\ pc = "body" /\ pc' \in {"body", "context", "search"}
         /\ UNCHANGED <<at, from, start, out>>
BY DEF BodyStep, FixedBody, BodyByte, EndOfRun, EndOfSegment, EndOfSegments, candidate

LEMMA SearchSteps ==
  ASSUME SkipMidToken \/ NextValidator \/ AllDone \/ DocumentedToken \/ ReportToken
  PROVE  pc \in {"search", "context"} /\ pc' \in {"search", "sort"}
BY DEF SkipMidToken, NextValidator, AllDone, DocumentedToken, Reject, ReportToken

LEMMA TokenSteps ==
  ASSUME Token
  PROVE  \/ StartToken \/ BodyStep
         \/ SkipMidToken \/ NextValidator \/ AllDone \/ DocumentedToken \/ ReportToken
BY DEF Token, BodyStep

LEMMA Sorted ==
  ASSUME Sort
  PROVE  ToSet(out') = ToSet(out) /\ pc = "sort" /\ pc' = "done"
<1>1. PICK p \in Bijection(DOMAIN out, DOMAIN out) : out' = [i \in DOMAIN out |-> out[p[i]]]
  BY DEF Sort
<1>2. /\ \A i \in DOMAIN out : p[i] \in DOMAIN out
      /\ \A j \in DOMAIN out : \E i \in DOMAIN out : p[i] = j
  BY DEF Bijection, Injection, Surjection, IsInjective
<1>3. ToSet(out') = ToSet(out)
  BY <1>1, <1>2 DEF ToSet
<1> QED BY <1>3 DEF Sort

LEMMA NextCandidate ==
  ASSUME Numbers, Candidate, [Next]_vars
  PROVE  Candidate'
<1>1. text' = text
  BY TextStays
<1>2. CASE Pem \/ Sort
  BY <1>2, PemSteps, Sorted DEF Candidate, PemDone
<1>3. CASE BodyStep \/ UNCHANGED vars
  <2>1. UNCHANGED <<at, from, start>> /\ (pc' \in {"body", "context"} => pc \in {"body", "context"})
    BY <1>3, BodySteps DEF vars, candidate
  <2>2. V' = V
    BY <2>1 DEF V
  <2>3. SUFFICES ASSUME pc' \in {"body", "context"}
                 PROVE  /\ at' \in DOMAIN Validators /\ start' \in 1..Len(text') /\ from' = start' + 1
                        /\ Occurs(V.prefix, start)' /\ ~MidToken(V, start)'
    BY DEF Candidate
  <2> QED BY <1>1, <2>1, <2>2, <2>3, SameText DEF Candidate
<1>4. CASE StartToken
  <2>1. PICK s \in from..Len(text) :
          /\ IsNext(V.prefix, s) /\ ~MidToken(V, s) /\ from' = s + 1 /\ start' = s
    BY <1>4 DEF StartToken
  <2>2. at \in DOMAIN Validators /\ at' = at /\ V' = V
    BY <1>4 DEF StartToken, V
  <2>3. from \in Nat \ {0} /\ Len(text) \in Nat
    BY DEF Numbers
  <2>4. Occurs(V.prefix, s)
    BY <2>1 DEF IsNext
  <2>5. Occurs(V.prefix, start)' /\ ~MidToken(V, start)'
    BY <1>1, <2>1, <2>2, <2>4, SameText
  <2> QED BY <1>1, <2>1, <2>2, <2>3, <2>5 DEF Candidate
<1>5. CASE SkipMidToken \/ NextValidator \/ AllDone \/ DocumentedToken \/ ReportToken
  BY <1>5, SearchSteps DEF Candidate
<1> QED BY <1>2, <1>3, <1>4, <1>5, TokenSteps DEF Next

LEMMA NothingRead ==
  ASSUME NEW a \in Int, NEW S
  PROVE  AllIn(a, a, S)
BY DEF AllIn

LEMMA OneMoreRead ==
  ASSUME NEW a \in Int, NEW m \in Int, NEW S, AllIn(a, m, S), text[m] \in S
  PROVE  AllIn(a, m + 1, S)
BY DEF AllIn

LEMMA MoreOfASegment ==
  ASSUME NEW v, NEW b \in Int, NEW n \in 0..2, NEW e \in Int, NEW l \in Int,
         ReadSegments(v, b, n, e, l), text[e] \in v.body
  PROVE  ReadSegments(v, b, n, e + 1, l + 1)
<1> DEFINE d == e + 1
           m == l + 1
<1>1. /\ d \in Int /\ m \in Int /\ \A a \in Int : AllIn(a, e, v.body) => AllIn(a, d, v.body)
      /\ \A a \in Int : l = e - a => m = d - a
      /\ \A p \in b..e - 1 : p \in b..d - 1 /\ p \in Int /\ p + 1 \in Int
  BY OneMoreRead
<1> HIDE DEF d, m
<1>2. CASE n = 0
  <2>1. AllIn(b, e, v.body) /\ l = e - b
    BY <1>2 DEF ReadSegments
  <2>2. AllIn(b, d, v.body) /\ m = d - b
    BY <1>1, <2>1
  <2>3. ReadSegments(v, b, n, d, m)
    BY <1>2, <2>2 DEF ReadSegments
  <2> QED BY <2>3 DEF d, m
<1>3. CASE n = 1
  <2>1. PICK p \in b..e - 1 : Ends(v, b, p) /\ AllIn(p + 1, e, v.body) /\ l = e - (p + 1)
    BY <1>3 DEF ReadSegments
  <2>2. p \in b..d - 1 /\ AllIn(p + 1, d, v.body) /\ m = d - (p + 1)
    BY <1>1, <2>1
  <2>3. ReadSegments(v, b, n, d, m)
    BY <1>3, <2>1, <2>2 DEF ReadSegments
  <2> QED BY <2>3 DEF d, m
<1>4. CASE n = 2
  <2>1. PICK p, q \in b..e - 1 :
          Ends(v, b, p) /\ Ends(v, p + 1, q) /\ AllIn(q + 1, e, v.body) /\ l = e - (q + 1)
    BY <1>4 DEF ReadSegments
  <2>2. p \in b..d - 1 /\ q \in b..d - 1 /\ AllIn(q + 1, d, v.body) /\ m = d - (q + 1)
    BY <1>1, <2>1
  <2>3. ReadSegments(v, b, n, d, m)
    BY <1>4, <2>1, <2>2 DEF ReadSegments
  <2> QED BY <2>3 DEF d, m
<1> QED BY <1>2, <1>3, <1>4

LEMMA EndOfASegment ==
  ASSUME NEW v, NEW b \in Int, NEW n \in 0..1, NEW e \in Int, NEW l \in Int,
         b <= e, v.min \in Int, l >= v.min, ReadSegments(v, b, n, e, l), text[e] = v.separator
  PROVE  ReadSegments(v, b, n + 1, e + 1, 0)
<1> DEFINE d == e + 1
<1>1. /\ d \in Int /\ AllIn(d, d, v.body) /\ 0 = d - (e + 1) /\ d = e + 1
      /\ e \in b..d - 1 /\ \A p \in b..e - 1 : p \in b..d - 1 /\ p \in Int /\ p + 1 \in Int
  BY NothingRead
<1> HIDE DEF d
<1>2. CASE n = 0
  <2>1. AllIn(b, e, v.body) /\ e >= b + v.min
    BY <1>2 DEF ReadSegments
  <2>2. Ends(v, b, e)
    BY <2>1 DEF Ends
  <2>3. ReadSegments(v, b, 1, d, 0)
    BY <1>1, <2>2 DEF ReadSegments
  <2> QED BY <1>2, <2>3 DEF d
<1>3. CASE n = 1
  <2>1. PICK p \in b..e - 1 : Ends(v, b, p) /\ AllIn(p + 1, e, v.body) /\ l = e - (p + 1)
    BY <1>3 DEF ReadSegments
  <2>2. p \in Int /\ e >= p + 1 + v.min
    BY <2>1
  <2>3. Ends(v, p + 1, e)
    BY <2>1, <2>2 DEF Ends
  <2>4. ReadSegments(v, b, 2, d, 0)
    BY <1>1, <2>1, <2>3 DEF ReadSegments
  <2> QED BY <1>3, <2>4 DEF d
<1> QED BY <1>2, <1>3

LEMMA NextReads ==
  ASSUME Numbers, Candidate, Reads, [Next]_vars
  PROVE  Reads'
<1>1. text' = text
  BY TextStays
<1>2. CASE Pem \/ Sort
  BY <1>2, PemSteps, Sorted DEF Reads, PemDone
<1>3. CASE UNCHANGED vars
  <2>1. UNCHANGED <<pc, at, start, end, segments, segment_len>> /\ V' = V
    BY <1>3 DEF vars, candidate, V
  <2> QED BY <1>1, <2>1, SameText DEF Reads
<1>4. CASE SkipMidToken \/ NextValidator \/ AllDone \/ DocumentedToken \/ ReportToken
  BY <1>4, SearchSteps DEF Reads
<1>5. CASE FixedBody \/ EndOfRun \/ EndOfSegments
  BY <1>5 DEF Reads, FixedBody, EndOfRun, EndOfSegments
<1>6. CASE StartToken
  <2>1. PICK s \in from..Len(text) : 
          IsNext(V.prefix, s) /\ start' = s /\ end' = s + V.begin
    BY <1>6 DEF StartToken
  <2>2. /\ at \in DOMAIN Validators /\ at' = at /\ V' = V /\ segments' = 0 /\ segment_len' = 0
        /\ pc' = "body"
    BY <1>6 DEF StartToken, V
  <2>3. /\ V.begin \in 0..Len(V.prefix) /\ V.begin \in Nat /\ Len(V.prefix) \in Nat
        /\ V.shape = "run" => V.begin = Len(V.prefix)
    BY <2>2, ValidatorFacts DEF V
  <2>4. from \in Nat \ {0} /\ Len(text) \in Nat /\ Behind = Len(text) + 1
    BY DEF Numbers, Behind
  <2>5. s + Len(V.prefix) <= Behind
    BY <2>1 DEF IsNext, Occurs
  <2>6. s + V.begin \in Int /\ s + V.begin <= Behind
    BY <2>1, <2>3, <2>4, <2>5
  <2>7. AllIn(s + V.begin, s + V.begin, V.body)
    BY <2>6, NothingRead
  <2>8. AllIn(start + V.begin, end, V.body)'
    BY <1>1, <2>1, <2>2, <2>7, SameText
  <2>9. ReadSegments(V, start + V.begin, segments, end, segment_len)'
    <3>1. ReadSegments(V, s + V.begin, 0, s + V.begin, 0)
      BY <2>6, <2>7 DEF ReadSegments
    <3> QED BY <1>1, <2>1, <2>2, <3>1, SameText
  <2>10. Behind' = Behind
    BY <1>1, SameText
  <2>11. end' \in start' + V.begin..Behind
    BY <2>1, <2>4, <2>6
  <2> QED BY <2>1, <2>2, <2>8, <2>9, <2>10, <2>11 DEF Reads
<1>7. CASE BodyByte
  <2> DEFINE b == start + V.begin
  <2>1. /\ pc = "body" /\ V.shape # "fixed" /\ end <= Len(text) /\ end - start <= V.cap
        /\ text[end] \in V.body /\ end' = end + 1 /\ segment_len' = segment_len + 1
        /\ UNCHANGED <<at, pc, start, segments>> /\ V' = V
    BY <1>7 DEF BodyByte, InReach, V
  <2>2. /\ V.begin \in Nat /\ V.cap \in Nat /\ b \in Nat /\ Len(text) \in Nat /\ end \in Nat
        /\ start \in Nat /\ Behind = Len(text) + 1 /\ segment_len \in Nat
    BY <2>1, Reading, SMTT(30) DEF Numbers
  <2>3. end \in b..Behind /\ (V.shape = "run" => AllIn(b, end, V.body))
        /\ (V.shape # "run" => ReadSegments(V, b, segments, end, segment_len))
    BY <2>1 DEF Reads
  <2>4. b' = b /\ Behind' = Behind
    BY <1>1, <2>1, SameText
  <2> HIDE DEF b
  <2>5. \A a \in Int : AllIn(a, end, V.body) => AllIn(a, end + 1, V.body)
    BY <2>1, <2>2, OneMoreRead
  <2>6. (V.shape = "run") => AllIn(b, end, V.body)'
    BY <1>1, <2>1, <2>2, <2>3, <2>4, <2>5, SameText, SMTT(30)
  <2>7. (V.shape # "run") => ReadSegments(V, b, segments, end + 1, segment_len + 1)
    <3>1. segments \in 0..2
      BY DEF Numbers
    <3>2. b \in Int /\ end \in Int /\ segment_len \in Int /\ text[end] \in V.body
      BY <2>1, <2>2
    <3> QED BY <2>3, <3>1, <3>2, MoreOfASegment
  <2>8. end' \in b..Behind /\ end' - start <= V.cap + 1
    BY <2>1, <2>2, <2>3
  <2>9. (V.shape # "run") => ReadSegments(V, b, segments, end, segment_len)'
    BY <1>1, <2>1, <2>4, <2>7, SameText
  <2> QED BY <2>1, <2>4, <2>6, <2>8, <2>9 DEF Reads, b
<1>8. CASE EndOfSegment
  <2> DEFINE b == start + V.begin
  <2>1. /\ pc = "body" /\ V.shape = "segments" /\ end <= Len(text) /\ end - start <= V.cap
        /\ text[end] = V.separator /\ segment_len >= V.min /\ segments < 2
        /\ end' = end + 1 /\ segment_len' = 0 /\ segments' = segments + 1
        /\ UNCHANGED <<at, pc, start>> /\ V' = V
    BY <1>8 DEF EndOfSegment, Separates, InReach, V
  <2>2. /\ V.begin \in Nat /\ V.cap \in Nat /\ b \in Nat /\ Len(text) \in Nat /\ end \in Nat
        /\ start \in Nat /\ Behind = Len(text) + 1 /\ segment_len \in Nat /\ V.min \in Nat
    <3>1. /\ V.begin \in Nat /\ V.cap \in Nat /\ V.min \in Nat /\ Len(text) \in Nat
          /\ start \in 1..Len(text) /\ Behind = Len(text) + 1
      BY <2>1, Reading
    <3>2. start \in Nat
      BY <3>1
    <3>3. b \in Nat
      BY <3>1, <3>2
    <3>4. end \in Nat /\ segment_len \in Nat
      BY DEF Numbers
    <3> QED BY <3>1, <3>2, <3>3, <3>4
  <2>3. end \in b..Behind /\ ReadSegments(V, b, segments, end, segment_len)
    BY <2>1 DEF Reads
  <2>4. b' = b /\ Behind' = Behind
    BY <1>1, <2>1, SameText
  <2> HIDE DEF b
  <2>5. segments \in 0..1
    BY <2>1 DEF Numbers
  <2>6. ReadSegments(V, b, segments + 1, end + 1, 0)
    BY <2>1, <2>2, <2>3, <2>5, EndOfASegment, SMTT(30)
  <2>8. end' \in b..Behind /\ end' - start <= V.cap + 1
    <3>1. end' = end + 1 /\ end <= Len(text) /\ end - start <= V.cap
      BY <2>1
    <3>2. end \in b..Behind
      BY <2>3
    <3> QED BY <2>2, <3>1, <3>2
  <2>9. V.shape # "run" /\ ReadSegments(V, b, segments, end, segment_len)'
    BY <1>1, <2>1, <2>4, <2>6, SameText
  <2> QED BY <2>1, <2>4, <2>8, <2>9 DEF Reads, b
<1> QED BY <1>2, <1>3, <1>4, <1>5, <1>6, <1>7, <1>8, TokenSteps DEF Next, BodyStep

LEMMA NextJudged ==
  ASSUME Numbers, Candidate, Reads, Judged, [Next]_vars
  PROVE  Judged'
<1>1. text' = text
  BY TextStays
<1>2. SUFFICES ASSUME pc' = "context"
               PROVE  end' <= Behind /\ IsBody(V, start, end')
                      /\ UNCHANGED <<at, start>>
  <2>1. UNCHANGED <<at, start>> => V' = V /\ start' = start
    BY DEF V
  <2> QED BY <1>1, <1>2, <2>1, SameText DEF Judged
<1>3. BodyStep \/ UNCHANGED vars
  BY <1>2, PemSteps, Sorted, SearchSteps, TokenSteps DEF Next, StartToken, PemDone
<1>4. CASE UNCHANGED vars
  BY <1>2, <1>4 DEF vars, candidate, Judged
<1>5. CASE FixedBody \/ EndOfRun \/ EndOfSegments
  BY <1>2, <1>5, FixedDecided, RunDecided, SegmentsDecided, BodySteps DEF Decided, BodyStep
<1>6. CASE BodyByte \/ EndOfSegment
  BY <1>2, <1>6 DEF BodyByte, EndOfSegment
<1> QED BY <1>3, <1>4, <1>5, <1>6 DEF BodyStep

LEMMA SameBlocks ==
  ASSUME text' = text
  PROVE  /\ \A s, e, r : Documented(s, e, r)' <=> Documented(s, e, r)
         /\ \A i, e : IsDelimiterEnd(i, e)' <=> IsDelimiterEnd(i, e)
         /\ \A i, e : HasKind(i, e)' <=> HasKind(i, e)
         /\ \A h, f : IsFirstFooter(h, f)' <=> IsFirstFooter(h, f)
         /\ \A s, e : IsBlock(s, e)' <=> IsBlock(s, e)
         /\ \A f : KeyOf(f)' <=> KeyOf(f)
         /\ \A h, f, l : LinesRead(h, f, l)' <=> LinesRead(h, f, l)
<1>1. Behind' = Behind
  BY DEF Behind
<1>2. \A s, e, r : Documented(s, e, r)' <=> Documented(s, e, r)
  BY DEF Documented
<1>3. \A i, stop, e : IsLineEnd(i, stop, e)' <=> IsLineEnd(i, stop, e)
  BY DEF IsLineEnd
<1>4. \A i, e : IsDelimiterEnd(i, e)' <=> IsDelimiterEnd(i, e)
  BY <1>1, <1>3 DEF IsDelimiterEnd
<1>5. \A i, e : HasKind(i, e)' <=> HasKind(i, e)
  BY DEF HasKind
<1>6. \A h, f : IsFirstFooter(h, f)' <=> IsFirstFooter(h, f)
  BY <1>1 DEF IsFirstFooter
<1>7. \A s, e : IsBlock(s, e)' <=> IsBlock(s, e)
  BY <1>1, <1>2, <1>4, <1>5, <1>6 DEF IsBlock
<1>8. \A f : KeyOf(f)' <=> KeyOf(f)
  BY <1>1, <1>7 DEF KeyOf, TailOf
<1>9. \A h, f, l : LinesRead(h, f, l)' <=> LinesRead(h, f, l)
  BY DEF LinesRead, IsLineByte
<1> QED BY <1>2, <1>4, <1>5, <1>6, <1>7, <1>8, <1>9

LEMMA NextComplete ==
  ASSUME Numbers, Candidate, Reads, Judged, InBlock, Complete, [Next]_vars
  PROVE  Complete'
<1> DEFINE Found(set, k, s, e) ==
      \E f \in set : f.rule = Validators[k].rule /\ f.start = s /\ f.end = e
<1>1. text' = text /\ Behind' = Behind
  BY TextStays, SameText
<1>2. /\ Len(text) \in Nat /\ Behind = Len(text) + 1 /\ from \in 1..Behind
      /\ at \in 1..Len(Validators) + 1
      /\ DOMAIN Validators = 1..Len(Validators) /\ Len(Validators) \in Nat
  BY ValidatorsAreAList DEF Numbers, Behind
<1>3. SUFFICES ASSUME NEW k \in DOMAIN Validators, NEW s \in 1..Len(text), NEW e \in 1..Behind,
                      Passed(k, s)', IsToken(Validators[k], s, e)
               PROVE  Found(ToSet(out'), k, s, e)
  <2>1. \A k \in DOMAIN Validators, s \in 1..Len(text), e \in 1..Behind :
          IsToken(Validators[k], s, e)' => IsToken(Validators[k], s, e)
    BY <1>1, SameText
  <2> QED BY <1>1, <1>3, <2>1 DEF Complete
<1>4. Passed(k, s) => Found(ToSet(out), k, s, e)
  BY <1>3 DEF Complete
<1>5. Occurs(Validators[k].prefix, s) /\ ~MidToken(Validators[k], s) /\ ~Documented(s, e, Radius)
      /\ IsBody(Validators[k], s, e)
  BY <1>3 DEF IsToken
<1>6. CASE Pem
  BY <1>2, <1>3, <1>6, PemSteps DEF Passed, PemDone, InBlock
<1>7. CASE SkipMidToken
  <2>1. PICK i \in from..Len(text) : IsNext(V.prefix, i) /\ MidToken(V, i) /\ from' = i + 1
    BY <1>7 DEF SkipMidToken
  <2>2. pc = "search" /\ pc' = "search" /\ at' = at /\ out' = out
    BY <1>7 DEF SkipMidToken
  <2>3. k < at \/ (k = at /\ s < i + 1)
    BY <1>3, <2>1, <2>2 DEF Passed
  <2>4. ASSUME k = at, s >= from
        PROVE  FALSE
    <3>1. s \in from..i - 1 \/ s = i
      BY <1>2, <2>1, <2>3, <2>4
    <3> QED BY <1>5, <2>1, <2>4, <3>1 DEF IsNext, V
  <2>5. Passed(k, s)
    BY <1>2, <2>2, <2>3, <2>4 DEF Passed
  <2> QED BY <1>4, <2>2, <2>5
<1>8. CASE StartToken
  <2>1. PICK i \in from..Len(text) : IsNext(V.prefix, i) /\ from' = i + 1 /\ start' = i
    BY <1>8 DEF StartToken
  <2>2. pc = "search" /\ pc' = "body" /\ at' = at /\ out' = out
    BY <1>8 DEF StartToken
  <2>3. k < at \/ (k = at /\ s < i + 1 /\ s # i)
    BY <1>3, <2>1, <2>2 DEF Passed
  <2>4. ASSUME k = at, s >= from
        PROVE  FALSE
    <3>1. s \in from..i - 1
      BY <1>2, <2>1, <2>3, <2>4
    <3> QED BY <1>5, <2>1, <2>4, <3>1 DEF IsNext, V
  <2>5. Passed(k, s)
    BY <1>2, <2>2, <2>3, <2>4 DEF Passed
  <2> QED BY <1>4, <2>2, <2>5
<1>9. CASE BodyStep
  <2>1. /\ pc = "body" /\ pc' \in {"body", "context", "search"}
        /\ UNCHANGED <<at, from, start, out>>
    BY <1>9, BodySteps
  <2>2. Passed(k, s) \/ (k = at /\ s = start /\ pc' = "search")
    BY <1>3, <2>1 DEF Passed
  <2>3. ASSUME k = at, s = start, pc' = "search"
        PROVE  FALSE
    <3>1. FixedBody \/ EndOfRun \/ EndOfSegments
      BY <1>9, <2>3 DEF BodyStep, BodyByte, EndOfSegment
    <3>2. Decided
      BY <3>1, FixedDecided, RunDecided, SegmentsDecided
    <3> QED BY <1>5, <2>3, <3>2 DEF Decided, V
  <2> QED BY <1>4, <2>1, <2>2, <2>3
<1>10. CASE DocumentedToken
  <2>1. pc = "context" /\ pc' = "search" /\ UNCHANGED <<at, from, start, out>> /\ Documented(start, end, Radius)
    BY <1>10 DEF DocumentedToken, Reject, candidate
  <2>2. Passed(k, s) \/ (k = at /\ s = start)
    BY <1>3, <2>1 DEF Passed
  <2>3. ASSUME k = at, s = start
        PROVE  FALSE
    <3>1. end <= Behind /\ IsBody(Validators[k], s, end)
      BY <2>1, <2>3 DEF Judged, V
    <3>2. e = end
      <4>1. s \in Int /\ e \in Int /\ end \in Int /\ e <= Behind
        BY <1>2 DEF Numbers
      <4> QED BY <1>2, <1>5, <3>1, <4>1, OneEnd
    <3> QED BY <1>5, <2>1, <2>3, <3>2
  <2> QED BY <1>4, <2>1, <2>2, <2>3
<1>11. CASE ReportToken
  <2> DEFINE x == Finding(V.rule, start, end, (start..start + Len(V.prefix) - 1) \union TailOf(start, end))
  <2>1. /\ pc = "context" /\ pc' = "search" /\ UNCHANGED <<at, from, start>>
        /\ out' = Append(out, x)
    BY <1>11 DEF ReportToken, candidate
  <2>2. ToSet(out') = ToSet(out) \union {x}
    BY <2>1, Added DEF Numbers
  <2>3. x.rule = V.rule /\ x.start = start /\ x.end = end
    BY DEF Finding
  <2> HIDE DEF x
  <2>4. Passed(k, s) \/ (k = at /\ s = start)
    BY <1>3, <2>1 DEF Passed
  <2>5. ASSUME k = at, s = start
        PROVE  Found(ToSet(out'), k, s, e)
    <3>1. end <= Behind /\ IsBody(Validators[k], s, end)
      BY <2>1, <2>5 DEF Judged, V
    <3>2. e = end
      <4>1. s \in Int /\ e \in Int /\ end \in Int /\ e <= Behind
        BY <1>2 DEF Numbers
      <4> QED BY <1>2, <1>5, <3>1, <4>1, OneEnd
    <3> QED BY <2>2, <2>3, <2>5, <3>2 DEF V
  <2> QED BY <1>4, <2>2, <2>4, <2>5
<1>12. CASE NextValidator
  <2>1. /\ pc = "search" /\ pc' = "search" /\ NoNext(V.prefix) /\ at' = at + 1 /\ from' = 1
        /\ out' = out
    BY <1>12 DEF NextValidator
  <2>2. k < at + 1 \/ s < 1
    BY <1>3, <2>1 DEF Passed
  <2>3. ASSUME k = at, s >= from
        PROVE  FALSE
    <3>1. s \in from..Len(text)
      BY <1>2, <2>3
    <3> QED BY <1>5, <2>1, <2>3, <3>1 DEF NoNext, V
  <2>4. Passed(k, s)
    BY <1>2, <2>1, <2>2, <2>3 DEF Passed
  <2> QED BY <1>4, <2>1, <2>4
<1>13. CASE AllDone
  <2>1. pc = "search" /\ at \notin DOMAIN Validators /\ out' = out
    BY <1>13 DEF AllDone
  <2>2. k < at
    BY <1>2, <2>1
  <2> QED BY <1>4, <2>1, <2>2 DEF Passed
<1>14. CASE Sort
  <2>1. ToSet(out') = ToSet(out) /\ pc = "sort"
    BY <1>14, Sorted
  <2> QED BY <1>4, <2>1 DEF Passed
<1>15. CASE UNCHANGED vars
  <2>1. UNCHANGED <<pc, at, from, start, out>>
    BY <1>15 DEF vars, candidate
  <2> QED BY <1>3, <1>4, <2>1 DEF Passed
<1> QED BY <1>6, <1>7, <1>8, <1>9, <1>10, <1>11, <1>12, <1>13, <1>14, <1>15, TokenSteps DEF Next

(* A token is longer than its prefix.                                      *)
LEMMA BodyIsLong ==
  ASSUME NEW k \in DOMAIN Validators, NEW s \in Int, NEW e \in Int, IsBody(Validators[k], s, e)
  PROVE  s + Len(Validators[k].prefix) < e /\ s < e
<1> DEFINE v == Validators[k]
<1>1. /\ v.shape \in Shapes /\ Len(v.prefix) \in Nat \ {0} /\ v.min \in Nat \ {0} /\ v.begin \in Nat
      /\ v.shape = "segments" => Len(v.prefix) <= v.begin + v.min
  BY ValidatorFacts
<1> HIDE DEF v
<1>2. CASE v.shape = "segments"
  <2>1. IsSegments(v, s, e)
    BY <1>2, SegmentsAre DEF v
  <2>2. PICK p, q \in s + v.begin..e - 1 : Ends(v, s + v.begin, p) /\ Ends(v, p + 1, q)
    BY <2>1 DEF IsSegments
  <2>3. p >= s + v.begin + v.min /\ p <= e - 1 /\ p \in Int
    BY <1>1, <2>2 DEF Ends
  <2> QED BY <1>1, <1>2, <2>3 DEF v
<1>3. CASE v.shape # "segments"
  <2>1. e >= s + Len(v.prefix) + v.min
    BY <1>1, <1>3, SMTT(30) DEF IsBody, Shapes, v
  <2> QED BY <1>1, <2>1 DEF v
<1> QED BY <1>2, <1>3

LEMMA NextSoundToken ==
  ASSUME Numbers, Candidate, Judged, Sound, ReportToken
  PROVE  Sound'
<1> DEFINE x == Finding(V.rule, start, end, (start..start + Len(V.prefix) - 1) \union TailOf(start, end))
<1>1. /\ pc = "context" /\ text' = text /\ out' = Append(out, x) /\ ~Documented(start, end, Radius)
  BY DEF ReportToken
<1>2. ToSet(out') = ToSet(out) \union {x}
  BY <1>1, Added DEF Numbers
<1>3. TokenOf(at, x)
  <2>1. /\ at \in DOMAIN Validators /\ start \in 1..Len(text) /\ Occurs(V.prefix, start)
        /\ ~MidToken(V, start) /\ end <= Behind /\ IsBody(V, start, end)
    BY <1>1 DEF Candidate, Judged
  <2>2. IsToken(V, start, end)
    BY <1>1, <2>1 DEF IsToken
  <2>3. /\ x.rule = V.rule /\ x.start = start /\ x.end = end
        /\ x.shown = (start..start + Len(V.prefix) - 1) \union TailOf(start, end)
    BY DEF Finding
  <2> HIDE DEF x
  <2>4. end \in Nat /\ start \in Nat /\ Behind \in Int
    BY DEF Numbers, Behind
  <2>5. end \in 1..Behind
    <3>1. at \in DOMAIN Validators /\ IsBody(Validators[at], start, end)
      BY <2>1 DEF V
    <3>2. start < end
      <4>1. start \in Int /\ end \in Int
        BY <2>4
      <4> QED BY <3>1, <4>1, BodyIsLong
    <3> QED BY <2>1, <2>4, <3>2
  <2> QED BY <2>1, <2>2, <2>3, <2>5 DEF TokenOf, V
<1> HIDE DEF x
<1>4. at \in DOMAIN Validators
  BY <1>1 DEF Candidate
<1> QED BY <1>1, <1>2, <1>3, <1>4, SameText, SameBlocks DEF Sound

-----------------------------------------------------------------------------
(* scan_pem *)

LEMMA PemFacts ==
  ASSUME Numbers
  PROVE  /\ HeaderCap \in Nat \ {0} /\ BlockCap \in Nat \ {0} /\ LineCap \in Nat \ {0}
         /\ Newline \notin Base64 /\ CarriageReturn \notin Base64
         /\ Newline # Header /\ Newline # Footer /\ Newline # CarriageReturn
         /\ Len(text) \in Nat /\ Behind = Len(text) + 1 /\ from \in 1..Behind
         /\ start \in 1..Behind /\ end \in Nat
BY ConstantsAssumption, SMTT(30) DEF Numbers, Behind

LEMMA HeaderAt ==
  ASSUME Numbers, NEW s \in 1..Len(text)
  PROVE  Occurs(<<Header>>, s) <=> text[s] = Header
<1>1. Len(<<Header>>) = 1 /\ DOMAIN <<Header>> = 1..1 /\ <<Header>>[1] = Header
  OBVIOUS
<1>2. s + 1 <= Behind /\ s + 1 - 1 = s
  BY PemFacts
<1>3. \A k \in 1..1 : k = 1
  OBVIOUS
<1> QED BY <1>1, <1>2, <1>3 DEF Occurs

LEMMA SameDelimiterEnd ==
  ASSUME Numbers, NEW i \in Int, NEW d, NEW e, IsDelimiterEnd(i, d), IsDelimiterEnd(i, e)
  PROVE  d = e
<1> DEFINE stop == Least(Behind, i + HeaderCap)
<1>1. stop \in Int
  BY PemFacts DEF Least
<1>2. IsLineEnd(i, stop, d) /\ IsLineEnd(i, stop, e)
  BY DEF IsDelimiterEnd
<1> HIDE DEF stop
<1>3. d \in Int /\ e \in Int
  BY <1>1, <1>2 DEF IsLineEnd
<1>4. ~(d < e)
  BY <1>1, <1>2, <1>3 DEF IsLineEnd
<1>5. ~(e < d)
  BY <1>1, <1>2, <1>3 DEF IsLineEnd
<1> QED BY <1>3, <1>4, <1>5

LEMMA DelimiterEnds ==
  ASSUME Numbers, NEW i \in 1..Len(text), NEW e, IsDelimiterEnd(i, e), text[i] # Newline
  PROVE  e \in i + 1..Behind /\ \A j \in i..e - 1 : text[j] # Newline
<1> DEFINE stop == Least(Behind, i + HeaderCap)
<1>1. stop \in Int /\ i < stop /\ stop <= Behind
  BY PemFacts DEF Least
<1>2. IsLineEnd(i, stop, e)
  BY DEF IsDelimiterEnd
<1> HIDE DEF stop
<1>3. e \in i..stop /\ (e < stop => text[e] = Newline) /\ \A j \in i..e - 1 : text[j] # Newline
  BY <1>2 DEF IsLineEnd
<1>4. Behind \in Int
  BY PemFacts
<1> QED BY <1>1, <1>3, <1>4

LEMMA SameFooter ==
  ASSUME NEW h \in Int, NEW f \in Int, NEW g \in Int, IsFirstFooter(h, f), IsFirstFooter(h, g)
  PROVE  f = g
<1>1. f >= h /\ g >= h /\ text[f] = Footer /\ text[g] = Footer
      /\ (\A j \in h..f - 1 : text[j] # Footer) /\ (\A j \in h..g - 1 : text[j] # Footer)
  BY DEF IsFirstFooter
<1> QED BY <1>1

(* The block that begins at a header which has been read.                  *)
LEMMA BlockHere ==
  ASSUME Numbers, InBlock, pc \in {"footer", "lines"}, NEW e \in 1..Behind, IsBlock(start, e)
  PROVE  /\ ~Documented(start, e, PemRadius)
         /\ \E f \in header_end..Len(text) :
              /\ IsFirstFooter(header_end, f) /\ IsDelimiterEnd(f, e) /\ HasKind(f, e)
              /\ \A i \in header_end..f - 1 : IsLineByte(header_end, f, i)
              /\ \A i \in header_end..f - 1 - LineCap : \E j \in i..i + LineCap : text[j] \notin Base64
              /\ \E i \in header_end..f - 1 : text[i] \in Base64
<1>1. PICK h \in start..Behind, f \in start..Len(text) :
       /\ IsDelimiterEnd(start, h) /\ HasKind(start, h)
       /\ IsFirstFooter(h, f) /\ IsDelimiterEnd(f, e) /\ HasKind(f, e)
       /\ \A i \in h..f - 1 : IsLineByte(h, f, i)
       /\ \A i \in h..f - 1 - LineCap : \E j \in i..i + LineCap : text[j] \notin Base64
       /\ \E i \in h..f - 1 : text[i] \in Base64
  BY DEF IsBlock, IsLineByte
<1>2. start \in Int /\ IsDelimiterEnd(start, header_end)
  BY PemFacts DEF InBlock
<1>3. h = header_end
  BY <1>1, <1>2, SameDelimiterEnd
<1>4. f \in header_end..Len(text)
  <2>1. f >= h
    BY <1>1 DEF IsFirstFooter
  <2> QED BY <1>1, <1>3, <2>1, PemFacts
<1>5. ~Documented(start, e, PemRadius)
  BY DEF IsBlock
<1> QED BY <1>1, <1>3, <1>4, <1>5

LEMMA NextInBlock ==
  ASSUME Numbers, InBlock, [Next]_vars
  PROVE  InBlock'
<1>1. text' = text /\ Behind' = Behind
  BY TextStays, SameText
<1>2. CASE PemHeader
  <2>1. PICK s \in from..Len(text), e \in from..Behind :
          /\ IsNext(<<Header>>, s) /\ IsDelimiterEnd(s, e)
          /\ from' = s + 1
          /\ \/ pc' = "pem"
             \/ HasKind(s, e) /\ pc' = "footer" /\ start' = s /\ header_end' = e
    BY <1>2 DEF PemHeader
  <2>2. at' = at /\ pc = "pem"
    BY <1>2 DEF PemHeader
  <2>3. s \in 1..Len(text)
    BY PemFacts
  <2>4. text[s] = Header
    BY <2>1, <2>3, HeaderAt DEF IsNext
  <2>5. e \in s + 1..Behind
    BY <2>1, <2>3, <2>4, DelimiterEnds, PemFacts
  <2> QED BY <1>1, <2>1, <2>2, <2>3, <2>4, <2>5, SameBlocks DEF InBlock
<1>3. CASE PemFooter \/ PemLine \/ UNCHANGED vars
  <2>1. /\ UNCHANGED <<at, from, start, header_end>>
        /\ \/ pc \in {"footer", "lines"} /\ pc' \in {"lines", "pem"}
           \/ pc' = pc
    BY <1>3 DEF PemFooter, PemLine, vars, candidate, block
  <2> QED BY <1>1, <2>1, SameBlocks DEF InBlock
<1>4. CASE PemNoFooter \/ PemRefused \/ PemReport
  <2>1. pc' = "pem" /\ at' = at /\ pc \in {"footer", "lines"}
    BY <1>4 DEF PemNoFooter, PemRefused, PemReport, NextBlock
  <2> QED BY <2>1 DEF InBlock
<1>5. CASE PemDone
  BY <1>5 DEF PemDone, InBlock
<1>6. CASE Token \/ Sort
  BY <1>6, TokenSteps, BodySteps, SearchSteps, Sorted DEF StartToken, InBlock
<1> QED BY <1>2, <1>3, <1>4, <1>5, <1>6 DEF Next, Pem

(* Behind the characters of a line is at most a carriage return, and then  *)
(* the newline or the footer.                                              *)
StopOf(l, e) == IF e > l /\ text[e - 1] = CarriageReturn THEN e - 1 ELSE e

LEMMA LineFacts ==
  ASSUME Numbers, InBlock, InLines, pc = "lines"
  PROVE  /\ header_end \in Nat /\ footer_start \in Nat /\ line_start \in Nat
         /\ 1 <= start /\ start < header_end /\ header_end <= footer_start /\ footer_start <= Len(text)
         /\ footer_start < end /\ end <= Behind
         /\ header_end <= line_start /\ line_start <= footer_start + 1
         /\ LinesRead(header_end, footer_start, line_start)
<1>1. /\ start \in 1..Len(text) /\ header_end \in start + 1..Behind
      /\ footer_start \in header_end..Len(text) /\ end \in footer_start + 1..Behind
      /\ line_start \in header_end..footer_start + 1
      /\ LinesRead(header_end, footer_start, line_start)
  BY DEF InBlock, InLines
<1> QED BY <1>1, PemFacts

LEMMA LineBytes ==
  ASSUME Numbers, NEW h \in Nat, NEW f \in Nat, NEW l \in Nat, l <= f,
         NEW e \in l..f, IsLineEnd(l, f, e)
  PROVE  /\ StopOf(l, e) \in l..e
         /\ \A i \in StopOf(l, e)..e : i < f => text[i] \notin Base64 /\ IsLineByte(h, f, i)
<1>1. e < f => text[e] = Newline
  BY DEF IsLineEnd
<1>2. ASSUME e < f
      PROVE  text[e] \notin Base64 /\ IsLineByte(h, f, e)
  BY <1>1, <1>2, PemFacts DEF IsLineByte
<1>3. CASE e > l /\ text[e - 1] = CarriageReturn
  <2>1. StopOf(l, e) = e - 1 /\ e - 1 \in l..e /\ e \in Int
    BY <1>3 DEF StopOf
  <2>2. text[e - 1] \notin Base64 /\ e - 1 + 1 = e
    BY <1>3, <2>1, PemFacts
  <2>3. IsLineByte(h, f, e - 1)
    <3>1. e = f \/ text[e] = Newline
      BY <1>1
    <3> QED BY <1>3, <2>2, <3>1 DEF IsLineByte
  <2>4. \A i \in e - 1..e : i = e - 1 \/ i = e
    BY <2>1
  <2> QED BY <1>2, <2>1, <2>2, <2>3, <2>4
<1>4. CASE ~(e > l /\ text[e - 1] = CarriageReturn)
  <2>1. StopOf(l, e) = e /\ e \in l..e /\ \A i \in e..e : i = e
    BY <1>4 DEF StopOf
  <2> QED BY <1>2, <2>1
<1> QED BY <1>3, <1>4

LEMMA LineRead ==
  ASSUME Numbers, NEW h \in Nat, NEW f \in Nat, NEW l \in Nat, h <= l, l <= f,
         LinesRead(h, f, l),
         NEW e \in l..f, IsLineEnd(l, f, e),
         StopOf(l, e) = l \/ IsBase64Line(l, StopOf(l, e))
  PROVE  LinesRead(h, f, e + 1)
<1> DEFINE stop == StopOf(l, e)
<1>1. /\ stop \in l..e
      /\ \A i \in stop..e : i < f => text[i] \notin Base64 /\ IsLineByte(h, f, i)
  BY LineBytes
<1>2. AllIn(l, stop, Base64) /\ stop - l <= LineCap
  BY PemFacts DEF AllIn, IsBase64Line
<1>3. /\ l = h \/ text[l - 1] = Newline
      /\ \A i \in h..f - 1 : i < l => IsLineByte(h, f, i)
      /\ \A i \in h..f - 1 - LineCap : i + LineCap < l => \E j \in i..i + LineCap : text[j] \notin Base64
  BY DEF LinesRead
<1>4. e \in Int /\ stop \in Int /\ LineCap \in Nat \ {0}
  BY <1>1, PemFacts
<1> HIDE DEF stop
<1>5. e + 1 = h \/ e + 1 = f + 1 \/ text[e + 1 - 1] = Newline
  <2>1. e = f \/ text[e] = Newline
    BY DEF IsLineEnd
  <2>2. e + 1 - 1 = e
    BY <1>4
  <2> QED BY <2>1, <2>2
<1>6. ASSUME NEW i \in h..f - 1, i < e + 1
      PROVE  IsLineByte(h, f, i)
  <2>1. CASE i < l
    BY <1>3, <2>1
  <2>2. CASE i >= l /\ i < stop
    <3>1. i \in l..stop - 1
      BY <1>4, <2>2
    <3> QED BY <1>2, <3>1 DEF AllIn, IsLineByte
  <2>3. CASE i >= stop
    <3>1. i \in stop..e /\ i < f
      BY <1>4, <1>6, <2>3
    <3> QED BY <1>1, <3>1
  <2> QED BY <1>4, <2>1, <2>2, <2>3
<1>7. ASSUME NEW i \in h..f - 1 - LineCap, i + LineCap < e + 1
      PROVE  \E j \in i..i + LineCap : text[j] \notin Base64
  <2>1. i \in Int /\ i + LineCap <= f - 1 /\ i + LineCap \in i..i + LineCap /\ h <= i
    BY <1>4, <1>7
  <2>2. CASE i + LineCap < l
    BY <1>3, <2>2
  <2>3. CASE i + LineCap >= stop
    <3>1. i + LineCap \in stop..e /\ i + LineCap < f
      BY <1>4, <1>7, <2>1, <2>3
    <3> QED BY <1>1, <2>1, <3>1
  <2>4. CASE i + LineCap >= l /\ i + LineCap < stop
    <3>1. l - 1 \in i..i + LineCap /\ l # h
      BY <1>2, <1>4, <2>1, <2>4
    <3> QED BY <1>3, <3>1, PemFacts
  <2> QED BY <1>4, <2>1, <2>2, <2>3, <2>4
<1> QED BY <1>5, <1>6, <1>7 DEF LinesRead

(* A line that is refused is no part of a block.                           *)
LEMMA LineRefused ==
  ASSUME Numbers, NEW h \in Nat, NEW f \in Nat, NEW l \in Nat, h <= l, l <= f,
         NEW e \in l..f, IsLineEnd(l, f, e), StopOf(l, e) > l,
         \A i \in h..f - 1 : IsLineByte(h, f, i),
         \A i \in h..f - 1 - LineCap : \E j \in i..i + LineCap : text[j] \notin Base64
  PROVE  IsBase64Line(l, StopOf(l, e))
<1> DEFINE stop == StopOf(l, e)
<1>1. stop \in l..e /\ stop \in Int /\ e \in Int /\ LineCap \in Nat
  BY LineBytes, PemFacts
<1>2. ASSUME NEW j \in l..stop - 1
      PROVE  text[j] \in Base64
  <2>1. j \in h..f - 1 /\ j \in l..e - 1
    BY <1>1
  <2>2. text[j] # Newline
    BY <2>1 DEF IsLineEnd
  <2>3. ASSUME text[j] = CarriageReturn, j + 1 = f \/ text[j + 1] = Newline
        PROVE  FALSE
    <3>1. j + 1 = e
      <4>1. j + 1 \notin l..e - 1
        BY <1>1, <2>1, <2>3 DEF IsLineEnd
      <4> QED BY <1>1, <2>1, <4>1
    <3>2. e > l /\ text[e - 1] = CarriageReturn
      <4>1. e - 1 = j /\ e > l
        BY <1>1, <2>1, <3>1
      <4> QED BY <2>3, <4>1
    <3>3. stop = e - 1
      BY <3>2 DEF StopOf
    <3> HIDE DEF stop
    <3> QED BY <1>1, <3>1, <3>3
  <2> QED BY <2>1, <2>2, <2>3 DEF IsLineByte
<1> HIDE DEF stop
<1>3. ~(stop - l > LineCap)
  <2>1. SUFFICES ASSUME stop - l > LineCap
                 PROVE  FALSE
    OBVIOUS
  <2>2. l \in h..f - 1 - LineCap
    BY <1>1, <2>1
  <2>3. PICK j \in l..l + LineCap : text[j] \notin Base64
    BY <2>2
  <2>4. j \in l..stop - 1
    BY <1>1, <2>1, <2>3
  <2> QED BY <1>2, <2>3, <2>4
<1>4. stop - l <= LineCap
  BY <1>1, <1>3
<1> QED BY <1>2, <1>4 DEF IsBase64Line, AllIn, stop

LEMMA NextInLines ==
  ASSUME Numbers, InBlock, InLines, [Next]_vars
  PROVE  InLines'
<1>1. text' = text /\ Behind' = Behind
  BY TextStays, SameText
<1>2. CASE PemFooter
  <2>1. PICK f \in header_end..Len(text), e \in header_end..Behind :
          /\ IsFirstFooter(header_end, f) /\ IsDelimiterEnd(f, e) /\ HasKind(f, e)
          /\ footer_start' = f /\ end' = e /\ line_start' = header_end /\ last_line' = NoLine
    BY <1>2 DEF PemFooter
  <2>2. header_end' = header_end /\ header_end \in 2..Behind
    BY <1>2, PemFacts, SMTT(30) DEF PemFooter, InBlock
  <2>3. f \in 1..Len(text) /\ header_end <= f
    BY <2>1, <2>2, PemFacts
  <2>4. text[f] = Footer
    BY <2>1 DEF IsFirstFooter
  <2>5. e \in f + 1..Behind
    BY <2>1, <2>3, <2>4, DelimiterEnds, PemFacts
  <2>6. header_end \in header_end..f + 1
    BY <2>2, <2>3, PemFacts
  <2>7. LinesRead(header_end, f, header_end)
    BY <2>2, PemFacts DEF LinesRead
  <2>8. LastLine(header_end, f, header_end)'
    BY <2>1, <2>2, PemFacts DEF LastLine
  <2> QED BY <1>1, <2>1, <2>2, <2>5, <2>6, <2>7, <2>8, SameBlocks DEF InLines
<1>3. CASE PemLine
  <2> DEFINE h == header_end
             f == footer_start
             l == line_start
  <2>1. PICK e \in l..f :
          /\ IsLineEnd(l, f, e)
          /\ \/ StopOf(l, e) = l /\ line_start' = e + 1 /\ UNCHANGED <<pc, last_line>>
             \/ /\ StopOf(l, e) > l /\ IsBase64Line(l, StopOf(l, e))
                /\ line_start' = e + 1 /\ last_line' = <<l, StopOf(l, e)>> /\ UNCHANGED pc
             \/ pc' = "pem"
    BY <1>3 DEF PemLine, StopOf
  <2>2. /\ pc = "lines" /\ l <= f /\ UNCHANGED <<end, header_end, footer_start>>
    BY <1>3 DEF PemLine, candidate
  <2>3. /\ h \in Nat /\ f \in Nat /\ l \in Nat /\ h <= l /\ LinesRead(h, f, l)
    BY <2>2, LineFacts
  <2>4. SUFFICES ASSUME pc' # "pem"
                 PROVE  InLines'
    BY DEF InLines
  <2>5. /\ f \in h..Len(text) /\ end \in f + 1..Behind
        /\ IsFirstFooter(h, f) /\ IsDelimiterEnd(f, end) /\ HasKind(f, end)
        /\ LastLine(h, f, l)
    BY <2>2 DEF InLines
  <2>6. StopOf(l, e) = l \/ IsBase64Line(l, StopOf(l, e))
    BY <2>1, <2>4
  <2> HIDE DEF h, f, l
  <2>7. LinesRead(h, f, e + 1) /\ line_start' = e + 1
    BY <2>1, <2>2, <2>3, <2>4, <2>6, LineRead
  <2>8. line_start' \in h..f + 1
    BY <2>1, <2>3, <2>7
  <2>9. /\ StopOf(l, e) \in l..e
        /\ \A i \in StopOf(l, e)..e : i < f => text[i] \notin Base64
    BY <2>1, <2>2, <2>3, LineBytes
  <2>10. \/ last_line' = NoLine /\ \A i \in h..f - 1 : i < e + 1 => text[i] \notin Base64
         \/ \E a, b \in h..f : last_line' = <<a, b>> /\ a < b /\ text[a] \in Base64
    <3>1. CASE StopOf(l, e) = l
      <4>1. last_line' = last_line
        <5>1. ~(StopOf(l, e) > l)
          BY <2>3, <3>1
        <5> QED BY <2>1, <2>4, <5>1
      <4>2. ASSUME NEW i \in h..f - 1, i < e + 1, i >= l
            PROVE  text[i] \notin Base64
        <5>1. i \in l..e /\ i < f
          BY <2>1, <2>3, <4>2
        <5> QED BY <2>9, <3>1, <5>1
      <4>3. \A i \in h..f - 1 : i < l \/ i >= l
        BY <2>3
      <4> QED BY <2>5, <4>1, <4>2, <4>3 DEF LastLine
    <3>2. CASE StopOf(l, e) # l
      <4>1. last_line' = <<l, StopOf(l, e)>> /\ l < StopOf(l, e) /\ IsBase64Line(l, StopOf(l, e))
        BY <2>1, <2>4, <3>2
      <4>2. l \in h..f /\ StopOf(l, e) \in h..f /\ l \in l..StopOf(l, e) - 1
        BY <2>1, <2>2, <2>3, <2>9, <4>1
      <4>3. text[l] \in Base64
        BY <4>1, <4>2 DEF IsBase64Line, AllIn
      <4> QED BY <4>1, <4>2, <4>3
    <3> QED BY <3>1, <3>2
  <2>11. LastLine(h, f, line_start)'
    BY <1>1, <2>2, <2>7, <2>10 DEF LastLine, h, f
  <2> QED BY <1>1, <2>2, <2>5, <2>7, <2>8, <2>11, SameBlocks DEF InLines, h, f
<1>4. CASE UNCHANGED vars
  <2>1. UNCHANGED <<pc, header_end, footer_start, end, line_start, last_line>>
    BY <1>4 DEF vars, candidate, block
  <2>2. LastLine(header_end, footer_start, line_start)' <=> LastLine(header_end, footer_start, line_start)
    BY <1>1, <2>1 DEF LastLine
  <2> QED BY <1>1, <2>1, <2>2, SameBlocks DEF InLines
<1>5. CASE PemHeader \/ PemNoFooter \/ PemRefused \/ PemReport \/ PemDone
  BY <1>5 DEF PemHeader, PemNoFooter, PemRefused, PemReport, PemDone, NextBlock, InLines
<1>6. CASE Token \/ Sort
  BY <1>6, TokenSteps, BodySteps, SearchSteps, Sorted DEF StartToken, InLines
<1> QED BY <1>2, <1>3, <1>4, <1>5, <1>6 DEF Next, Pem

LEMMA NextSoundKey ==
  ASSUME Numbers, InBlock, InLines, Sound, PemReport
  PROVE  /\ Sound' /\ KeyOf(PemFinding) /\ PemFinding.start = start /\ PemFinding.end = end
         /\ IsBlock(start, end) /\ ToSet(out') = ToSet(out) \union {PemFinding} /\ text' = text
<1> DEFINE x == PemFinding
           h == header_end
           f == footer_start
<1>1. /\ pc = "lines" /\ line_start > f /\ last_line # NoLine /\ ~Documented(start, end, PemRadius)
      /\ out' = Append(out, x) /\ text' = text
  BY DEF PemReport
<1>2. /\ h \in Nat /\ f \in Nat /\ 1 <= start /\ start < h /\ h <= f /\ f <= Len(text)
      /\ f < end /\ end <= Behind /\ line_start = f + 1 /\ LinesRead(h, f, f + 1)
      /\ start \in Nat /\ end \in Nat /\ Len(text) \in Nat /\ Behind = Len(text) + 1
  <2>1. start \in Nat /\ end \in Nat /\ Len(text) \in Nat /\ Behind = Len(text) + 1
    BY PemFacts
  <2>2. line_start = f + 1
    BY <1>1, LineFacts
  <2> QED BY <1>1, <2>1, <2>2, LineFacts
<1>3. /\ text[start] = Header /\ IsDelimiterEnd(start, h) /\ HasKind(start, h)
      /\ IsFirstFooter(h, f) /\ IsDelimiterEnd(f, end) /\ HasKind(f, end)
      /\ start \in 1..Len(text)
  BY <1>1 DEF InBlock, InLines
<1>4. PICK a, b \in h..f : last_line = <<a, b>> /\ a < b /\ text[a] \in Base64
  BY <1>1 DEF InLines, LastLine
<1> HIDE DEF h, f, x
<1>5. LineCap \in Nat
  BY PemFacts
<1>6. /\ \A i \in h..f - 1 : IsLineByte(h, f, i)
      /\ \A i \in h..f - 1 - LineCap : \E j \in i..i + LineCap : text[j] \notin Base64
      /\ \E i \in h..f - 1 : text[i] \in Base64
  <2>1. a \in h..f - 1
    BY <1>2, <1>4
  <2>2. \A i \in h..f - 1 : i < f + 1
    BY <1>2
  <2>3. \A i \in h..f - 1 - LineCap : i + LineCap < f + 1
    BY <1>2, <1>5
  <2> QED BY <1>2, <1>4, <2>1, <2>2, <2>3 DEF LinesRead
<1>7. IsBlock(start, end)
  <2>1. h \in start..Behind /\ f \in start..Len(text)
    BY <1>2
  <2> QED BY <1>1, <1>3, <1>6, <2>1 DEF IsBlock, IsLineByte
<1>8. /\ x.rule = PemRule /\ x.start = start /\ x.end = end
      /\ x.shown = (start..h - 1) \union TailOf(a, b)
  <2>1. last_line[1] = a /\ last_line[2] = b
    BY <1>4
  <2> QED BY <2>1 DEF x, PemFinding, Finding, h
<1>9. KeyOf(x)
  <2>1. end \in 1..Behind /\ h \in start..end /\ a \in start..end /\ b \in start..end
    BY <1>2
  <2>2. \A j \in start..h - 1 : text[j] # Newline
    <3>1. text[start] # Newline
      BY <1>3, PemFacts
    <3> QED BY <1>3, <3>1, DelimiterEnds
  <2>3. h <= start + HeaderCap
    <3>1. HeaderCap \in Nat
      BY PemFacts
    <3> QED BY <1>2, <1>3, <3>1 DEF IsDelimiterEnd, IsLineEnd, Least
  <2> QED BY <1>3, <1>7, <1>8, <2>1, <2>2, <2>3 DEF KeyOf
<1>10. ToSet(out') = ToSet(out) \union {x}
  BY <1>1, Added DEF Numbers
<1>11. Sound'
  BY <1>1, <1>9, <1>10, SameText, SameBlocks DEF Sound
<1> QED BY <1>1, <1>7, <1>8, <1>9, <1>10, <1>11 DEF x

LEMMA NextSound ==
  ASSUME Numbers, Candidate, Judged, InBlock, InLines, Sound, [Next]_vars
  PROVE  Sound'
<1>1. text' = text
  BY TextStays
<1>2. ASSUME ToSet(out') = ToSet(out)
      PROVE  Sound'
  BY <1>1, <1>2, SameText, SameBlocks DEF Sound
<1>3. CASE PemReport
  BY <1>3, NextSoundKey
<1>4. CASE ReportToken
  BY <1>4, NextSoundToken
<1>5. CASE Sort
  BY <1>2, <1>5, Sorted
<1>6. CASE out' = out
  BY <1>2, <1>6
<1>7. PemReport \/ ReportToken \/ Sort \/ out' = out
  BY PemSteps, TokenSteps, BodySteps
     DEF Next, PemDone, vars, StartToken, SkipMidToken, NextValidator, AllDone, DocumentedToken, Reject
<1> QED BY <1>3, <1>4, <1>5, <1>6, <1>7

(* How the findings about keys change. *)
LEMMA KeySteps ==
  ASSUME Numbers, Candidate, InBlock, InLines, Sound, [Next]_vars
  PROVE  IF PemReport THEN Keys' = Keys \union {PemFinding} ELSE Keys' = Keys
<1>1. CASE PemReport
  <2>1. ToSet(out') = ToSet(out) \union {PemFinding} /\ PemFinding.rule = PemRule
    BY <1>1, NextSoundKey DEF KeyOf
  <2> QED BY <1>1, <2>1 DEF Keys
<1>2. CASE ReportToken
  <2> DEFINE x == Finding(V.rule, start, end, (start..start + Len(V.prefix) - 1) \union TailOf(start, end))
  <2>1. pc = "context" /\ out' = Append(out, x)
    BY <1>2 DEF ReportToken
  <2>2. ToSet(out') = ToSet(out) \union {x}
    BY <2>1, Added DEF Numbers
  <2>3. x.rule = V.rule /\ V.rule # PemRule
    BY <2>1, ValidatorFacts DEF Finding, Candidate, V
  <2> HIDE DEF x
  <2>4. ~PemReport
    BY <2>1 DEF PemReport
  <2> QED BY <2>2, <2>3, <2>4 DEF Keys
<1>3. CASE ~PemReport /\ ToSet(out') = ToSet(out)
  BY <1>3 DEF Keys
<1>4. CASE Sort
  <2>1. ~PemReport
    BY <1>4, Sorted DEF PemReport
  <2> QED BY <1>4, <2>1, Sorted DEF Keys
<1>5. PemReport \/ ReportToken \/ Sort \/ out' = out
  BY PemSteps, TokenSteps, BodySteps
     DEF Next, PemDone, vars, StartToken, SkipMidToken, NextValidator, AllDone, DocumentedToken, Reject
<1> QED BY <1>1, <1>2, <1>3, <1>4, <1>5

LEMMA NextKeysApart ==
  ASSUME Numbers, Candidate, InBlock, InLines, Sound, KeysApart, [Next]_vars
  PROVE  KeysApart'
<1>1. \A f \in Keys : f.start \in Nat /\ f.end \in Nat /\ f.start <= f.end
  <2>1. ASSUME NEW f \in Keys
        PROVE  KeyOf(f)
    BY ValidatorFacts DEF Sound, Keys, TokenOf
  <2>2. ASSUME NEW f \in Keys
        PROVE  f.start \in Nat /\ f.end \in Nat /\ f.start <= f.end
    <3>1. f.start \in 1..Len(text) /\ f.end \in 1..Behind /\ \E h \in f.start..f.end : TRUE
      BY <2>1 DEF KeyOf
    <3> QED BY <3>1, PemFacts
  <2> QED BY <2>2
<1>2. /\ \A f, g \in Keys : f.start < g.start => f.end <= g.start
      /\ pc = "pem" => \A f \in Keys : f.end <= from
      /\ pc \in {"footer", "lines"} => \A f \in Keys : f.end <= start
  BY DEF KeysApart
<1>3. start \in Nat /\ end \in Nat /\ from \in Nat /\ Len(text) \in Nat
  BY PemFacts
<1>4. CASE PemReport
  <2> DEFINE x == PemFinding
  <2>1. /\ pc = "lines" /\ pc' = "pem" /\ from' = end
    BY <1>4 DEF PemReport
  <2>2. Keys' = Keys \union {x} /\ x.start = start /\ x.end = end /\ start < end
    BY <1>4, <2>1, KeySteps, NextSoundKey, LineFacts, PemFacts
  <2> HIDE DEF x
  <2> QED BY <1>1, <1>2, <1>3, <2>1, <2>2 DEF KeysApart
<1>5. CASE ~PemReport
  <2>1. Keys' = Keys
    BY <1>5, KeySteps
  <2>2. CASE PemHeader
    <3>1. PICK s \in from..Len(text) :
            /\ from' = s + 1
            /\ pc' = "pem" \/ (pc' = "footer" /\ start' = s)
      BY <2>2 DEF PemHeader
    <3>2. pc = "pem"
      BY <2>2 DEF PemHeader
    <3>3. s \in Nat /\ from <= s
      BY <1>3, <3>1
    <3> QED BY <1>1, <1>2, <1>3, <2>1, <3>1, <3>2, <3>3 DEF KeysApart
  <2>3. CASE PemFooter \/ UNCHANGED vars
    <3>1. /\ UNCHANGED <<start, from>>
          /\ \/ pc = "footer" /\ pc' = "lines"
             \/ pc' = pc
      BY <2>3 DEF PemFooter, vars, candidate
    <3> QED BY <1>2, <2>1, <3>1 DEF KeysApart
  <2>4. CASE PemNoFooter \/ PemRefused \/ PemLine
    <3>1. /\ UNCHANGED <<start, from>> /\ pc \in {"footer", "lines"} /\ pc' \in {"lines", "pem"}
      BY <2>4 DEF PemNoFooter, PemRefused, PemLine, NextBlock, candidate
    <3>2. from = start + 1
      BY <3>1 DEF InBlock
    <3> QED BY <1>1, <1>2, <1>3, <2>1, <3>1, <3>2 DEF KeysApart
  <2>5. CASE PemDone \/ Token \/ Sort
    <3>1. pc' \notin {"pem", "footer", "lines"}
      BY <2>5, TokenSteps, BodySteps, SearchSteps, Sorted DEF StartToken, PemDone
    <3> QED BY <1>2, <2>1, <3>1 DEF KeysApart
  <2> QED BY <1>5, <2>2, <2>3, <2>4, <2>5 DEF Next, Pem
<1> QED BY <1>4, <1>5

LEMMA NextKeysFound ==
  ASSUME Numbers, Candidate, InBlock, InLines, Sound, KeysFound, [Next]_vars
  PROVE  KeysFound'
<1> DEFINE Found(set, s, e) == \E f \in set : \/ f.start = s /\ f.end = e
                                              \/ f.start < s /\ s < f.end
<1>1. text' = text /\ Behind' = Behind
  BY TextStays, SameText
<1>2. /\ start \in 1..Behind /\ end \in Nat /\ from \in 1..Behind /\ Len(text) \in Nat
      /\ Behind = Len(text) + 1
  BY PemFacts
<1>3. SUFFICES ASSUME NEW s \in 1..Len(text), NEW e \in 1..Behind, IsBlock(s, e),
                      pc' = "pem" => s < from',
                      pc' \in {"footer", "lines"} => s < start'
               PROVE  Found(Keys', s, e)
  <2>1. \A s \in 1..Len(text), e \in 1..Behind : IsBlock(s, e)' => IsBlock(s, e)
    BY <1>1, SameBlocks
  <2> QED BY <1>1, <1>3, <2>1 DEF KeysFound
<1>4. (pc = "pem" => s < from) /\ (pc \in {"footer", "lines"} => s < start)
      => Found(Keys, s, e)
  BY <1>3 DEF KeysFound
<1>5. text[s] = Header
  BY <1>3 DEF IsBlock
<1>6. Occurs(<<Header>>, s)
  BY <1>5, HeaderAt
<1>7. CASE PemReport
  <2> DEFINE x == PemFinding
  <2>1. /\ pc = "lines" /\ pc' = "pem" /\ from' = end
    BY <1>7 DEF PemReport
  <2>2. /\ Keys' = Keys \union {x} /\ x.start = start /\ x.end = end
        /\ IsBlock(start, end)
    BY <1>7, KeySteps, NextSoundKey
  <2> HIDE DEF x
  <2>3. CASE s < start
    BY <1>4, <2>1, <2>2, <2>3
  <2>4. CASE s > start
    BY <1>3, <2>1, <2>2, <2>4
  <2>5. CASE s = start
    <3>1. PICK f \in header_end..Len(text) : IsFirstFooter(header_end, f) /\ IsDelimiterEnd(f, e)
      BY <1>3, <2>1, <2>5, BlockHere
    <3>2. /\ footer_start \in Int /\ header_end \in Int /\ IsFirstFooter(header_end, footer_start)
          /\ IsDelimiterEnd(footer_start, end)
      BY <2>1, LineFacts DEF InLines
    <3>3. f = footer_start
      BY <3>1, <3>2, SameFooter
    <3>4. e = end
      BY <3>1, <3>2, <3>3, SameDelimiterEnd
    <3> QED BY <2>2, <2>5, <3>4
  <2> QED BY <1>2, <2>3, <2>4, <2>5
<1>8. CASE ~PemReport
  <2>1. Keys' = Keys
    BY <1>8, KeySteps
  <2>2. CASE PemHeader
    <3>1. PICK i \in from..Len(text), d \in from..Behind :
            /\ IsNext(<<Header>>, i) /\ IsDelimiterEnd(i, d)
            /\ from' = i + 1
            /\ \/ ~HasKind(i, d) /\ pc' = "pem"
               \/ pc' = "footer" /\ start' = i
      BY <2>2 DEF PemHeader
    <3>2. pc = "pem" /\ pc' \in {"pem", "footer"}
      BY <2>2 DEF PemHeader
    <3>3. s \notin from..i - 1
      BY <1>6, <3>1 DEF IsNext
    <3>4. s # i
      <4>1. SUFFICES ASSUME s = i PROVE FALSE
        OBVIOUS
      <4>2. PICK h \in s..Behind : IsDelimiterEnd(s, h) /\ HasKind(s, h)
        BY <1>3 DEF IsBlock
      <4>3. h = d
        BY <3>1, <4>1, <4>2, SameDelimiterEnd
      <4>4. pc' = "footer" /\ start' = i
        BY <3>1, <4>1, <4>2, <4>3
      <4> QED BY <1>2, <1>3, <3>1, <4>1, <4>4
    <3>5. s < i + 1
      BY <1>2, <1>3, <3>1, <3>2
    <3>6. s < from
      BY <1>2, <3>1, <3>3, <3>4, <3>5
    <3> QED BY <1>4, <2>1, <3>2, <3>6
  <2>3. CASE PemFooter \/ UNCHANGED vars
    <3>1. /\ UNCHANGED <<start, from>>
          /\ \/ pc = "footer" /\ pc' = "lines"
             \/ pc' = pc
      BY <2>3 DEF PemFooter, vars, candidate
    <3> QED BY <1>3, <1>4, <2>1, <3>1
  <2>4. CASE PemNoFooter \/ PemRefused \/ PemLine
    <3>1. /\ UNCHANGED <<start, from>> /\ pc \in {"footer", "lines"} /\ pc' \in {"lines", "pem"}
      BY <2>4 DEF PemNoFooter, PemRefused, PemLine, NextBlock, candidate
    <3>2. from = start + 1
      BY <3>1 DEF InBlock
    <3>3. ASSUME s = start, pc' = "pem"
          PROVE  FALSE
      <4>1. ~Documented(s, e, PemRadius)
        BY <1>3, <3>1, <3>3, BlockHere
      <4>2. PICK f \in header_end..Len(text) :
              /\ IsFirstFooter(header_end, f) /\ IsDelimiterEnd(f, e) /\ HasKind(f, e)
              /\ \A i \in header_end..f - 1 : IsLineByte(header_end, f, i)
              /\ \A i \in header_end..f - 1 - LineCap : \E j \in i..i + LineCap : text[j] \notin Base64
              /\ \E i \in header_end..f - 1 : text[i] \in Base64
        BY <1>3, <3>1, <3>3, BlockHere
      <4>3. CASE PemNoFooter
        <5>1. PICK d \in f..Behind : IsDelimiterEnd(f, d) /\ ~HasKind(f, d)
          BY <4>2, <4>3 DEF PemNoFooter
        <5>2. header_end \in Int
          BY <3>1, <1>2 DEF InBlock
        <5>3. f \in Int
          BY <1>2, <5>2
        <5> QED BY <4>2, <5>1, <5>3, SameDelimiterEnd
      <4>4. ASSUME PemRefused \/ PemLine
            PROVE  /\ pc = "lines" /\ f = footer_start /\ e = end
                   /\ header_end \in Nat /\ f \in Nat /\ line_start \in Nat /\ header_end <= line_start
        <5>1. pc = "lines"
          BY <4>4 DEF PemRefused, PemLine
        <5>2. /\ header_end \in Nat /\ footer_start \in Nat /\ line_start \in Nat
              /\ header_end <= line_start
          BY <5>1, LineFacts
        <5>3. IsFirstFooter(header_end, footer_start) /\ IsDelimiterEnd(footer_start, end)
          BY <5>1 DEF InLines
        <5>4. f \in Int /\ header_end \in Int /\ footer_start \in Int
          BY <1>2, <5>2
        <5>5. f = footer_start
          BY <4>2, <5>3, <5>4, SameFooter
        <5>6. e = end
          BY <4>2, <5>3, <5>4, <5>5, SameDelimiterEnd
        <5> QED BY <5>1, <5>2, <5>5, <5>6
      <4>5. CASE PemRefused
        <5>1. line_start > footer_start /\ (last_line = NoLine \/ Documented(start, end, PemRadius))
          BY <4>5 DEF PemRefused
        <5>2. last_line = NoLine
          BY <3>3, <4>1, <4>4, <4>5, <5>1
        <5>3. LastLine(header_end, footer_start, line_start)
          BY <4>4, <4>5 DEF InLines
        <5>4. \A a, b \in header_end..footer_start : <<a, b>> # NoLine \/ ~(a < b)
          BY DEF NoLine
        <5>5. \A i \in header_end..footer_start - 1 : i < line_start => text[i] \notin Base64
          BY <5>2, <5>3, <5>4 DEF LastLine
        <5>6. \A i \in header_end..footer_start - 1 : i < line_start
          BY <4>4, <4>5, <5>1
        <5> QED BY <4>2, <4>4, <4>5, <5>5, <5>6
      <4>6. CASE PemLine
        <5>1. line_start <= footer_start
          BY <4>6 DEF PemLine
        <5>2. PICK d \in line_start..footer_start :
                /\ IsLineEnd(line_start, footer_start, d)
                /\ \/ pc' = pc
                   \/ StopOf(line_start, d) > line_start /\ ~IsBase64Line(line_start, StopOf(line_start, d))
          BY <4>6 DEF PemLine, StopOf
        <5>3. StopOf(line_start, d) > line_start /\ ~IsBase64Line(line_start, StopOf(line_start, d))
          BY <3>3, <4>4, <4>6, <5>2
        <5> QED BY <4>2, <4>4, <4>6, <5>1, <5>2, <5>3, LineRefused
      <4> QED BY <2>4, <4>3, <4>5, <4>6
    <3>4. s < start
      BY <1>2, <1>3, <3>1, <3>2, <3>3
    <3> QED BY <1>4, <2>1, <3>1, <3>4
  <2>5. CASE PemDone
    <3>1. pc = "pem" /\ NoNext(<<Header>>)
      BY <2>5 DEF PemDone
    <3>2. s < from
      BY <1>2, <1>6, <3>1 DEF NoNext
    <3> QED BY <1>4, <2>1, <3>1, <3>2
  <2>6. CASE Token \/ Sort
    <3>1. pc \notin {"pem", "footer", "lines"}
      BY <2>6, TokenSteps, BodySteps, SearchSteps, Sorted DEF StartToken
    <3> QED BY <1>4, <2>1, <3>1
  <2> QED BY <1>8, <2>2, <2>3, <2>4, <2>5, <2>6 DEF Next, Pem
<1> QED BY <1>7, <1>8

-----------------------------------------------------------------------------
(* The inductive invariant, and what follows from it. *)

IInv ==
  /\ Numbers /\ Candidate /\ Reads /\ Judged
  /\ InBlock /\ InLines
  /\ Sound /\ Complete /\ KeysApart /\ KeysFound

THEOREM Invariance == Spec => []IInv
<1>1. ASSUME Init
      PROVE  IInv
  <2>1. /\ text \in Seq(Bytes) /\ at = 1 /\ pc = "pem" /\ from = 1 /\ start = 1 /\ end = 1
        /\ segments = 0 /\ segment_len = 0 /\ out = <<>> /\ ToSet(out) = {}
    BY <1>1, ConstantsAssumption DEF Init, ToSet
  <2>2. Len(text) \in Nat /\ Behind = Len(text) + 1 /\ out \in Seq(ToSet(out))
    BY <2>1 DEF Behind
  <2>3. Numbers
    BY <2>1, <2>2, ValidatorsAreAList DEF Numbers
  <2>4. Candidate /\ Reads /\ Judged /\ InBlock /\ InLines
    BY <2>1 DEF Candidate, Reads, Judged, InBlock, InLines
  <2>5. Sound /\ KeysApart
    BY <2>1 DEF Sound, KeysApart, Keys
  <2>6. Complete /\ KeysFound
    BY <2>1, <2>2 DEF Complete, KeysFound, Passed
  <2> QED BY <2>3, <2>4, <2>5, <2>6 DEF IInv
<1>2. ASSUME IInv, [Next]_vars
      PROVE  IInv'
  BY <1>2, NextNumbers, NextCandidate, NextReads, NextJudged, NextInBlock, NextInLines,
     NextSound, NextComplete, NextKeysApart, NextKeysFound DEF IInv
<1> QED BY <1>1, <1>2, PTL DEF Spec

LEMMA PemIsNoTokenRule == PemRule \notin TokenRules
BY ValidatorFacts DEF TokenRules

(* At the end the findings about tokens are the tokens of the text.        *)
THEOREM TokensExact == Spec => []TokensAreExact
<1>1. ASSUME Numbers, Sound, Complete
      PROVE  TokensAreExact
  <2>1. SUFFICES ASSUME Done
                 PROVE  Spans(TokenRules) =
                          {<<m[1].rule, m[2], m[3]>> :
                             m \in {c \in ToSet(Validators) \X (1..Len(text)) \X (1..Behind) :
                                      IsToken(c[1], c[2], c[3])}}
    BY DEF TokensAreExact
  <2> DEFINE Tokens == {c \in ToSet(Validators) \X (1..Len(text)) \X (1..Behind) :
                          IsToken(c[1], c[2], c[3])}
  <2>2. ASSUME NEW g \in ToSet(out), g.rule \in TokenRules
        PROVE  \E m \in Tokens : <<g.rule, g.start, g.end>> = <<m[1].rule, m[2], m[3]>>
    <3>1. PICK k \in DOMAIN Validators : TokenOf(k, g)
      BY <1>1, <2>2, PemIsNoTokenRule DEF Sound, KeyOf
    <3>2. /\ g.rule = Validators[k].rule /\ g.start \in 1..Len(text) /\ g.end \in 1..Behind
          /\ IsToken(Validators[k], g.start, g.end) /\ Validators[k] \in ToSet(Validators)
      BY <3>1 DEF TokenOf, ToSet
    <3>3. <<Validators[k], g.start, g.end>> \in Tokens
      BY <3>2
    <3> QED BY <3>2, <3>3
  <2>3. ASSUME NEW m \in Tokens
        PROVE  \E g \in ToSet(out) :
                 g.rule \in TokenRules /\ <<g.rule, g.start, g.end>> = <<m[1].rule, m[2], m[3]>>
    <3>1. m[1] \in ToSet(Validators) /\ m[2] \in 1..Len(text) /\ m[3] \in 1..Behind
          /\ IsToken(m[1], m[2], m[3])
      OBVIOUS
    <3>2. PICK k \in DOMAIN Validators : Validators[k] = m[1]
      BY <3>1 DEF ToSet
    <3>3. Passed(k, m[2])
      BY <2>1 DEF Done, Passed
    <3>4. PICK g \in ToSet(out) : g.rule = Validators[k].rule /\ g.start = m[2] /\ g.end = m[3]
      BY <1>1, <3>1, <3>2, <3>3 DEF Complete
    <3> QED BY <3>2, <3>4 DEF TokenRules
  <2> QED BY <2>2, <2>3 DEF Spans
<1> QED BY <1>1, Invariance, PTL DEF IInv

(* At the end the findings about keys are the blocks of the text, but for  *)
(* those that begin within a block that was found.                         *)
THEOREM BlocksExact == Spec => []BlocksAreExact
<1>1. ASSUME Numbers, Sound, KeysApart, KeysFound
      PROVE  BlocksAreExact
  <2> DEFINE found == {<<m[2], m[3]>> : m \in Spans({PemRule})}
             Blocks == {b \in (1..Len(text)) \X (1..Behind) :
                          IsBlock(b[1], b[2]) /\ ~\E a \in found : a[1] < b[1] /\ b[1] < a[2]}
  <2>1. SUFFICES ASSUME Done
                 PROVE  found = Blocks
    BY DEF BlocksAreExact
  <2>2. found = {<<f.start, f.end>> : f \in Keys}
    <3>1. \A f \in Keys : <<f.rule, f.start, f.end>> \in Spans({PemRule})
      BY DEF Spans, Keys
    <3>2. \A m \in Spans({PemRule}) : \E f \in Keys : m = <<f.rule, f.start, f.end>>
      BY DEF Spans, Keys
    <3>3. ASSUME NEW f \in Keys
          PROVE  <<f.start, f.end>> \in found
      <4> DEFINE m == <<f.rule, f.start, f.end>>
      <4>1. m \in Spans({PemRule})
        BY <3>1
      <4>2. m[2] = f.start /\ m[3] = f.end
        OBVIOUS
      <4> HIDE DEF m
      <4> QED BY <4>1, <4>2
    <3>4. ASSUME NEW m \in Spans({PemRule})
          PROVE  <<m[2], m[3]>> \in {<<f.start, f.end>> : f \in Keys}
      <4>1. PICK f \in Keys : m = <<f.rule, f.start, f.end>>
        BY <3>2
      <4>2. m[2] = f.start /\ m[3] = f.end
        BY <4>1
      <4> QED BY <4>2
    <3> QED BY <3>3, <3>4
  <2> HIDE DEF found
  <2>3. \A f \in Keys : f.start \in 1..Len(text) /\ f.end \in 1..Behind /\ IsBlock(f.start, f.end)
    BY <1>1, ValidatorFacts DEF Sound, Keys, KeyOf, TokenOf
  <2>4. ASSUME NEW f \in Keys
        PROVE  <<f.start, f.end>> \in Blocks
    <3>1. ASSUME NEW g \in Keys, g.start < f.start, f.start < g.end
          PROVE  FALSE
      <4>1. g.end <= f.start /\ f.start \in Int /\ g.end \in Int
        BY <1>1, <2>3, <3>1 DEF KeysApart
      <4> QED BY <3>1, <4>1
    <3> QED BY <2>2, <2>3, <3>1
  <2>5. ASSUME NEW b \in Blocks
        PROVE  b \in found
    <3>1. b[1] \in 1..Len(text) /\ b[2] \in 1..Behind /\ IsBlock(b[1], b[2]) /\ b = <<b[1], b[2]>>
          /\ ~\E a \in found : a[1] < b[1] /\ b[1] < a[2]
      OBVIOUS
    <3> HIDE DEF Blocks
    <3>2. PICK f \in Keys : \/ f.start = b[1] /\ f.end = b[2]
                            \/ f.start < b[1] /\ b[1] < f.end
      BY <1>1, <2>1, <3>1 DEF KeysFound, Done
    <3>3. <<f.start, f.end>> \in found
      BY <2>2
    <3> QED BY <3>1, <3>2, <3>3
  <2> QED BY <2>2, <2>4, <2>5
<1> QED BY <1>1, Invariance, PTL DEF IInv

LEMMA TailIsShort ==
  ASSUME NEW a \in Int, NEW b \in Int, NEW S, S \subseteq TailOf(a, b)
  PROVE  Cardinality(S) <= TailBytes /\ TailOf(a, b) \subseteq a..b - 1
<1>1. TailBytes \in Nat
  BY ConstantsAssumption
<1>2. TailOf(a, b) \subseteq b - TailBytes..b - 1 /\ TailOf(a, b) \subseteq a..b - 1
  BY <1>1 DEF TailOf
<1>3. IsFiniteSet(b - TailBytes..b - 1) /\ Cardinality(b - TailBytes..b - 1) = TailBytes
  <2>1. b - TailBytes \in Int /\ b - 1 \in Int /\ b - 1 - (b - TailBytes) + 1 = TailBytes
        /\ (b - TailBytes > b - 1 => TailBytes = 0)
    BY <1>1
  <2> QED BY <2>1, FS_Interval
<1>4. S \subseteq b - TailBytes..b - 1
  BY <1>2
<1> QED BY <1>2, <1>3, <1>4, FS_Subset, ZenonT(30)

(* Evidence shows nothing around the secret and at most a few trailing     *)
(* bytes of it, but for a key that begins on the line of its marker: of    *)
(* that it shows this line and a few trailing bytes.                       *)
THEOREM Redacted == Spec => []EvidenceIsRedacted
<1>1. ASSUME Numbers, Sound
      PROVE  EvidenceIsRedacted
  <2> SUFFICES ASSUME NEW f \in ToSet(out)
               PROVE  LET open == IF f.rule = PemRule /\ KeyOnMarkerLine(f.start)
                                    THEN MarkerLine(f.start) ELSE {}
                      IN  /\ f.shown \subseteq f.start..f.end - 1
                          /\ Cardinality((f.shown \intersect SecretOf(f)) \ open) <= TailBytes
    BY DEF EvidenceIsRedacted, ToSet
  <2> DEFINE open == IF f.rule = PemRule /\ KeyOnMarkerLine(f.start)
                       THEN MarkerLine(f.start) ELSE {}
             leak == (f.shown \intersect SecretOf(f)) \ open
  <2>1. CASE KeyOf(f)
    <3>1. f.rule = PemRule /\ f.start \in Int /\ f.end \in Int /\ f.end <= Behind
      BY <2>1, PemFacts, <1>1 DEF KeyOf
    <3>2. PICK h, a, b \in f.start..f.end :
            /\ h <= f.start + HeaderCap
            /\ \A j \in f.start..h - 1 : text[j] # Newline
            /\ f.shown = (f.start..h - 1) \union TailOf(a, b)
      BY <2>1 DEF KeyOf
    <3>3. h \in Int /\ a \in Int /\ b \in Int /\ Behind \in Int /\ HeaderCap \in Int
      BY <1>1, <3>1, PemFacts
    <3>4. TailOf(a, b) \subseteq a..b - 1
      BY <3>3, TailIsShort
    <3>5. f.shown \subseteq f.start..f.end - 1
      BY <3>1, <3>2, <3>3, <3>4
    <3>6. f.start..h - 1 \subseteq MarkerLine(f.start)
      BY <3>1, <3>2, <3>3 DEF MarkerLine, Least
    (* What is shown of the marker line is the marker or no key, or it is  *)
    (* disregarded.                                                        *)
    <3>7. \A j \in leak : j \notin MarkerLine(f.start)
      <4>1. CASE KeyOnMarkerLine(f.start)
        BY <3>1, <4>1
      <4>2. CASE ~KeyOnMarkerLine(f.start)
        <5>1. SecretOf(f) = KeyBytes(f)
          BY <3>1 DEF SecretOf
        <5>2. \A j \in KeyBytes(f) : text[j] \in Base64 /\ j \notin Marker(f.start)
          BY DEF KeyBytes
        <5> QED BY <4>2, <5>1, <5>2 DEF KeyOnMarkerLine
      <4> QED BY <4>1, <4>2
    <3>8. leak \subseteq TailOf(a, b)
      BY <3>2, <3>6, <3>7
    <3> HIDE DEF leak
    <3>9. Cardinality(leak) <= TailBytes
      BY <3>3, <3>8, TailIsShort
    <3> QED BY <3>5, <3>9 DEF leak
  <2>2. ASSUME NEW k \in DOMAIN Validators, TokenOf(k, f)
        PROVE  f.shown \subseteq f.start..f.end - 1 /\ Cardinality(leak) <= TailBytes
    <3> DEFINE v == Validators[k]
               b == f.start + Len(v.prefix)
    <3>1. /\ f.rule = v.rule /\ v.rule # PemRule /\ Len(v.prefix) \in Nat
          /\ f.start \in 1..Len(text) /\ f.end \in 1..Behind
          /\ IsToken(v, f.start, f.end)
          /\ f.shown = (f.start..b - 1) \union TailOf(f.start, f.end)
      BY <2>2, ValidatorFacts DEF TokenOf
    <3>2. /\ f.start \in Int /\ f.end \in Int /\ b \in Int /\ Occurs(v.prefix, f.start)
          /\ IsBody(v, f.start, f.end)
      BY <1>1, <3>1, PemFacts DEF IsToken
    <3>3. b < f.end
      BY <3>2, BodyIsLong
    <3>4. v \in ToSet(Validators)
      BY DEF ToSet
    <3> HIDE DEF v
    <3>5. f.start..b - 1 \subseteq PrefixOf(f)
      BY <3>1, <3>2, <3>4 DEF PrefixOf
    <3> HIDE DEF b
    <3>6. TailOf(f.start, f.end) \subseteq f.start..f.end - 1
      BY <3>2, TailIsShort
    <3>7. f.shown \subseteq f.start..f.end - 1
      BY <3>1, <3>2, <3>3, <3>6
    <3>8. leak \subseteq TailOf(f.start, f.end)
      BY <3>1, <3>5 DEF SecretOf
    <3> HIDE DEF leak
    <3>9. Cardinality(leak) <= TailBytes
      BY <3>2, <3>8, TailIsShort
    <3> QED BY <3>7, <3>9
  <2>3. KeyOf(f) \/ \E k \in DOMAIN Validators : TokenOf(k, f)
    BY <1>1 DEF Sound
  <2> QED BY <2>1, <2>2, <2>3
<1> QED BY <1>1, Invariance, PTL DEF IInv

(* No token of a closed rule is reported from within another.              *)
THEOREM TokensApart == Spec => []NoTokenWithinToken
<1>1. ASSUME Numbers, Sound
      PROVE  NoTokenWithinToken
  <2>1. SUFFICES ASSUME NEW f \in ToSet(out), NEW g \in ToSet(out),
                        f.rule = g.rule, f.rule \in TokenRules, Closed(f.rule), f.start < g.start
                 PROVE  f.end <= g.start
    BY DEF NoTokenWithinToken, ToSet
  <2>2. PICK k \in DOMAIN Validators : TokenOf(k, f)
    BY <1>1, <2>1, PemIsNoTokenRule DEF Sound, KeyOf
  <2>3. PICK l \in DOMAIN Validators : TokenOf(l, g)
    BY <1>1, <2>1, PemIsNoTokenRule DEF Sound, KeyOf
  <2> DEFINE v == Validators[k]
             b == f.start + Len(v.prefix)
             p == g.start - 1
  <2>4. /\ v.rule = f.rule /\ Validators[l].rule = f.rule
        /\ f.start \in 1..Len(text) /\ f.end \in 1..Behind /\ g.start \in 1..Len(text)
        /\ Occurs(v.prefix, f.start) /\ IsBody(v, f.start, f.end) /\ ~MidToken(Validators[l], g.start)
    BY <2>1, <2>2, <2>3 DEF TokenOf, IsToken
  <2>5. v.shape # "segments" /\ v.body \union ToSet(v.prefix) \subseteq Validators[l].boundary
    BY <2>1, <2>4 DEF Closed
  <2>6. /\ v.shape \in Shapes /\ v.prefix \in Seq(Bytes) /\ Len(v.prefix) \in Nat
        /\ Len(text) \in Nat /\ Behind = Len(text) + 1
    BY <1>1, ValidatorFacts, PemFacts
  <2>7. AllIn(b, f.end, v.body)
    BY <2>4, <2>5, <2>6 DEF IsBody, Shapes
  <2>8. f.start \in Int /\ f.end \in Int /\ g.start \in Int /\ b \in Int /\ p \in Int
        /\ p >= f.start /\ g.start > 1 /\ p = g.start - 1
    BY <2>1, <2>4, <2>6
  <2>9. SUFFICES ASSUME f.end > g.start
                 PROVE  FALSE
    BY <2>8
  <2>10. CASE p >= b
    <3>1. p \in b..f.end - 1
      BY <2>8, <2>9, <2>10
    <3>2. text[p] \in v.body
      BY <2>7, <3>1 DEF AllIn
    <3> QED BY <2>4, <2>5, <2>8, <3>2 DEF MidToken
  <2>11. CASE p < b
    <3>1. p - f.start + 1 \in 1..Len(v.prefix) /\ f.start + (p - f.start + 1) - 1 = p
      <4>1. f.start \in Int /\ p \in Int /\ p >= f.start /\ Len(v.prefix) \in Nat
        BY <2>6, <2>8
      <4>2. p < f.start + Len(v.prefix)
        BY <2>11
      <4> HIDE DEF b, p, v
      <4> QED BY <4>1, <4>2
    <3>2. DOMAIN v.prefix = 1..Len(v.prefix)
      BY <2>6
    <3>3. text[p] = v.prefix[p - f.start + 1]
      BY <2>4, <3>1, <3>2 DEF Occurs
    <3>4. text[p] \in ToSet(v.prefix)
      BY <3>1, <3>2, <3>3 DEF ToSet
    <3> QED BY <2>4, <2>5, <2>8, <3>4 DEF MidToken
  <2> QED BY <2>8, <2>10, <2>11
<1> QED BY <1>1, Invariance, PTL DEF IInv

=============================================================================
