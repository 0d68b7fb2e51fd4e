------------------------------ MODULE WebProbe ------------------------------
(***************************************************************************)
(* The web probe (src/src/web.rs): which URLs it asks, and what it says of *)
(* the headers of the one response.                                        *)
(*                                                                         *)
(* A header is a sequence of at most one value; a value that is no ASCII   *)
(* text is Unreadable.  A Set-Cookie header is the sequence of its         *)
(* segments between semicolons, trimmed, each a key and at most one value; *)
(* an unreadable one has no segments.  Folded is to_ascii_lowercase on the *)
(* texts of the instance.                                                  *)
(***************************************************************************)
EXTENDS Integers, Sequences, SequencesExt

CONSTANTS Folded, HtmlTypes,   \* the folded content types that start with text/html
          Unreadable

Readable(header) == IF header = <<>> \/ header = <<Unreadable>> THEN <<>> ELSE header

(* The header is readable and says this, in whatever case. *)
Says(header, text) == header # <<>> /\ header[1] # Unreadable /\ Folded[header[1]] = text

LoopbackHosts == {"localhost", "127.0.0.1", "[::1]"}

(* What is refused before a socket opens. *)
Admitted(url, timeout) ==
  /\ timeout \in 1..120
  /\ url.parses
  /\ url.scheme \in {"http", "https"} /\ ~url.credentials
  /\ url.host \in LoopbackHosts

(* Bug: the cookie itself is read as an attribute. *)
AttributesWithCookie(cookie) == {cookie[i] : i \in DOMAIN cookie}

Attributes(cookie) == {cookie[i] : i \in 2..Len(cookie)}

(* parse_set_cookie returns something. *)
IsCookie(cookie) == cookie # <<>> /\ cookie[1].key # ""

HttpOnly(cookie) == \E a \in Attributes(cookie) : Folded[a.key] = "httponly"
Secure(cookie) == \E a \in Attributes(cookie) : Folded[a.key] = "secure"
SameSite(cookie) ==
  \E a \in Attributes(cookie) :
    Folded[a.key] = "samesite" /\ a.value # <<>>
      /\ Folded[a.value[1]] \in {"lax", "strict", "none"}

When(condition, finding) == IF condition THEN <<finding>> ELSE <<>>

Finding(rule_id, severity, cookie, confidence) ==
  [rule_id |-> rule_id, severity |-> severity, cookie |-> cookie, confidence |-> confidence]

CookieFindings(https, cookie) ==
  IF ~IsCookie(cookie) THEN <<>>
  ELSE LET name == cookie[1].key
       IN  When(~HttpOnly(cookie), Finding("WEB-COOKIE-HTTPONLY", "review", name, "high"))
             \o When(https /\ ~Secure(cookie),
                     Finding("WEB-COOKIE-SECURE", "medium", name, "high"))
             \o When(~SameSite(cookie), Finding("WEB-COOKIE-SAMESITE", "review", name, "high"))

(* The findings of one response, in the order of the report. *)
WebFindings(https, response) ==
  LET cookies == response.cookies
      html == response.content_type # <<>> /\ response.content_type[1] # Unreadable
                /\ Folded[response.content_type[1]] \in HtmlTypes
      reflected == response.allow_origin = <<"https://loop3r.invalid">>
  IN  When(~Says(response.content_type_options, "nosniff"),
           Finding("WEB-XCTO", "medium", "", "high"))
        \o When(html /\ ~response.csp, Finding("WEB-CSP", "review", "", "high"))
        \o When(https /\ ~response.hsts, Finding("WEB-HSTS", "medium", "", "high"))
        \o When(reflected /\ Says(response.allow_credentials, "true"),
                Finding("WEB-CORS-CREDENTIALS", "high", "", "confirmed"))
        \o FlattenSeq([i \in DOMAIN cookies |-> CookieFindings(https, cookies[i])])
        \o When((\E i \in DOMAIN cookies : IsCookie(cookies[i])) /\ ~response.cache_control,
                Finding("WEB-CACHE", "review", "", "high"))

(* web_scan after the answer: a redirect is reported and not followed. *)
WebScan(url, response) ==
  [status |-> response.status,
   redirect |-> IF response.status \in 300..399 THEN Readable(response.location) ELSE <<>>,
   findings |-> WebFindings(url.scheme = "https", response)]

=============================================================================
