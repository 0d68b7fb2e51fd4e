------------------------------ MODULE MCSecrets ------------------------------
(***************************************************************************)
(* Small texts for every family of validators.  "A" stands for a capital   *)
(* or a digit, "a" for a small letter, "E" for a deny word in capitals.    *)
(***************************************************************************)
EXTENDS Secrets

Capitals == {"A", "E"}
Alnum == {"A", "E", "a", "AKIA", "ghp", "pat", "sk", "xox", "eyJ"}

MCBytes == Alnum \union {"_", "-", ".", "/", " ", "lf", "cr", "BEGIN", "END", "KIND", "hook"}
MCNewline == "lf"
MCCarriageReturn == "cr"
MCHeader == "BEGIN"
MCFooter == "END"
MCKind == "KIND"
MCBase64 == {"A", "E", "a", "/"}
MCDenyWords == {"E"}

Rule(rule, prefix, boundary, begin, body, shape, min, cap, inner, separator) ==
  [rule |-> rule, prefix |-> prefix, boundary |-> boundary, begin |-> begin, body |-> body,
   shape |-> shape, min |-> min, cap |-> cap, inner |-> inner, separator |-> separator]

MCValidators ==
  << Rule(1, <<"AKIA">>, Alnum, 1, Capitals, "fixed", 2, 0, {}, "none"),
     Rule(4, <<"ghp", "_">>, Alnum \union {"_"}, 2, Alnum, "run", 2, 4, {}, "none"),
     Rule(4, <<"pat", "_">>, Alnum \union {"_"}, 2, Alnum \union {"_"}, "run", 1, 4, {}, "none"),
     Rule(6, <<"xox", "-">>, Alnum \union {"_"}, 2, Alnum \union {"-"}, "run", 2, 4, {"-"}, "none"),
     Rule(5, <<"sk", "-">>, Alnum \union {"_"}, 2, Alnum \union {"-", "_"}, "run", 2, 4, {}, "none"),
     Rule(7, <<"hook">>, {}, 1, Alnum \union {"-", "_"}, "segments", 1, 6, {}, "/"),
     Rule(2, <<"eyJ">>, Alnum \union {"_"}, 0, Alnum \union {"-", "_"}, "segments", 2, 7, {}, ".") >>

UpTo(n, S) == UNION {[1..k -> S] : k \in 0..n}

(* Bodies around a prefix, before one another and at both ends. *)
AwsTexts == UpTo(5, {"AKIA", "A", "a", "E", " "}) 
RunTexts(name, sep, bytes) ==
  {t \in UpTo(6, {name, sep} \union bytes) : \E i \in DOMAIN t : t[i] = name}
GitHubTexts == RunTexts("ghp", "_", {"a"}) \union RunTexts("pat", "_", {"a", "lf"})
DashTexts == RunTexts("sk", "-", {"a", "E"}) \union RunTexts("xox", "-", {"a"})

(* Three segments of up to four bytes between two separators. *)
Parts == {<<>>, <<"a">>, <<"a", "-">>, <<"a", "a", "a">>}
JwtTexts == {p \o <<"eyJ">> \o a \o s \o b \o u \o c \o z :
               p \in {<<>>, <<"_">>, <<"lf">>}, a, b, c \in Parts,
               s, u \in {<<".">>, <<"/">>}, z \in {<<>>, <<".">>, <<" ", "E">>}}
HookTexts == {p \o <<"hook">> \o a \o <<"/">> \o b \o u \o c \o z :
               p \in {<<>>, <<"a">>, <<"hook">>}, a, b, c \in Parts,
               u \in {<<".">>, <<"/">>}, z \in {<<>>, <<"/">>, <<"lf", "E">>}}

(* Headers, bodies and footers, sound and not, alone and one after another; *)
(* two of the keys begin on the line of their header.                      *)
Lines == {<<>>, <<"a", "lf", "A", "lf">>, <<"a", "a", "A">>, <<"lf">>, <<"lf", "a", "lf">>, <<"lf", "a", "cr", "lf", "A", "lf">>,
          <<"lf", " ", "lf">>, <<"lf", "a", "lf", "A", "A", "A", "lf">>, <<" ", "a">>}
Marks == {<<"BEGIN", "BEGIN", "KIND">>, <<"BEGIN", "KIND">>, <<"BEGIN", "a">>, <<"BEGIN", "a", "a", "KIND">>}
Ends == {<<"END", "KIND">>, <<"END", "a">>, <<"END", " ", " ", "KIND">>, <<>>}
Blocks == {h \o b \o f : h \in Marks, b \in Lines, f \in Ends}
PemTexts == {p \o b \o q : p \in {<<>>, <<"lf", "a">>, <<"E">>}, b \in Blocks,
                           q \in {<<>>, <<" ">>, <<"lf", "END", "KIND">>}}
            \union {<<"BEGIN", "KIND", "lf", "a", "lf", "END", "KIND">> \o g
                    \o <<"BEGIN", "KIND", "lf", "a", "lf", "END", "KIND">> :
                      g \in {<<>>, <<" ">>, <<"lf">>, <<"lf", "E">>}}

(* Different rules in one file. *)
MixedTexts == {a \o g \o b : a, b \in {<<"AKIA", "A", "A">>, <<"xox", "-", "a", "-">>,
                                       <<"eyJ", "a", ".", "a", "a", ".", "a", "a">>,
                                       <<"sk", "-", "a", "a">>, <<"ghp", "_", "a", "a", "a">>},
                            g \in {<<>>, <<"-">>, <<"lf">>, <<" ">>}}

MCTexts == AwsTexts \union GitHubTexts \union DashTexts \union JwtTexts \union HookTexts
           \union PemTexts \union MixedTexts
=============================================================================
