----------------------------- MODULE MCTaintLite -----------------------------
(* TaintLite for TLC: every short function over four names and its chains  *)
(* in every order, and files with nested functions.                        *)
EXTENDS TaintLite

Fn(parent, first, last, names) ==
  [parent |-> parent, first |-> first, last |-> last, line |-> first, names |-> names]

Plain(owner, target, reads, line) ==
  [owner |-> owner, plain |-> TRUE, target |-> target, reads |-> reads,
   marker |-> FALSE, sanitized |-> FALSE, line |-> line]

Assignments(line) ==
  {Plain(1, t, r, line) : t \in Vars, r \in {{v} : v \in Vars} \union {{2, 3}}}
  \union {[Plain(1, t, {1}, line) EXCEPT !.marker = m, !.sanitized = ~m \/ t = 2] :
            t \in Vars, m \in BOOLEAN}

(* One function of three assignments; name 4 is `self`. *)
Bodies ==
  {[functions |-> <<Fn(0, 1, 5, names)>>, text |-> <<a, b, c>>] :
     names \in {{1, 4}, {2}}, a \in Assignments(2), b \in Assignments(3), c \in Assignments(4)}

(* More assignments than a function may have, one of them to a.b; a second *)
(* function, nested in it on some or all of its lines, or behind it from   *)
(* its last line on; beyond the two a third one.                           *)
Nested ==
  LET text == <<Plain(1, 2, {1}, 2), Plain(2, 3, {2}, 4), Plain(1, 3, {1}, 5),
                [Plain(1, 4, {1}, 5) EXCEPT !.plain = FALSE],
                Plain(1, 3, {2}, 6), Plain(1, 2, {3}, 7)>>
      places == {<<1, 1, 4>>, <<1, 1, 9>>, <<1, 3, 4>>, <<1, 3, 9>>, <<0, 9, 12>>}
  IN  {[functions |-> <<Fn(0, 1, 9, {1}), Fn(p[1], p[2], p[3], names), Fn(1, 4, 4, {2, 4})>>,
        text |-> SubSeq(text, 1, n)] :
         p \in places, names \in SUBSET {1, 2, 3}, n \in 0..6}

Chains == Bodies \union Nested

=============================================================================
