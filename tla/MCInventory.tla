---------------------------- MODULE MCInventory ----------------------------
(* Inventory for TLC: every short Cargo.lock, the shapes of a              *)
(* package-lock.json, and trees that hold both.  Names are 1 and 2,        *)
(* versions 3 and 4, sources 5 and 6, of which 6 has a # in it.            *)
EXTENDS Inventory

L(kind, value) == [kind |-> kind, value |-> value]

Whole == <<L("package", 1), L("name", 1), L("version", 3)>>

Lines ==
  {L("package", 1), L("table", 1), L("name", 1), L("name", 2), L("version", 4),
   L("source", 5), L("source", 6), L("other", 1)}

(* Two lines of any kind, alone, behind a package, and within a second.    *)
CargoTexts ==
  {start \o rest : start \in {<<>>, Whole, Whole \o <<L("package", 1), L("name", 1)>>},
                   rest \in UNION {[1..n -> Lines] : n \in 0..2}}
  \union {Whole \o <<L("table", 1), L("name", 2)>> \o Whole,
          <<L("name", 2)>> \o Whole \o Whole \o <<L("version", 6)>>}

E(place, name, version) ==
  [place |-> place, name |-> name, version |-> version, link |-> FALSE, object |-> TRUE]

Entries ==
  {E("root", 1, 3), E("top", 1, 3), E("top", 2, NoValue), E("nested", 1, 4),
   E("workspace", 2, 3), [E("top", 2, 4) EXCEPT !.link = TRUE],
   [E("top", 2, 4) EXCEPT !.object = FALSE]}

NpmTexts ==
  {[shape |-> shape, entries |-> entries] :
     shape \in {"packages", "dependencies", "neither", "invalid"},
     entries \in {S \in SUBSET Entries : Cardinality(S) <= 2}}

File(state, t) == [state |-> state, text |-> t]

(* 1 Cargo.lock, 2 package-lock.json, 3 Cargo.lock, 4 yarn.lock, 5 a file, *)
(* 6 target/Cargo.lock                                                     *)
Disk(cargo, npm, state, other) ==
  <<File("ok", cargo), File("ok", npm), File(state, Whole),
    File(other, <<>>), File("ok", <<>>), File("ok", Whole)>>

PlainNpm == [shape |-> "packages", entries |-> {E("top", 1, 3)}]

(* Many that stay as they are, some of which one file changes. *)
MCTrees ==
  [disk : {Disk(cargo, PlainNpm, "ok", "ok") : cargo \in CargoTexts}, edits : {0}]
  \union [disk : {Disk(Whole, npm, "gone", "link") : npm \in NpmTexts}, edits : {0}]
  \union [disk : {Disk(Whole \o <<L("package", 1)>>, PlainNpm, state, "ok") : state \in States},
          edits : {1}]

A(id, ecosystem, package, versions) ==
  [id |-> id, ecosystem |-> ecosystem, package |-> package,
   vulnerable_versions |-> versions, valid |-> TRUE]

MCSnapshots ==
  {[readable |-> TRUE,
    advisories |-> {A(1, "cargo", 1, {3, 4}), A(2, "npm", 1, {4}), A(3, "npm", 2, {4})}],
   [readable |-> TRUE,
    advisories |-> {A(1, "cargo", 1, {3}), [A(2, "npm", 1, {3}) EXCEPT !.valid = FALSE]}],
   [readable |-> FALSE, advisories |-> {}]}

=============================================================================
