----------------------------- MODULE BuildMatrix -----------------------------
(***************************************************************************)
(* What `west zmk-build' builds: the targets of build.yaml and of the      *)
(* command line, filtered, and the artifact name each gets, which is also  *)
(* the name of its build directory (scripts/zmk_build.py).                 *)
(*                                                                         *)
(* A name is a sequence of words, joined by __ or _ in the program.        *)
(***************************************************************************)
EXTENDS Naturals, Sequences, FiniteSets, SequencesExt

CONSTANTS Word,
          Clean,     (* Clean[w]: w with ' ' and '/' replaced by '_'       *)
          NoWord     (* an absent artifact, shield or option               *)

ASSUME MatrixAssumption ==
  /\ Clean \in [Word -> Word]
  /\ \A w \in Word : Clean[Clean[w]] = Clean[w]
  /\ NoWord \notin Word /\ NoWord \notin Seq(Word)

Name == Seq(Word)

\* A target as it is listed, with or without a name, and once it has one.
Listed == [board : Word, shield : Word \cup {NoWord}, artifact : Name \cup {NoWord}]
Target == [board : Word, shield : Word \cup {NoWord}, artifact : Name]

\* An entry of an editor's file, and whose it is.
FileEntry == [name : Name, by : {"user", "west"}]

\* What a build.yaml may hold.
BuildYaml == Seq([board : Seq(Word), shield : Seq(Word), include : Seq(Listed)])

-----------------------------------------------------------------------------
(* build.yaml, a sequence of documents.                                    *)

_load_yaml(documents) ==
  [boards  |-> ToSet(FlattenSeq([i \in DOMAIN documents |-> documents[i].board])),
   shields |-> ToSet(FlattenSeq([i \in DOMAIN documents |-> documents[i].shield])),
   include |-> FlattenSeq([i \in DOMAIN documents |-> documents[i].include])]

\* The first that exists of ../build.yaml, ../build.yml, build.yaml, build.yml;
\* `places' has the four files, << >> where there is none.
_find_build_yaml(places) ==
  LET found == SelectInSeq(places, LAMBDA file : file # << >>)
  IN IF found = 0 THEN << >> ELSE places[found]

-----------------------------------------------------------------------------
\* The elements of a set in each of the orders Python may iterate it.
Iterations(S) == SetToSeqs(S)

\* The listed targets, then every board with every shield.
Matrices(yaml, args) ==
  LET boards  == IF args.board # {} THEN args.board ELSE yaml.boards
      shields == IF args.shield # {} THEN args.shield ELSE yaml.shields
      row(b, ss) == [i \in DOMAIN ss |-> [board |-> b, shield |-> ss[i], artifact |-> NoWord]]
  IN {yaml.include \o FlattenSeq([i \in DOMAIN bs |-> row(bs[i], ss)]) :
        bs \in Iterations(boards), ss \in Iterations(shields)}

\* A target without a name passes --artifact, but matches a pattern as ''.
filter_out_matrix_by_args(args, inc) ==
  /\ args.board # {} => inc.board \in args.board
  /\ args.shield # {} => inc.shield \in args.shield
  /\ args.artifact # NoWord /\ inc.artifact # NoWord => inc.artifact = args.artifact
  /\ args.artifact_filter # NoWord => inc.artifact \in args.artifact_filter

Filtered(args, matrix) ==
  FlattenSeq([i \in DOMAIN matrix |->
                IF filter_out_matrix_by_args(args, matrix[i]) THEN <<matrix[i]>> ELSE << >>])

\* Every target without a name, and every target that is to be listed, is taken
\* to have a shield; one without raises.
Nameable(args, matrix) ==
  \A i \in DOMAIN matrix :
    matrix[i].shield # NoWord \/ (args.interactive /\ matrix[i].artifact # NoWord)

\* <artifact>__<board>__<shield>, cleaned; a name of build.yaml stays as it is.
DefaultName(args, inc) ==
  LET raw == (IF args.artifact = NoWord THEN << >> ELSE args.artifact)
               \o <<inc.board, inc.shield>>
  IN [i \in DOMAIN raw |-> Clean[raw[i]]]

Named(args, matrix) ==
  [i \in DOMAIN matrix |->
     IF matrix[i].artifact # NoWord THEN matrix[i]
     ELSE [matrix[i] EXCEPT !.artifact = DefaultName(args, matrix[i])]]

\* Mutant: the names are compared before the characters are replaced.
RawNamesDiffer(matrix) ==
  \A i, j \in DOMAIN matrix : i # j =>
    \/ matrix[i].artifact # matrix[j].artifact
    \/ matrix[i].board # matrix[j].board \/ matrix[i].shield # matrix[j].shield

NamesDiffer(matrix) ==
  Cardinality({matrix[i].artifact : i \in DOMAIN matrix}) = Len(matrix)

\* _reset, _debug_jlink, _debug_print and --artifact-suffix.
Suffixed(args, matrix) ==
  [i \in DOMAIN matrix |-> [matrix[i] EXCEPT !.artifact = @ \o args.suffix]]

-----------------------------------------------------------------------------
(* --vscode: one entry per target, under its name.                         *)

\* Mutant: looked up under the label of launch.json.
HasEntryLabelled(file, name) ==
  \E k \in DOMAIN file : file[k].name = <<"Debug ZMK">> \o name

HasEntry(file, name) == \E k \in DOMAIN file : file[k].name = name
EntryFor(file, name) ==
  file[CHOOSE k \in DOMAIN file :
         file[k].name = name /\ \A l \in DOMAIN file : file[l].name = name => l <= k]

\* A file with an entry for every target is left alone; otherwise it is
\* rewritten with the targets' entries only, those it had and new ones, which
\* carry the label under which the file is written, the name after a prefix.
UpdatedEntries(file, matrix, prefix) ==
  LET name(i)  == matrix[i].artifact
      entry(i) == IF HasEntry(file, name(i)) THEN EntryFor(file, name(i))
                  ELSE [name |-> prefix \o name(i), by |-> "west"]
  IN IF \A i \in DOMAIN matrix : HasEntry(file, name(i)) THEN file
     ELSE [i \in DOMAIN matrix |-> entry(i)]
=============================================================================
