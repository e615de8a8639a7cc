----------------------------- MODULE MCZmkBuild ------------------------------
(***************************************************************************)
(* ZmkBuild on small command lines and trees.  Two boards differ only in a *)
(* character that is replaced in names.                                    *)
(***************************************************************************)
EXTENDS ZmkBuild

CONSTANTS nano, nano__zmk, nano_zmk, left, right, fw, suffix

Words == {nano, nano__zmk, nano_zmk, left, right, fw, suffix}
Cleaned == [w \in Words |-> IF w = nano__zmk THEN nano_zmk ELSE w]

Include(b, s, a) == [board |-> b, shield |-> s, artifact |-> a]
Document(bs, ss, is) == [board |-> bs, shield |-> ss, include |-> is]

NoArgs ==
  [board |-> {}, shield |-> {}, artifact |-> NoWord, artifact_filter |-> NoWord,
   flash |-> FALSE, interactive |-> FALSE, no_run |-> FALSE, vscode |-> FALSE,
   skip_build |-> FALSE, pristine |-> TRUE, parallelism |-> 2, suffix |-> << >>]

Tree(documents, a) ==
  [zmk |-> TRUE, build_yaml |-> NoWord, places |-> <<<< >>, documents, << >>, << >>>>,
   args |-> a, built |-> {<<nano, left>>, <<fw>>},
   files |-> [cpp |-> << >>, launch |-> << >>]]

Halves == <<Document(<<nano>>, <<left, right>>, << >>)>>
Single == <<Document(<< >>, << >>, <<Include(nano, left, NoWord)>>)>>
Alike == <<Document(<< >>, << >>, <<Include(nano__zmk, left, NoWord)>>),
           Document(<<nano_zmk>>, <<left>>, << >>)>>
Mixed == <<Document(<< >>, << >>, <<Include(nano, left, <<fw>>),
                                    Include(nano, right, NoWord),
                                    Include(nano_zmk, NoWord, <<fw, fw>>)>>)>>

Entry(n, who) == [name |-> n, by |-> who]
Files(c, l) == [cpp |-> c, launch |-> l]

\* The pool: two jobs at once, or one after the other, with and without the
\* directory emptied, and three on two threads.
Pools ==
  {Tree(Halves, NoArgs), Tree(Mixed, NoArgs),
   Tree(Halves, [NoArgs EXCEPT !.pristine = FALSE, !.parallelism = 1])}

\* One target: flashed, built or not.
Flashes ==
  {Tree(Single, [NoArgs EXCEPT !.flash = f, !.skip_build = s, !.pristine = p]) :
     f, s, p \in BOOLEAN}

\* What is planned: names, filters, selections, the editor's files.
Plans ==
  {Tree(yaml, [NoArgs EXCEPT !.skip_build = TRUE, !.no_run = n, !.interactive = i,
                             !.suffix = x, !.artifact = a, !.flash = f]) :
     yaml \in {Alike, Mixed, << >>}, n, i, f \in BOOLEAN, x \in {<< >>, <<suffix>>},
     a \in {NoWord, <<fw>>}}
  \cup {Tree(Mixed, [NoArgs EXCEPT !.interactive = TRUE, !.parallelism = 1])}
  \cup {Tree(Mixed, [NoArgs EXCEPT !.skip_build = TRUE, !.board = b,
                             !.shield = s, !.artifact_filter = m]) :
     b \in {{}, {nano}}, s \in {{}, {right}},
     m \in {NoWord, {<<fw>>}, {NoWord, <<fw, fw>>}}}
  \cup {[Tree(Single, [NoArgs EXCEPT !.vscode = TRUE]) EXCEPT !.files = Files(c, l)] :
     c \in {<< >>, <<Entry(<<nano, left>>, "user")>>, NoWord,
            <<Entry(<<fw>>, "user"), Entry(<<nano, left>>, "user")>>},
     l \in {<< >>, <<Entry(<<nano, left>>, "user")>>, NoWord}}
  \cup {[Tree(Halves, [NoArgs EXCEPT !.skip_build = TRUE, !.vscode = TRUE]) EXCEPT
           !.files = Files(<<Entry(<<nano, left>>, "user")>>, << >>)],
        [Tree(Halves, NoArgs) EXCEPT !.zmk = FALSE],
        [Tree(Halves, NoArgs) EXCEPT !.build_yaml = Single]}

Scenarios == Pools \cup Flashes \cup Plans
=============================================================================
