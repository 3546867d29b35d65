------------------------------- MODULE MCVfs -------------------------------
(***************************************************************************)
(* A filesystem small enough to look at every state of.                    *)
(***************************************************************************)
EXTENDS VfsRefinement

Path(comps) == [root |-> FALSE, comps |-> comps]
FromRoot(comps) == [root |-> TRUE, comps |-> comps]

\* The tree: three entries side by side or one below another, by paths that
\* start at the root or at the working directory and may lead out of it.
MCTreePaths == {FromRoot(<<"a">>), Path(<<"b">>), Path(<<"..", "c">>), Path(<<"..">>)}
MCTreeTexts == {}

\* The pool: two files side by side.
MCFilePaths == {FromRoot(<<"a">>), FromRoot(<<"b">>)}
MCFileTexts == {<<1>>, <<1, 1, 1>>}

\* Both, small enough to search the promised steps for each step taken.
MCRefinementPaths == {FromRoot(<<"a">>), FromRoot(<<"b">>), FromRoot(<<"a", "b">>)}
MCRefinementTexts == {<<1>>, <<1, 1>>}
============================================================================
