---------------------------- MODULE MCFileLoader ----------------------------
(***************************************************************************)
(* Model values, inputs and symmetry for the runs of FileLoader.           *)
(***************************************************************************)
EXTENDS FileLoaderProperties, TLC

\* Workers of one class are interchangeable.
Interchangeable ==
    Permutations(RedoPreferring) \union Permutations(Workers \ RedoPreferring)

AnyFile == [Lines -> LineKinds]

\* Records only, or a line that does not parse between the first record and the
\* others.
OneBadLine ==
    {f \in AnyFile : \A l \in Lines : f[l] = "bad" => l = SkipLines + 2}
=============================================================================
