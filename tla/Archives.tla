------------------------------ MODULE Archives ------------------------------
(***************************************************************************)
(* The archives of a directory as app/goback tells them apart: by the      *)
(* profile's name and the time stamp in the file name.  getZipName puts    *)
(* both there; the globs of findToDelete and findDifferentProfiles and     *)
(* extractTime read them back.  Time is counted in seconds, the resolution *)
(* of dateStr; module Expurge keeps the calendar and the listing.          *)
(***************************************************************************)
EXTENDS Integers, FiniteSets

CONSTANTS
    Names,        \* profile names, numbered in the order their files are listed
    Matches,      \* Matches[n]: the names the glob built from n matches
    Uncompilable, \* the names glob.Compile rejects
    MaxClock      \* bound: the last time stamp

ASSUME NamesAssumption == Names \subseteq Nat \ {0}
ASSUME GlobAssumption ==
    /\ Matches \in [Names -> SUBSET Names]
    /\ Uncompilable \subseteq Names
ASSUME MaxClockAssumption == MaxClock \in Nat

File == [name : Names, stamp : 0 .. MaxClock]

\* No name is a pattern for another.
PlainNames == \A n \in Names : Matches[n] = {n}

\* g was made for the same profile as f, later.
Newer(g, f) == g.name = f.name /\ g.stamp > f.stamp

\* The order of findToDelete's stable sort over the listing: by extractTime,
\* then as filepath.Glob lists the names.
Before(f, g) == f.stamp < g.stamp \/ (f.stamp = g.stamp /\ f.name < g.name)

\* Mutants of findToDelete: one version too few, one too many is kept, the
\* newest are deleted instead of the oldest, and the name is not looked at.
findToDelete_KeepsOneLess(F, n, k) ==
    LET M == {f \in F : f.name \in Matches[n]}
    IN  {f \in M : Cardinality({g \in M : Before(f, g)}) >= k - 1}
findToDelete_KeepsOneMore(F, n, k) ==
    LET M == {f \in F : f.name \in Matches[n]}
    IN  {f \in M : Cardinality({g \in M : Before(f, g)}) > k}
findToDelete_NewestFirst(F, n, k) ==
    LET M == {f \in F : f.name \in Matches[n]}
    IN  {f \in M : Cardinality({g \in M : Before(g, f)}) >= k}

findToDelete_AnyName(F, n, k) ==
    {f \in F : Cardinality({g \in F : Before(f, g)}) >= k}

\* All but the k newest of the archives the profile's glob matches.
findToDelete(F, n, k) ==
    LET M == {f \in F : f.name \in Matches[n]}
    IN  {f \in M : Cardinality({g \in M : Before(f, g)}) >= k}

\* The next file ExpurgeDir removes from filesToDelete: the oldest.
IsFirst(f, D) == f \in D /\ \A g \in D \ {f} : Before(f, g)
=============================================================================
