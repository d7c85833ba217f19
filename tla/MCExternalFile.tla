--------------------------- MODULE MCExternalFile ---------------------------
(***************************************************************************)
(* A small instance of ExternalFile and FilePort for TLC: a project of two *)
(* paths, one of which comes and goes between revisions.                   *)
(***************************************************************************)
EXTENDS FilePort, TLC

CONSTANTS p1, p2, r1, r2

MC_Content == {"root", "one", "two", "edited"}

\* The import has both paths, the first commit drops p2, the second restores it.
MC_Project ==
  Root :> (p1 :> "root" @@ p2 :> "root")
    @@ r1 :> (p1 :> "one" @@ p2 :> Absent)
    @@ r2 :> (p1 :> "two" @@ p2 :> "two")

\* The premise of CallsAreOneStep holds here.
ASSUME MixtureAssumption == NoMixture
============================================================================
