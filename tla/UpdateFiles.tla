----------------------------- MODULE UpdateFiles -----------------------------
(***************************************************************************)
(* Which files an update replaces, and about which it asks:                *)
(* CUpdateInstaller::ValidateUpdateFiles (update_installer.cpp).  The      *)
(* content of a file is the release that last changed it, as its hash      *)
(* tells releases apart and nothing else.                                  *)
(***************************************************************************)
EXTENDS Integers

CONSTANTS
  Files,        \* the files of the mod, the metadata file aside
  Plat,         \* ... with an extension of g_szPlatFiles, the game's library among them
  Modifiable,   \* ... marked "user_modifiable" in the metadata
  Releases,     \* the number of releases after the one that is installed first
  Metadata      \* for each of them, from 0 on: for each file the release that it is from, or NoHash

NoHash   == -1                          \* an empty hash: no such file
Edited   == -2                          \* the hash of what the user wrote
Torn     == -3                          \* the hash of a file copied in part
Hashes   == -1 .. Releases              \* what metadata knows
Contents == -3 .. Releases              \* what is on disk

\* No release takes a file away: what one knows, the later ones know or have changed.
ASSUME FilesAssumption ==
  /\ Releases \in Nat
  /\ Plat \subseteq Files /\ Modifiable \subseteq Files
  /\ Metadata \in [0 .. Releases -> [Files -> Hashes]]
  /\ \A f \in Files : \A v \in 0 .. Releases :
       /\ Metadata[v][f] <= v
       /\ \A w \in 0 .. v : Metadata[v][f] = Metadata[w][f] \/ Metadata[v][f] > w

\* The hash a release's metadata has for a file
Hash(f, v) == Metadata[v][f]

\* Mutant: only files that the old metadata knows are new in the release
MutToReplace(old, new, real) ==
  {f \in Files :
     /\ Hash(f, new) \notin {NoHash, real[f]}
     /\ real[f] # NoHash => f \notin Modifiable
     /\ \/ f \in Plat /\ real[f] # NoHash
        \/ Hash(f, old) \notin {NoHash, Hash(f, new)}}

\* The files that do not stay as they are: from release old, by its metadata, to
\* release new, where the disk holds real.  A file that the release did not change
\* stays even if it is not what the metadata says.
ToReplace(old, new, real) ==
  {f \in Files :
     /\ Hash(f, new) \notin {NoHash, real[f]}
     /\ real[f] # NoHash => f \notin Modifiable
     /\ \/ f \in Plat /\ real[f] # NoHash
        \/ Hash(f, old) # Hash(f, new)
        \/ real[f] = NoHash}

\* Mutant: files that were never in the metadata are replaced without asking
MutNeedToAsk(f, old, real) ==
  /\ f \in Plat => real[f] = NoHash
  /\ Hash(f, old) # NoHash /\ real[f] # Hash(f, old)

\* The user is asked about a file that is not what the old metadata says, a file that
\* is missing included.  Platform files are replaced in any case.
NeedToAsk(f, old, real) ==
  /\ f \in Plat => real[f] = NoHash
  /\ real[f] # Hash(f, old)
=============================================================================
